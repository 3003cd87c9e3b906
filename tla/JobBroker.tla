----------------------------- MODULE JobBroker -----------------------------
(***************************************************************************)
(* The job broker (job-queue/job-broker.ts): how a queued job is taken     *)
(* under a lease, passes the interceptors, is handed to a worker, reported *)
(* and finished, together with the concurrency pool of the rate limiter    *)
(* (interceptors/rate-limiter-interceptor.ts).                             *)
(*                                                                         *)
(* BullMQ keeps a job's state, its lock and its counters; each of its      *)
(* scripts is atomic, so each is one step here.  A delivery is one         *)
(* getNextJob and what follows it: every delivery has a lease token of its *)
(* own, and may live on in an API process, a worker or a completeJob call  *)
(* after the lease went to another delivery of the same job.  A token that *)
(* nothing refers to any more stands for a fresh one.                      *)
(***************************************************************************)
EXTENDS Naturals, FiniteSets

CONSTANTS
  Jobs,           \* the jobs of one queue and one project
  Limited,        \* production EXECUTE_FLOW jobs, which take a slot of the pool
  Interactive,    \* jobs a caller waits for the answer of
  Polling,        \* repeating jobs the zombie interceptor may discard
  Malformed,      \* jobs whose data fails the schema after its migration
  Tokens,         \* lease tokens
  None,           \* no token
  Limit,          \* the project's concurrency limit
  MaxAttempts,    \* attempts of a job
  MaxStalls,      \* maxStalledCount
  MaxLapses,      \* bound: leases not renewed under a live holder
  MaxLosses,      \* bound: deliveries whose process dies or answer is lost
  MaxLostReports, \* bound: completeJob calls that die half way
  MaxUnread,      \* bound: calls that cannot read the lock or move the job
  MaxStaleScores, \* bound: slots that outlive their score under a redelivery
  ReleaseBeatsDelay \* a released slot is gone before the job's delay is over

ASSUME BrokerAssumption ==
  /\ Limited \subseteq Jobs /\ Interactive \subseteq Jobs \ Limited
  /\ Polling \subseteq Jobs \ (Limited \union Interactive)
  /\ Malformed \subseteq Jobs
  /\ IsFiniteSet(Jobs) /\ None \notin Tokens /\ None \notin Jobs
  /\ Limit \in Nat \ {0} /\ MaxAttempts \in Nat \ {0} /\ MaxStalls \in Nat
  /\ MaxLapses \in Nat /\ MaxLosses \in Nat /\ MaxLostReports \in Nat
  /\ MaxUnread \in Nat /\ MaxStaleScores \in Nat
  /\ ReleaseBeatsDelay \in BOOLEAN

VARIABLES
  state,      \* where BullMQ keeps each job
  lock,       \* the token in each job's lock key
  attempts,   \* attemptsMade
  stalls,     \* stalledCounter
  slot,       \* the job's member in the concurrency pool
  delivery,   \* what each token's delivery is doing
  call,       \* the completeJob calls of a token: the first and its resend
  answered,   \* the tokens whose report was published to the caller
  faults      \* how often each bounded fault has happened

vars == <<state, lock, attempts, stalls, slot, delivery, call, answered, faults>>

States == {"waiting", "active", "delayed", "completed", "failed"}
Finished == {"completed", "failed"}
Phases == {"over", "doomed", "taken", "refused", "ready", "returned",
           "running", "reported"}
Results == {"ok", "retryable", "final"}
Copies == {1, 2}
CallPhases == {"none", "sent", "checked", "release"}
Deliveries == [job : Jobs \union {None}, phase : Phases, result : Results]
Over == [job |-> None, phase |-> "over", result |-> "ok"]
Faults == {"lapse", "loss", "report", "unread", "score"}
Bound(f) == CASE f = "lapse" -> MaxLapses [] f = "loss" -> MaxLosses
              [] f = "report" -> MaxLostReports [] f = "unread" -> MaxUnread
              [] f = "score" -> MaxStaleScores

JobOf(t) == delivery[t].job
Phase(t) == delivery[t].phase
\* A token nothing refers to: its place can be taken by a new one.
Free(t) == Phase(t) = "over" /\ \A j \in Jobs : lock[j] # t
\* A lock key exists only while the job is active, so the token decides alone.
Holds(t) == lock[JobOf(t)] = t
\* The delivery still has a process or a call that may act on its job.
Live(t) == Phase(t) # "over"
\* The delivery passed the interceptors and holds its job.
Admitted(t) == Phase(t) \in {"ready", "running"} /\ Holds(t)
AdmittedJob(j) == \E t \in Tokens : JobOf(t) = j /\ Admitted(t)
\* A release of the job's slot is on its way.
Releasing(t) == Phase(t) = "returned" \/ \E k \in Copies : call[t][k] = "release"
ReleasePending(j) == \E t \in Tokens : JobOf(t) = j /\ Releasing(t)

Init ==
  /\ state = [j \in Jobs |-> "waiting"]
  /\ lock = [j \in Jobs |-> None]
  /\ attempts = [j \in Jobs |-> 0]
  /\ stalls = [j \in Jobs |-> 0]
  /\ slot = [j \in Jobs |-> "none"]
  /\ delivery = [t \in Tokens |-> Over]
  /\ call = [t \in Tokens |-> [k \in Copies |-> "none"]]
  /\ answered = {}
  /\ faults = [f \in Faults |-> 0]

Goto(t, p) == delivery' = [delivery EXCEPT ![t].phase = p]
End(t) == delivery' = [delivery EXCEPT ![t] = Over]
Fault(f) == faults[f] < Bound(f) /\ faults' = [faults EXCEPT ![f] = @ + 1]
Unlock(j) == lock' = [lock EXCEPT ![j] = None]
MoveTo(j, s) == state' = [state EXCEPT ![j] = s] /\ Unlock(j)
Counters == <<attempts, stalls>>

\* -------------------------------------------------------------- tryDequeue

(* worker.getNextJob(token).  A job past its stalled limit carries a       *)
(* deferred failure, and one whose data does not parse is failed too.      *)
Take(j, t) ==
  /\ state[j] = "waiting" /\ Free(t)
  /\ state' = [state EXCEPT ![j] = "active"]
  /\ lock' = [lock EXCEPT ![j] = t]
  /\ delivery' = [delivery EXCEPT ![t] =
       [job |-> j, result |-> "ok",
        phase |-> IF stalls[j] > MaxStalls \/ j \in Malformed THEN "doomed" ELSE "taken"]]
  /\ answered' = answered \ {t}
  /\ UNCHANGED <<Counters, slot, call, faults>>

(* moveToFailed(UnrecoverableError) of a doomed job: no onJobFinished, so  *)
(* a slot the job has stays in the pool until its score is too old.        *)
FailDoomed(t) ==
  /\ Phase(t) = "doomed"
  /\ End(t)
  /\ IF Holds(t) THEN MoveTo(JobOf(t), "failed") ELSE UNCHANGED <<state, lock>>
  /\ UNCHANGED <<Counters, slot, call, answered, faults>>

(* tryAcquireSlot: members that are too old go first; a member that is     *)
(* already there is let in with the score it has.                          *)
\* Mutant: no member is ever too old (ZREMRANGEBYSCORE forgotten).
FreshNever == slot

Fresh == [j \in Jobs |-> IF slot[j] = "aged" THEN "none" ELSE slot[j]]
Members(pool) == {j \in Jobs : pool[j] # "none"}
\* Mutant: the pool is compared with the limit one job too late.
HasRoomOffByOne(j) == Fresh[j] # "none" \/ Cardinality(Members(Fresh)) <= Limit

HasRoom(j) == Fresh[j] # "none" \/ Cardinality(Members(Fresh)) < Limit

Admit(t) ==
  /\ Phase(t) = "taken" /\ JobOf(t) \in Limited
  /\ IF HasRoom(JobOf(t))
     THEN slot' = [Fresh EXCEPT ![JobOf(t)] = "held"] /\ Goto(t, "ready")
     ELSE slot' = Fresh /\ Goto(t, "refused")
  /\ UNCHANGED <<state, lock, Counters, call, answered, faults>>

\* The limiter does not concern this job and the zombie interceptor allows it.
Allow(t) ==
  /\ Phase(t) = "taken" /\ JobOf(t) \notin Limited
  /\ Goto(t, "ready")
  /\ UNCHANGED <<state, lock, Counters, slot, call, answered, faults>>

\* DISCARD: no trigger source is active for the repeating job's version.
Discard(t) ==
  /\ Phase(t) = "taken" /\ JobOf(t) \in Polling
  /\ End(t)
  /\ IF Holds(t) THEN MoveTo(JobOf(t), "completed") ELSE UNCHANGED <<state, lock>>
  /\ UNCHANGED <<Counters, slot, call, answered, faults>>

(* REJECT: moveToDelayed, which leaves attemptsMade alone.  With the lease *)
(* gone it throws into the dispatcher, which only waits and goes on.       *)
Postpone(t) ==
  /\ Phase(t) = "refused"
  /\ End(t)
  /\ IF Holds(t) THEN MoveTo(JobOf(t), "delayed") ELSE UNCHANGED <<state, lock>>
  /\ UNCHANGED <<Counters, slot, call, answered, faults>>

\* The dispatcher resolves a waiter with the job, and its worker runs it.
HandOver(t) ==
  /\ Phase(t) = "ready"
  /\ Goto(t, "running")
  /\ UNCHANGED <<state, lock, Counters, slot, call, answered, faults>>

\* -------------------------------------------------------- returnJobToQueue

\* Nobody waits for the job any more: moveToDelayed(now + 100 ms) ...
Return(t) ==
  /\ Phase(t) = "ready"
  /\ IF Holds(t) THEN MoveTo(JobOf(t), "delayed") /\ Goto(t, "returned")
                 ELSE UNCHANGED <<state, lock>> /\ End(t)
  /\ UNCHANGED <<Counters, slot, call, answered, faults>>

ReleaseSlot(j) == slot' = [slot EXCEPT ![j] = "none"]

\* ... and then onJobFinished, which removes the job's member whoever set it.
ReleaseReturned(t) ==
  /\ Phase(t) = "returned"
  /\ End(t) /\ ReleaseSlot(JobOf(t))
  /\ UNCHANGED <<state, lock, Counters, call, answered, faults>>

\* -------------------------------------------------------------- the worker

\* The handler returned: the worker sends completeJob with the outcome.
Report(t, r) ==
  /\ Phase(t) = "running"
  /\ delivery' = [delivery EXCEPT ![t].phase = "reported", ![t].result = r]
  /\ call' = [call EXCEPT ![t][1] = "sent"]
  /\ UNCHANGED <<state, lock, Counters, slot, answered, faults>>

\* The connection dropped under the call, so the worker sends it once more.
Resend(t) ==
  /\ Phase(t) = "reported" /\ call[t][1] # "none" /\ call[t][2] = "none"
  /\ call' = [call EXCEPT ![t][2] = "sent"]
  /\ UNCHANGED <<state, lock, Counters, slot, delivery, answered, faults>>

(* extendLock answers leaseLost, or TRUST_MS passed without a renewal: the *)
(* worker gives its copy up and reports nothing.  The deadline comes       *)
(* before the lock it distrusts can expire, so the job may still be its.   *)
GiveUp(t) ==
  /\ Phase(t) = "running"
  /\ IF Holds(t) THEN Fault("lapse") ELSE UNCHANGED faults
  /\ End(t)
  /\ UNCHANGED <<state, lock, Counters, slot, call, answered>>

\* ------------------------------------------------------------- completeJob

Call(t, k, p) == call' = [call EXCEPT ![t][k] = p]
\* The call returns; the last one to return ends the delivery.
Answer(t, k) ==
  /\ Call(t, k, "none")
  /\ IF \E c \in Copies \ {k} : call[t][c] # "none" THEN UNCHANGED delivery ELSE End(t)

\* holdsLease: a report from a delivery that lost the job is ignored.
CheckLease(t, k) ==
  /\ call[t][k] = "sent"
  /\ IF Holds(t) THEN Call(t, k, "checked") /\ UNCHANGED delivery ELSE Answer(t, k)
  /\ UNCHANGED <<state, lock, Counters, slot, answered, faults>>

\* Whether BullMQ retries a failed attempt; a user-interaction job has only one.
AttemptsOf(j) == IF j \in Interactive THEN 1 ELSE MaxAttempts
Retries(t) == /\ delivery[t].result = "retryable"
              /\ attempts[JobOf(t)] + 1 < AttemptsOf(JobOf(t))

FinalState(t) == IF delivery[t].result = "ok" THEN "completed" ELSE "failed"

Publish(t) == answered' = IF JobOf(t) \in Interactive THEN answered \union {t} ELSE answered

(* Mutant: a finish that lost the lock takes the failed move's path: the   *)
(* caller is answered and the slot released (no isLostLockError).          *)
FinishAnyway(t, k) ==
  /\ call[t][k] = "checked"
  /\ IF Holds(t)
     THEN /\ MoveTo(JobOf(t), IF Retries(t) THEN "delayed" ELSE FinalState(t))
          /\ attempts' = [attempts EXCEPT ![JobOf(t)] = @ + 1]
     ELSE UNCHANGED <<state, lock, attempts>>
  /\ Call(t, k, "release") /\ Publish(t)
  /\ UNCHANGED <<stalls, slot, delivery, faults>>

(* moveToCompleted or moveToFailed under the token, then the answer to the *)
(* caller.  The lock may have moved on since it was checked: ignored.      *)
Finish(t, k) ==
  /\ call[t][k] = "checked"
  /\ IF Holds(t)
     THEN /\ MoveTo(JobOf(t), IF Retries(t) THEN "delayed" ELSE FinalState(t))
          /\ attempts' = [attempts EXCEPT ![JobOf(t)] = @ + 1]
          /\ Call(t, k, "release") /\ Publish(t) /\ UNCHANGED delivery
     ELSE Answer(t, k) /\ UNCHANGED <<state, lock, attempts, answered>>
  /\ UNCHANGED <<stalls, slot, faults>>

(* The lock cannot be read, or the move fails for another reason: the      *)
(* caller is told INTERNAL_ERROR, the slot is released and the job stays   *)
(* active for the stalled scan.                                            *)
FailToFinish(t, k) ==
  /\ call[t][k] \in {"sent", "checked"}
  /\ Fault("unread")
  /\ Call(t, k, "release") /\ Publish(t)
  /\ UNCHANGED <<state, lock, Counters, slot, delivery>>

\* Mutant: the slot is released only for a job that failed.
ReleaseFailed(t, k) ==
  /\ call[t][k] = "release"
  /\ Answer(t, k)
  /\ IF state[JobOf(t)] = "completed" THEN UNCHANGED slot ELSE ReleaseSlot(JobOf(t))
  /\ UNCHANGED <<state, lock, Counters, answered, faults>>

\* onJobFinished of the interceptors.
Release(t, k) ==
  /\ call[t][k] = "release"
  /\ Answer(t, k) /\ ReleaseSlot(JobOf(t))
  /\ UNCHANGED <<state, lock, Counters, answered, faults>>

\* ----------------------------------------------------- BullMQ and the clock

\* A delayed job's delay is over.
Promote(j) ==
  /\ state[j] = "delayed"
  /\ ReleaseBeatsDelay => ~ReleasePending(j)
  /\ state' = [state EXCEPT ![j] = "waiting"]
  /\ UNCHANGED <<lock, Counters, slot, delivery, call, answered, faults>>

\* The lock key of a delivery that nothing renews any more expires.
ExpireDead(j) ==
  /\ \E t \in Tokens : lock[j] = t /\ ~Live(t)
  /\ Unlock(j)
  /\ UNCHANGED <<state, Counters, slot, delivery, call, answered, faults>>

\* A worker cut off from the API does not renew the lock of what it runs.
ExpireLive(j) ==
  /\ \E t \in Tokens : lock[j] = t /\ Phase(t) \in {"running", "reported"}
  /\ Fault("lapse") /\ Unlock(j)
  /\ UNCHANGED <<state, Counters, slot, delivery, call, answered>>

\* The stalled scan puts an active job without a lock back into the queue.
ScanStalled(j) ==
  /\ state[j] = "active" /\ lock[j] = None
  /\ state' = [state EXCEPT ![j] = "waiting"]
  /\ stalls' = [stalls EXCEPT ![j] = @ + 1]
  /\ UNCHANGED <<lock, attempts, slot, delivery, call, answered, faults>>

(* The score of a slot is older than the flow timeout and a minute.  A     *)
(* first delivery ends before that; a redelivery kept the old score, so    *)
(* its slot can age while it runs.                                         *)
AgeSlot(j) ==
  /\ slot[j] = "held"
  /\ IF AdmittedJob(j) THEN stalls[j] + attempts[j] > 0 /\ Fault("score")
                       ELSE UNCHANGED faults
  /\ slot' = [slot EXCEPT ![j] = "aged"]
  /\ UNCHANGED <<state, lock, Counters, delivery, call, answered>>

\* The API or worker process of a delivery dies, or its answer is lost.
Lose(t) ==
  /\ Phase(t) \notin {"over", "reported"}
  /\ Fault("loss") /\ End(t)
  /\ UNCHANGED <<state, lock, Counters, slot, call, answered>>

\* The API process of a completeJob call dies.
LoseCall(t, k) ==
  /\ call[t][k] # "none"
  /\ Fault("report") /\ Answer(t, k)
  /\ UNCHANGED <<state, lock, Counters, slot, answered>>

\* ---------------------------------------------------------- specification

TakeJob(j) == \E t \in Tokens : Take(j, t)
Dequeue(t) == FailDoomed(t) \/ Admit(t) \/ Allow(t) \/ Discard(t) \/ Postpone(t)
Hand(t) == HandOver(t) \/ Return(t)
Work(t) == (\E r \in Results : Report(t, r)) \/ GiveUp(t)
Complete(t, k) == CheckLease(t, k) \/ Finish(t, k) \/ Release(t, k)

Next ==
  \/ \E j \in Jobs : TakeJob(j) \/ Promote(j) \/ ExpireDead(j) \/ ExpireLive(j)
                     \/ ScanStalled(j) \/ AgeSlot(j)
  \/ \E t \in Tokens : Dequeue(t) \/ Hand(t) \/ ReleaseReturned(t) \/ Work(t)
                       \/ Resend(t) \/ Lose(t)
  \/ \E t \in Tokens, k \in Copies : Complete(t, k) \/ FailToFinish(t, k) \/ LoseCall(t, k)

Spec == Init /\ [][Next]_vars

(* Fairness: BullMQ's lists are served in order, so a waiting job is taken *)
(* in the end; the API's and the worker's steps run; timers fire.  A retry *)
(* and a return to the queue may be repeated, but not for ever: HandOver   *)
(* is strongly fair because a waiter that stays takes a job in the end.    *)
Fairness ==
  /\ \A j \in Jobs : /\ SF_vars(TakeJob(j)) /\ WF_vars(Promote(j))
                     /\ WF_vars(ExpireDead(j)) /\ WF_vars(ScanStalled(j))
                     /\ WF_vars(AgeSlot(j) /\ UNCHANGED faults)
  /\ \A t \in Tokens : /\ WF_vars(Dequeue(t)) /\ WF_vars(ReleaseReturned(t))
                       /\ WF_vars(Work(t))
  /\ \A j \in Jobs : SF_vars(\E t \in Tokens : JobOf(t) = j /\ HandOver(t))
  /\ \A t \in Tokens, k \in Copies : WF_vars(Complete(t, k))

FairSpec == Spec /\ Fairness

\* -------------------------------------------------------------- properties

(* Type correctness of the broker's state; a job's counters stay within    *)
(* its attempts.                                                           *)
TypeOK ==
  /\ state \in [Jobs -> States]
  /\ lock \in [Jobs -> Tokens \union {None}]
  /\ attempts \in [Jobs -> 0 .. MaxAttempts]
  /\ stalls \in [Jobs -> Nat]
  /\ slot \in [Jobs -> {"none", "held", "aged"}]
  /\ delivery \in [Tokens -> Deliveries]
  /\ call \in [Tokens -> [Copies -> CallPhases]]
  /\ answered \in SUBSET Tokens
  /\ faults \in [Faults -> Nat]

(* No more jobs run under a lease than the project's limit allows          *)
(* ("Concurrency limits control how many flow runs can execute             *)
(* simultaneously within a project", manage-concurrency.mdx).              *)
Executing == {j \in Limited : \E t \in Tokens : JobOf(t) = j /\ Phase(t) = "running" /\ Holds(t)}
WithinLimit == Cardinality(Executing) <= Limit

(* A delivery that passed the rate limiter and still holds its job never   *)
(* loses its slot to a report, a resend or a return of an older delivery,  *)
(* nor to another job's clean-up of the pool.                              *)
SlotKept ==
  [][\A t \in Tokens : Admitted(t) /\ Admitted(t)' /\ JobOf(t) \in Limited
                         /\ slot[JobOf(t)] # "none"
                       => slot'[JobOf(t)] # "none"]_vars

(* A finished job gives its slot back: one that is still in the pool has a *)
(* release on its way, or was failed for stalling too often.               *)
SlotReturned ==
  \A j \in Jobs : state[j] \in Finished /\ slot[j] # "none"
                  => ReleasePending(j) \/ stalls[j] > MaxStalls \/ faults["report"] > 0

(* A caller is answered only by the delivery that holds the job: neither a *)
(* late nor a repeated completeJob publishes anything (completeJob).       *)
HolderAnswers ==
  [][\A t \in Tokens : t \in answered' \ answered => Holds(t) /\ ~Holds(t)']_vars

(* Whatever stalls, is refused, is returned or dies on the way, every job  *)
(* is completed or failed in the end.                                      *)
EveryJobFinishes == \A j \in Jobs : <>[](state[j] \in Finished)

\* The pool itself never holds more members than the limit.
PoolBound == Cardinality(Members(slot)) <= Limit
=============================================================================
