---------------------------- MODULE WorkerLease ----------------------------
(***************************************************************************)
(* One job handed from delivery to delivery, in discrete time. The API     *)
(* holds its lock for LockDuration after it was taken or last extended;    *)
(* the worker that received a delivery trusts its lease for TrustTime      *)
(* after the sending of the last renewal that was confirmed, gives the job *)
(* up when that has passed, and kills its engine. Renewals and reports     *)
(* take time, are lost and overtake one another.                           *)
(*                                                                         *)
(* A delivery is a token: the slot that runs it, and whether two of them   *)
(* share a process, does not matter to the lease.                          *)
(***************************************************************************)
EXTENDS Integers

CONSTANTS
  Last,          \* bound: deliveries of the job, numbered 1 .. Last
  Calls,         \* bound: extendLock calls under way at a time
  LockDuration,  \* WORKER_JOB_LOCK_DURATION_MS
  TrustTime,     \* TRUST_MS
  MaxHandOver,   \* time between the dequeue and the worker's receipt of the job
  MaxLate,       \* by how much a deadline may fire late and an engine die late
  MaxStalls      \* maxStalledCount

Deliveries == 1 .. Last

ASSUME LeaseAssumption ==
  /\ Last \in Nat /\ MaxStalls \in Nat
  /\ LockDuration \in Nat \ {0} /\ TrustTime \in Nat \ {0}
  /\ MaxHandOver \in Nat /\ MaxLate \in Nat

\* What TRUST_MS is chosen for: one renewal interval before the lock can expire. It
\* has to cover the hand-over too, which nothing in the code bounds.
ASSUME MarginAssumption == TrustTime + MaxHandOver + MaxLate < LockDuration

VARIABLES
  job,      \* waiting, active, done or failed
  holder,   \* the delivery whose token holds the lock, 0 for none
  lock,     \* time until the lock expires
  stalls,   \* stalledCounter
  next,     \* deliveries made so far
  pc,       \* where each delivery is
  left,     \* time until the deadline of each lease; late, below 0
  age,      \* time since the dequeue, for a delivery being handed over
  givenUp,  \* whether its worker gave the delivery up
  sent,     \* whether its engine received the operation
  result,   \* what its handler returned
  verdict,  \* what the API took of it
  call      \* the extendLock calls

vars == <<job, holder, lock, stalls, next, pc, left, age, givenUp, sent, result, verdict,
          call>>
api == <<job, holder, lock, stalls, next, verdict>>
lease == <<left, givenUp>>
run == <<pc, age, sent, result>>

Results == {"ok", "retryable", "final"}
NoCall == [of |-> 0, at |-> "none", age |-> 0]

\* The lock is the delivery's: its token is there and has not expired.
Holds(d) == job = "active" /\ holder = d /\ lock > 0

\* Its worker has the job, and what it does reaches the API.
Owns(d) == d \in Deliveries /\ pc[d] \in {"running", "completing"} /\ ~givenUp[d]

\* Its engine may be running: until the handler returned, or it was killed.
EngineAlive(d) == pc[d] = "running"

-----------------------------------------------------------------------------
(* Time *)

\* The answers of calls older than that are all the same, and so are those of a
\* delivery that is given up or over.
MaxAge == TrustTime + MaxLate

Older(a) == IF a < MaxAge THEN a + 1 ELSE a

Counting(d) == EngineAlive(d) \/ (pc[d] = "completing" /\ left[d] > 0)

\* A deadline fires, and an engine dies, at most MaxLate after the deadline.
Tick ==
  /\ \A d \in Deliveries : EngineAlive(d) => left[d] > -MaxLate
  /\ \A d \in Deliveries : pc[d] = "handover" => age[d] < MaxHandOver
  /\ lock' = IF lock > 0 THEN lock - 1 ELSE 0
  /\ left' = [d \in Deliveries |-> IF Counting(d) THEN left[d] - 1 ELSE left[d]]
  /\ age' = [d \in Deliveries |-> IF pc[d] = "handover" THEN age[d] + 1 ELSE age[d]]
  /\ call' = [c \in Calls |-> IF Owns(call[c].of) THEN [call[c] EXCEPT !.age = Older(@)]
                              ELSE call[c]]
  /\ UNCHANGED <<job, holder, stalls, next, pc, givenUp, sent, result, verdict>>

-----------------------------------------------------------------------------
(* The API *)

\* tryDequeue: getNextJob takes the lock under a fresh token.
Dequeue ==
  /\ job = "waiting" /\ next < Last
  /\ next' = next + 1
  /\ job' = "active" /\ holder' = next' /\ lock' = LockDuration
  /\ pc' = [pc EXCEPT ![next'] = "handover"]
  /\ UNCHANGED <<stalls, verdict, lease, age, sent, result, call>>

Stalled == job = "active" /\ lock = 0

\* The stalled scan hands the job out again, and fails it once it stalled too often.
StalledScan ==
  /\ Stalled
  /\ holder' = 0
  /\ IF stalls < MaxStalls
     THEN stalls' = stalls + 1 /\ job' = "waiting"
     ELSE job' = "failed" /\ UNCHANGED stalls
  /\ UNCHANGED <<lock, next, verdict, lease, run, call>>

\* extendLock: refused once the token does not hold the lock.
ExtendLock(c) ==
  /\ call[c].at = "sent"
  /\ IF Holds(call[c].of)
     THEN lock' = LockDuration /\ call' = [call EXCEPT ![c].at = "granted"]
     ELSE call' = [call EXCEPT ![c].at = "refused"] /\ UNCHANGED lock
  /\ UNCHANGED <<job, holder, stalls, next, verdict, lease, run>>

-----------------------------------------------------------------------------
(* The worker *)

\* The answer of the poll arrives: the lease counts from now.
Receive(d) ==
  /\ pc[d] = "handover"
  /\ pc' = [pc EXCEPT ![d] = "running"]
  /\ left' = [left EXCEPT ![d] = TrustTime]
  /\ age' = [age EXCEPT ![d] = 0]
  /\ UNCHANGED <<api, givenUp, sent, result, call>>

\* renewLease, at its tick or after a reconnect.
Renew(c, d) ==
  /\ call[c] = NoCall /\ Owns(d)
  /\ call' = [call EXCEPT ![c] = [of |-> d, at |-> "sent", age |-> 0]]
  /\ UNCHANGED <<api, lease, run>>

\* Mutant: a confirmation counts from its arrival.
FromNow(c) == TrustTime

\* From the sending of the renewal.
FromSending(c) == TrustTime - call[c].age

\* confirm: an older renewal's answer does not shorten what a newer one gave. A lease
\* given up, or of a delivery that is over, stays that way.
Confirm(c) ==
  /\ call[c].at = "granted"
  /\ call' = [call EXCEPT ![c] = NoCall]
  /\ IF Owns(call[c].of) /\ FromSending(c) > left[call[c].of]
     THEN left' = [left EXCEPT ![call[c].of] = FromSending(c)]
     ELSE UNCHANGED left
  /\ UNCHANGED <<api, givenUp, run>>

\* abandonLostLease: what the delivery does from here on does not reach the API.
GiveUp(d) == givenUp' = [givenUp EXCEPT ![d] = TRUE]

\* The API answers leaseLost.
Refuse(c) ==
  /\ call[c].at = "refused"
  /\ call' = [call EXCEPT ![c] = NoCall]
  /\ IF Owns(call[c].of) THEN GiveUp(call[c].of) ELSE UNCHANGED givenUp
  /\ UNCHANGED <<api, left, run>>

\* The connection drops, or the call times out: nothing is confirmed.
LoseCall(c) ==
  /\ call[c] # NoCall
  /\ call' = [call EXCEPT ![c] = NoCall]
  /\ UNCHANGED <<api, lease, run>>

\* The deadline of leaseTracker fires.
Expire(d) ==
  /\ Owns(d) /\ left[d] <= 0
  /\ GiveUp(d)
  /\ UNCHANGED <<api, left, run, call>>

\* stop: the grace is over. The loop unwinds once the engine is dead.
Abandon(d) ==
  /\ Owns(d)
  /\ GiveUp(d)
  /\ UNCHANGED <<api, left, run, call>>

\* The slot is done with the delivery, and forgets its lease.
Forget(d) ==
  /\ pc' = [pc EXCEPT ![d] = "over"]
  /\ left' = [left EXCEPT ![d] = 0]
  /\ age' = [age EXCEPT ![d] = 0]
  /\ result' = [result EXCEPT ![d] = "none"]

\* A delivery given up ends with its engine, and reports nothing.
Kill(d) ==
  /\ pc[d] = "running" /\ givenUp[d]
  /\ Forget(d)
  /\ UNCHANGED <<api, givenUp, sent, call>>

\* The process dies; or an answer of the poll, or a report, never arrives.
Crash(d) ==
  /\ pc[d] \in {"handover", "running", "completing"}
  /\ Forget(d)
  /\ UNCHANGED <<api, givenUp, sent, call>>

-----------------------------------------------------------------------------
(* The handler of EXECUTE_FLOW *)

\* The engine receives the operation. A sandbox is not acquired after a give-up.
SendOperation(d) ==
  /\ pc[d] = "running" /\ ~givenUp[d] /\ ~sent[d]
  /\ sent' = [sent EXCEPT ![d] = TRUE]
  /\ UNCHANGED <<api, lease, pc, age, result, call>>

\* Mutant: any failure may be retried.
AlwaysRetryable(d) == Results

\* A failure is retried only if the operation had not been sent.
ResultsOf(d) == IF sent[d] THEN Results \ {"retryable"} ELSE Results

\* The handler returns, and runJob sends its result, given up or not since.
Return(d) ==
  /\ pc[d] = "running" /\ ~givenUp[d]
  /\ \E r \in ResultsOf(d) : result' = [result EXCEPT ![d] = r]
  /\ pc' = [pc EXCEPT ![d] = "completing"]
  /\ UNCHANGED <<api, lease, age, sent, call>>

\* completeJob at the API, which takes it from the holder of the lock only. A
\* retryable failure puts the job back, after its backoff.
Completes(d) ==
  IF Holds(d)
  THEN /\ job' = CASE result[d] = "ok" -> "done"
                   [] result[d] = "final" -> "failed"
                   [] result[d] = "retryable" -> "waiting"
       /\ holder' = 0 /\ lock' = 0
       /\ verdict' = [verdict EXCEPT ![d] = result[d]]
       /\ UNCHANGED <<stalls, next>>
  ELSE UNCHANGED api

\* The call arrives. Its answer may not: then it is sent again.
Complete(d) ==
  /\ pc[d] = "completing"
  /\ Completes(d)
  /\ Forget(d) \/ UNCHANGED <<pc, left, age, result>>
  /\ UNCHANGED <<givenUp, sent, call>>

-----------------------------------------------------------------------------
Init ==
  /\ job = "waiting" /\ holder = 0 /\ lock = 0 /\ stalls = 0 /\ next = 0
  /\ pc = [d \in Deliveries |-> "none"]
  /\ left = [d \in Deliveries |-> 0] /\ age = [d \in Deliveries |-> 0]
  /\ givenUp = [d \in Deliveries |-> FALSE]
  /\ sent = [d \in Deliveries |-> FALSE]
  /\ result = [d \in Deliveries |-> "none"]
  /\ verdict = [d \in Deliveries |-> "none"]
  /\ call = [c \in Calls |-> NoCall]

Next ==
  \/ Tick \/ Dequeue \/ StalledScan
  \/ \E d \in Deliveries :
       \/ Receive(d) \/ Expire(d) \/ Abandon(d) \/ Kill(d) \/ Crash(d)
       \/ SendOperation(d) \/ Return(d) \/ Complete(d)
  \/ \E c \in Calls :
       \/ ExtendLock(c) \/ Confirm(c) \/ Refuse(c) \/ LoseCall(c)
       \/ \E d \in Deliveries : Renew(c, d)

Spec == Init /\ [][Next]_vars

-----------------------------------------------------------------------------
(* Properties *)

\* The variables keep their types.
TypeOK ==
  /\ job \in {"waiting", "active", "done", "failed"}
  /\ holder \in 0 .. Last /\ next \in 0 .. Last
  /\ lock \in 0 .. LockDuration /\ stalls \in 0 .. MaxStalls
  /\ pc \in [Deliveries -> {"none", "handover", "running", "completing", "over"}]
  /\ left \in [Deliveries -> -MaxLate .. TrustTime]
  /\ age \in [Deliveries -> 0 .. MaxHandOver]
  /\ givenUp \in [Deliveries -> BOOLEAN] /\ sent \in [Deliveries -> BOOLEAN]
  /\ result \in [Deliveries -> Results \cup {"none"}]
  /\ verdict \in [Deliveries -> Results \cup {"none"}]
  /\ call \in [Calls -> [of : 0 .. Last, at : {"none", "sent", "granted", "refused"},
                         age : 0 .. MaxAge]]

\* Two engines never run the job at once: the lock of a delivery outlives its engine,
\* however late the answers to its renewals arrive and whichever are lost, so the job is
\* handed out again only after its engine is dead.
OneEngine ==
  \A d, e \in Deliveries : EngineAlive(d) /\ EngineAlive(e) => d = e

\* Steps run twice only if the first engine's worker was lost, or gave the job up: never
\* because a failure was reported. It is what operationSent decides.
RunAgainOnlyIfLost ==
  \A d, e \in Deliveries : d < e /\ sent[d] /\ sent[e] => verdict[d] = "none"
=============================================================================
