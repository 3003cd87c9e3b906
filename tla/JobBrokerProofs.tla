-------------------------- MODULE JobBrokerProofs --------------------------
(***************************************************************************)
(* Proofs about JobBroker: type correctness, the bound of the concurrency  *)
(* pool, and that the project's limit holds for the runs executed under a  *)
(* lease.                                                                  *)
(***************************************************************************)
EXTENDS JobBroker, FiniteSetTheorems, TLAPS

\* A lock key exists only while the job is active.
LockInv == \A j \in Jobs : lock[j] # None => state[j] = "active"

\* A job that is not finished has an attempt left.
AttemptsInv == \A j \in Jobs : state[j] \in Finished \/ attempts[j] < MaxAttempts

\* A delivery that is not over is one of a job, and only a reported one has calls.
CallInv ==
  \A t \in Tokens :
    /\ Phase(t) # "over" => JobOf(t) \in Jobs
    /\ \A k \in Copies : call[t][k] # "none" => Phase(t) = "reported"

\* A release comes after the move that took the job out of active.
ReleaseInv ==
  \A t \in Tokens : Releasing(t) => state[JobOf(t)] \in {"delayed", "completed", "failed"}

\* A delivery that was let in and holds its job has a slot whose score is young.
SlotInv == \A t \in Tokens : Admitted(t) /\ JobOf(t) \in Limited => slot[JobOf(t)] = "held"

Base == TypeOK /\ LockInv /\ AttemptsInv /\ CallInv

(* The faults that the pool does not survive do not happen: releases beat  *)
(* delays, locks can be read, no score is outlived.                        *)
PromptRelease == ReleaseBeatsDelay /\ MaxUnread = 0 /\ MaxStaleScores = 0

\* The base invariant holds at the start.
LEMMA BaseInit == Init => Base
<1> SUFFICES ASSUME Init PROVE Base
  OBVIOUS
<1> USE BrokerAssumption DEF Init
<1>1. TypeOK
  BY DEF TypeOK, States, Deliveries, Over, Phases, Results, Copies, CallPhases, Faults
<1>2. LockInv /\ AttemptsInv /\ CallInv
  BY DEF LockInv, AttemptsInv, CallInv, Phase, JobOf, Over
<1> QED BY <1>1, <1>2 DEF Base

\* Putting a job somewhere and dropping its lock keeps what ties locks to states.
LEMMA Moved ==
  ASSUME Base, NEW j \in Jobs, NEW s \in {"delayed", "completed", "failed"}, MoveTo(j, s)
  PROVE  /\ state' \in [Jobs -> States] /\ lock' \in [Jobs -> Tokens \union {None}]
         /\ LockInv'
BY DEF Base, TypeOK, States, LockInv, MoveTo, Unlock

\* The states and locks stay as they are, or one job is moved.
LEMMA MaybeMoved ==
  ASSUME Base, NEW j \in Jobs, NEW s \in {"delayed", "completed", "failed"},
         MoveTo(j, s) \/ UNCHANGED <<state, lock>>, UNCHANGED attempts,
         s = "delayed" => (MoveTo(j, s) => lock[j] # None)
  PROVE  /\ state' \in [Jobs -> States] /\ lock' \in [Jobs -> Tokens \union {None}]
         /\ LockInv' /\ AttemptsInv'
<1>1. CASE UNCHANGED <<state, lock>>
  BY <1>1 DEF Base, TypeOK, LockInv, AttemptsInv
<1>2. CASE MoveTo(j, s)
  <2>1. AttemptsInv'
    <3>1. s = "delayed" => state[j] = "active"
      BY <1>2 DEF Base, LockInv
    <3>2. ASSUME NEW k \in Jobs PROVE state'[k] \in Finished \/ attempts'[k] < MaxAttempts
      BY <1>2, <3>1 DEF Base, TypeOK, AttemptsInv, MoveTo, Finished
    <3> QED BY <3>2 DEF AttemptsInv
  <2> QED BY <1>2, <2>1, Moved
<1> QED BY <1>1, <1>2

\* A delivery may go on, or end, as long as its calls allow it.
LEMMA Went ==
  ASSUME Base, NEW t \in Tokens, Phase(t) # "over", Phase(t) # "reported",
         NEW p \in Phases, Goto(t, p) \/ End(t), UNCHANGED call
  PROVE  delivery' \in [Tokens -> Deliveries] /\ CallInv'
<1>1. JobOf(t) \in Jobs
  BY DEF Base, CallInv
<1>2. \A k \in Copies : call[t][k] = "none"
  BY DEF Base, CallInv
<1>3. delivery' \in [Tokens -> Deliveries]
  <2>1. CASE Goto(t, p)
    <3>1. delivery[t] \in Deliveries /\ [delivery[t] EXCEPT !.phase = p] \in Deliveries
      BY DEF Base, TypeOK, Deliveries
    <3> QED BY <2>1, <3>1 DEF Base, TypeOK, Goto
  <2>2. CASE End(t)
    BY <2>2 DEF Base, TypeOK, End, Over, Deliveries, Phases, Results
  <2> QED BY <2>1, <2>2
<1>4. ASSUME NEW u \in Tokens
      PROVE  /\ Phase(u)' # "over" => JobOf(u)' \in Jobs
             /\ \A k \in Copies : call'[u][k] # "none" => Phase(u)' = "reported"
  <2> delivery \in [Tokens -> Deliveries]
    BY DEF Base, TypeOK
  <2>1. CASE u = t
    <3>1. \A k \in Copies : call'[u][k] = "none"
      BY <1>2, <2>1
    <3>2. CASE Goto(t, p)
      <4>1. JobOf(u)' = JobOf(t)
        BY <2>1, <3>2 DEF Goto, JobOf, Deliveries
      <4> QED BY <1>1, <3>1, <4>1
    <3>3. CASE End(t)
      <4>1. Phase(u)' = "over"
        BY <2>1, <3>3 DEF End, Over, Phase
      <4> QED BY <3>1, <4>1
    <3> QED BY <3>2, <3>3
  <2>2. CASE u # t
    BY <2>2 DEF Base, TypeOK, CallInv, Goto, End, Phase, JobOf
  <2> QED BY <2>1, <2>2
<1> QED BY <1>3, <1>4 DEF CallInv

\* A call may move on while its delivery stays reported.
LEMMA Called ==
  ASSUME Base, NEW t \in Tokens, NEW k \in Copies, NEW p \in CallPhases,
         Phase(t) = "reported", Call(t, k, p), UNCHANGED delivery
  PROVE  call' \in [Tokens -> [Copies -> CallPhases]] /\ CallInv'
BY DEF Base, TypeOK, CallInv, Call, Phase, JobOf

\* The last answer ends the delivery.
LEMMA Answered ==
  ASSUME Base, NEW t \in Tokens, NEW k \in Copies, Phase(t) = "reported", Answer(t, k)
  PROVE  /\ call' \in [Tokens -> [Copies -> CallPhases]]
         /\ delivery' \in [Tokens -> Deliveries] /\ CallInv'
<1>1. Call(t, k, "none")
  BY DEF Answer
<1>2. CASE UNCHANGED delivery
  BY <1>1, <1>2, Called DEF CallPhases, Base, TypeOK
<1>3. CASE End(t) /\ ~(\E c \in Copies \ {k} : call[t][c] # "none")
  <2>1. \A c \in Copies : call'[t][c] = "none"
    BY <1>1, <1>3 DEF Base, TypeOK, Call
  <2>2. call' \in [Tokens -> [Copies -> CallPhases]]
    BY <1>1 DEF Base, TypeOK, Call, CallPhases
  <2>3. delivery' \in [Tokens -> Deliveries]
    BY <1>3 DEF Base, TypeOK, End, Over, Deliveries, Phases, Results
  <2>4. CallInv'
    BY <1>1, <1>3, <2>1 DEF Base, TypeOK, CallInv, Call, End, Over, Phase, JobOf
  <2> QED BY <2>2, <2>3, <2>4
<1> QED BY <1>2, <1>3 DEF Answer

\* Slots of the pool keep their type whatever is pruned, taken or released.
LEMMA Pools ==
  ASSUME Base, NEW j \in Jobs
  PROVE  /\ Fresh \in [Jobs -> {"none", "held", "aged"}]
         /\ [Fresh EXCEPT ![j] = "held"] \in [Jobs -> {"none", "held", "aged"}]
         /\ [slot EXCEPT ![j] = "none"] \in [Jobs -> {"none", "held", "aged"}]
BY DEF Base, TypeOK, Fresh

\* A fault is counted.
LEMMA Counted ==
  ASSUME Base, NEW f \in Faults, Fault(f)
  PROVE  faults' \in [Faults -> Nat]
BY DEF Base, TypeOK, Fault

\* Every step keeps the base invariant.
LEMMA BaseNext == Base /\ [Next]_vars => Base'
<1> SUFFICES ASSUME Base, [Next]_vars PROVE Base'
  OBVIOUS
<1> USE BrokerAssumption
<1>1. ASSUME NEW j \in Jobs, NEW t \in Tokens, Take(j, t) PROVE Base'
  <2>1. delivery' \in [Tokens -> Deliveries]
    BY <1>1 DEF Base, TypeOK, Take, Deliveries, Phases, Results
  <2>2. TypeOK'
    BY <1>1, <2>1 DEF Base, TypeOK, Take, States, Counters
  <2>3. LockInv' /\ AttemptsInv'
    BY <1>1 DEF Base, TypeOK, LockInv, AttemptsInv, Take, States, Counters, Finished
  <2>4. CallInv'
    BY <1>1 DEF Base, TypeOK, CallInv, Take, Free, Phase, JobOf
  <2> QED BY <2>2, <2>3, <2>4 DEF Base
<1>2. ASSUME NEW t \in Tokens, FailDoomed(t) \/ Discard(t) \/ Postpone(t) PROVE Base'
  <2>1. JobOf(t) \in Jobs /\ Phase(t) \notin {"over", "reported"} /\ End(t)
    BY <1>2 DEF Base, CallInv, FailDoomed, Discard, Postpone
  <2>2. PICK s \in {"delayed", "completed", "failed"} :
          IF Holds(t) THEN MoveTo(JobOf(t), s) ELSE UNCHANGED <<state, lock>>
    BY <1>2 DEF FailDoomed, Discard, Postpone
  <2>3. UNCHANGED <<Counters, slot, call, answered, faults>>
    BY <1>2 DEF FailDoomed, Discard, Postpone
  <2>4. /\ state' \in [Jobs -> States] /\ lock' \in [Jobs -> Tokens \union {None}]
        /\ LockInv' /\ AttemptsInv'
    <3>1. CASE Holds(t)
      <4>1. lock[JobOf(t)] # None
        BY <3>1 DEF Holds
      <4> QED BY <2>1, <2>2, <2>3, <3>1, <4>1, MaybeMoved DEF Counters
    <3>2. CASE ~Holds(t)
      BY <2>2, <2>3, <3>2 DEF Base, TypeOK, LockInv, AttemptsInv, Counters
    <3> QED BY <3>1, <3>2
  <2>5. delivery' \in [Tokens -> Deliveries] /\ CallInv'
    BY <2>1, <2>3, Went DEF Phases
  <2>6. TypeOK'
    BY <2>3, <2>4, <2>5 DEF Base, TypeOK, Counters
  <2> QED BY <2>4, <2>5, <2>6 DEF Base
<1>3. ASSUME NEW t \in Tokens, Admit(t) PROVE Base'
  <2>1. JobOf(t) \in Jobs /\ Phase(t) \notin {"over", "reported"}
    BY <1>3 DEF Base, CallInv, Admit
  <2>2. slot' \in [Jobs -> {"none", "held", "aged"}]
    BY <1>3, <2>1, Pools DEF Admit
  <2>3. Goto(t, "ready") \/ Goto(t, "refused")
    BY <1>3 DEF Admit
  <2>4. UNCHANGED <<state, lock, Counters, call, answered, faults>>
    BY <1>3 DEF Admit
  <2>5. delivery' \in [Tokens -> Deliveries] /\ CallInv'
    BY <2>1, <2>3, <2>4, Went DEF Phases
  <2> QED BY <2>2, <2>4, <2>5 DEF Base, TypeOK, LockInv, AttemptsInv, Counters
<1>4. ASSUME NEW t \in Tokens, Allow(t) \/ HandOver(t) PROVE Base'
  <2>1. Phase(t) \notin {"over", "reported"} /\ (Goto(t, "ready") \/ Goto(t, "running"))
    BY <1>4 DEF Allow, HandOver
  <2>2. UNCHANGED <<state, lock, Counters, slot, call, answered, faults>>
    BY <1>4 DEF Allow, HandOver
  <2>3. delivery' \in [Tokens -> Deliveries] /\ CallInv'
    BY <2>1, <2>2, Went DEF Phases
  <2> QED BY <2>2, <2>3 DEF Base, TypeOK, LockInv, AttemptsInv, Counters
<1>5. ASSUME NEW t \in Tokens, Return(t) PROVE Base'
  <2>1. JobOf(t) \in Jobs /\ Phase(t) \notin {"over", "reported"}
    BY <1>5 DEF Base, CallInv, Return
  <2>2. UNCHANGED <<Counters, slot, call, answered, faults>> /\ (Goto(t, "returned") \/ End(t))
    BY <1>5 DEF Return
  <2>3. /\ state' \in [Jobs -> States] /\ lock' \in [Jobs -> Tokens \union {None}]
        /\ LockInv' /\ AttemptsInv'
    <3>1. CASE Holds(t)
      <4>1. lock[JobOf(t)] # None /\ MoveTo(JobOf(t), "delayed")
        BY <1>5, <3>1 DEF Holds, Return
      <4> QED BY <2>1, <2>2, <4>1, MaybeMoved DEF Counters
    <3>2. CASE ~Holds(t)
      BY <1>5, <2>2, <3>2 DEF Return, Base, TypeOK, LockInv, AttemptsInv, Counters
    <3> QED BY <3>1, <3>2
  <2>4. delivery' \in [Tokens -> Deliveries] /\ CallInv'
    BY <2>1, <2>2, Went DEF Phases
  <2>5. TypeOK'
    BY <2>2, <2>3, <2>4 DEF Base, TypeOK, Counters
  <2> QED BY <2>3, <2>4, <2>5 DEF Base
<1>6. ASSUME NEW t \in Tokens, ReleaseReturned(t) \/ GiveUp(t) \/ Lose(t) PROVE Base'
  <2>1. /\ JobOf(t) \in Jobs /\ Phase(t) \notin {"over", "reported"} /\ End(t)
        /\ UNCHANGED <<state, lock, Counters, call, answered>>
    BY <1>6 DEF Base, CallInv, ReleaseReturned, GiveUp, Lose
  <2>2. slot' \in [Jobs -> {"none", "held", "aged"}]
    BY <1>6, <2>1, Pools DEF ReleaseReturned, ReleaseSlot, GiveUp, Lose, Base, TypeOK
  <2>3. faults' \in [Faults -> Nat]
    BY <1>6, Counted DEF ReleaseReturned, GiveUp, Lose, Base, TypeOK, Faults
  <2>4. delivery' \in [Tokens -> Deliveries] /\ CallInv'
    BY <2>1, Went DEF Phases
  <2> QED BY <2>1, <2>2, <2>3, <2>4 DEF Base, TypeOK, LockInv, AttemptsInv, Counters
<1>7. ASSUME NEW t \in Tokens, NEW r \in Results, Report(t, r) PROVE Base'
  <2>1. delivery[t] \in Deliveries /\ JobOf(t) \in Jobs
    BY <1>7 DEF Base, TypeOK, CallInv, Report
  <2>2. [delivery[t] EXCEPT !.phase = "reported", !.result = r] \in Deliveries
    BY <2>1 DEF Deliveries, Phases
  <2>3. delivery' \in [Tokens -> Deliveries]
    BY <1>7, <2>2 DEF Base, TypeOK, Report
  <2>4. call' \in [Tokens -> [Copies -> CallPhases]]
    BY <1>7 DEF Base, TypeOK, Report, Copies, CallPhases
  <2>5. CallInv'
    BY <1>7, <2>1 DEF Base, TypeOK, CallInv, Report, Phase, JobOf, Deliveries
  <2> QED BY <1>7, <2>3, <2>4, <2>5 DEF Base, TypeOK, LockInv, AttemptsInv, Report, Counters
<1>8. ASSUME NEW t \in Tokens, Resend(t) PROVE Base'
  <2>1. Call(t, 2, "sent") /\ Phase(t) = "reported"
    BY <1>8 DEF Resend, Call
  <2>2. call' \in [Tokens -> [Copies -> CallPhases]] /\ CallInv'
    BY <1>8, <2>1, Called DEF Resend, Copies, CallPhases
  <2> QED BY <1>8, <2>2 DEF Base, TypeOK, LockInv, AttemptsInv, Resend, Counters
<1>9. ASSUME NEW t \in Tokens, NEW k \in Copies,
             CheckLease(t, k) \/ Release(t, k) \/ LoseCall(t, k) PROVE Base'
  <2>1. Phase(t) = "reported" /\ JobOf(t) \in Jobs
    BY <1>9 DEF Base, CallInv, CheckLease, Release, LoseCall
  <2>2. /\ call' \in [Tokens -> [Copies -> CallPhases]]
        /\ delivery' \in [Tokens -> Deliveries] /\ CallInv'
    <3>1. CASE Answer(t, k)
      BY <2>1, <3>1, Answered
    <3>2. CASE Call(t, k, "checked") /\ UNCHANGED delivery
      BY <2>1, <3>2, Called DEF CallPhases, Base, TypeOK
    <3> QED BY <1>9, <3>1, <3>2 DEF CheckLease, Release, LoseCall
  <2>3. slot' \in [Jobs -> {"none", "held", "aged"}]
    BY <1>9, <2>1, Pools DEF CheckLease, Release, ReleaseSlot, LoseCall, Base, TypeOK
  <2>4. faults' \in [Faults -> Nat]
    BY <1>9, Counted DEF CheckLease, Release, LoseCall, Base, TypeOK, Faults
  <2>5. UNCHANGED <<state, lock, Counters, answered>>
    BY <1>9 DEF CheckLease, Release, LoseCall
  <2> QED BY <2>2, <2>3, <2>4, <2>5 DEF Base, TypeOK, LockInv, AttemptsInv, Counters
<1>10. ASSUME NEW t \in Tokens, NEW k \in Copies, Finish(t, k) PROVE Base'
  <2>1. Phase(t) = "reported" /\ JobOf(t) \in Jobs
    BY <1>10 DEF Base, CallInv, Finish
  <2>2. CASE ~Holds(t)
    <3>1. Answer(t, k) /\ UNCHANGED <<state, lock, attempts, answered, stalls, slot, faults>>
      BY <1>10, <2>2 DEF Finish
    <3> QED BY <2>1, <3>1, Answered DEF Base, TypeOK, LockInv, AttemptsInv
  <2>3. CASE Holds(t)
    <3> DEFINE s == IF Retries(t) THEN "delayed" ELSE FinalState(t)
    <3>1. /\ MoveTo(JobOf(t), s) /\ attempts' = [attempts EXCEPT ![JobOf(t)] = @ + 1]
          /\ Call(t, k, "release") /\ Publish(t) /\ UNCHANGED <<delivery, stalls, slot, faults>>
      BY <1>10, <2>3 DEF Finish
    <3>2. s \in {"delayed", "completed", "failed"}
      BY DEF FinalState
    <3>3. attempts[JobOf(t)] \in Nat /\ attempts[JobOf(t)] < MaxAttempts
      <4>1. state[JobOf(t)] = "active"
        BY <2>1, <2>3 DEF Base, LockInv, Holds
      <4> QED BY <2>1, <4>1 DEF Base, TypeOK, AttemptsInv, Finished
    <3>4. attempts' \in [Jobs -> 0 .. MaxAttempts]
      BY <2>1, <3>1, <3>3 DEF Base, TypeOK
    <3>5. AttemptsInv'
      <4>1. s = "delayed" => attempts[JobOf(t)] + 1 < MaxAttempts
        <5>1. s = "delayed" => Retries(t)
          BY DEF FinalState
        <5> QED BY <3>3, <5>1 DEF Retries, AttemptsOf
      <4>2. ASSUME NEW j \in Jobs, j # JobOf(t)
            PROVE  state'[j] \in Finished \/ attempts'[j] < MaxAttempts
        BY <2>1, <3>1, <4>2 DEF Base, TypeOK, AttemptsInv, MoveTo
      <4>3. state'[JobOf(t)] = s /\ attempts'[JobOf(t)] = attempts[JobOf(t)] + 1
        BY <2>1, <3>1 DEF Base, TypeOK, MoveTo
      <4> QED BY <3>2, <4>1, <4>2, <4>3 DEF AttemptsInv, Finished
    <3>6. /\ state' \in [Jobs -> States] /\ lock' \in [Jobs -> Tokens \union {None}]
          /\ LockInv'
      BY <2>1, <3>1, <3>2, Moved
    <3>7. call' \in [Tokens -> [Copies -> CallPhases]] /\ CallInv'
      BY <2>1, <3>1, Called DEF CallPhases
    <3>8. answered' \in SUBSET Tokens
      BY <3>1 DEF Publish, Base, TypeOK
    <3> QED BY <3>1, <3>4, <3>5, <3>6, <3>7, <3>8 DEF Base, TypeOK
  <2> QED BY <2>2, <2>3
<1>11. ASSUME NEW t \in Tokens, NEW k \in Copies, FailToFinish(t, k) PROVE Base'
  <2>1. Phase(t) = "reported"
    BY <1>11 DEF Base, CallInv, FailToFinish
  <2>2. call' \in [Tokens -> [Copies -> CallPhases]] /\ CallInv'
    BY <1>11, <2>1, Called DEF FailToFinish, CallPhases
  <2>3. faults' \in [Faults -> Nat]
    BY <1>11, Counted DEF FailToFinish, Faults
  <2>4. answered' \in SUBSET Tokens
    BY <1>11 DEF FailToFinish, Publish, Base, TypeOK
  <2> QED BY <1>11, <2>2, <2>3, <2>4 DEF FailToFinish, Base, TypeOK, LockInv, AttemptsInv, Counters
<1>12. ASSUME NEW j \in Jobs,
              Promote(j) \/ ExpireDead(j) \/ ExpireLive(j) \/ ScanStalled(j) \/ AgeSlot(j)
       PROVE  Base'
  <2>1. /\ UNCHANGED <<attempts, delivery, call, answered>>
        /\ state' = state \/ (state[j] # "completed" /\ state[j] # "failed" /\ lock' = lock
                                /\ state' = [state EXCEPT ![j] = "waiting"])
        /\ lock' = lock \/ (state' = state /\ lock' = [lock EXCEPT ![j] = None])
    BY <1>12 DEF Promote, ExpireDead, ExpireLive, ScanStalled, AgeSlot, Unlock, Counters
  <2>2. state' = [state EXCEPT ![j] = "waiting"] => lock[j] = None \/ state[j] = "waiting"
    BY <1>12 DEF Promote, ExpireDead, ExpireLive, ScanStalled, AgeSlot, Unlock, Base, TypeOK, LockInv
  <2>3. slot' \in [Jobs -> {"none", "held", "aged"}]
    BY <1>12 DEF Promote, ExpireDead, ExpireLive, ScanStalled, AgeSlot, Base, TypeOK
  <2>4. stalls' \in [Jobs -> Nat]
    BY <1>12 DEF Promote, ExpireDead, ExpireLive, ScanStalled, AgeSlot, Counters, Base, TypeOK
  <2>5. faults' \in [Faults -> Nat]
    BY <1>12, Counted DEF Promote, ExpireDead, ExpireLive, ScanStalled, AgeSlot, Base, TypeOK, Faults
  <2>6. state' \in [Jobs -> States] /\ lock' \in [Jobs -> Tokens \union {None}]
    BY <2>1 DEF Base, TypeOK, States
  <2>7. LockInv'
    BY <2>1, <2>2 DEF Base, TypeOK, LockInv
  <2>8. AttemptsInv'
    BY <2>1 DEF Base, TypeOK, AttemptsInv, Finished
  <2>9. TypeOK' /\ CallInv'
    BY <2>1, <2>3, <2>4, <2>5, <2>6 DEF Base, TypeOK, CallInv, Phase, JobOf
  <2> QED BY <2>7, <2>8, <2>9 DEF Base
<1>13. CASE UNCHANGED vars
  BY <1>13 DEF vars, Base, TypeOK, LockInv, AttemptsInv, CallInv, Phase, JobOf
<1> QED
  BY <1>1, <1>2, <1>3, <1>4, <1>5, <1>6, <1>7, <1>8, <1>9, <1>10, <1>11, <1>12, <1>13
  DEF Next, TakeJob, Dequeue, Hand, Work, Complete

\* The base invariant is an invariant.
LEMMA BaseInvariant == Spec => []Base
BY BaseInit, BaseNext, PTL DEF Spec

(* For every number of jobs, tokens and faults the broker's variables keep *)
(* their types.                                                            *)
THEOREM TypeCorrect == Spec => []TypeOK
<1>1. Base => TypeOK
  BY DEF Base
<1> QED BY <1>1, BaseInvariant, PTL

\* -------------------------------------------------------------- the pool

\* The pool is finite, and smaller pools have fewer members.
LEMMA PoolsAreFinite ==
  ASSUME NEW pool
  PROVE  IsFiniteSet(Members(pool)) /\ Cardinality(Members(pool)) \in Nat
BY BrokerAssumption, FS_Subset, FS_CardinalityType DEF Members

\* Every step keeps the pool within the limit.
LEMMA PoolNext == Base /\ PoolBound /\ [Next]_vars => PoolBound'
<1> SUFFICES ASSUME Base, PoolBound, [Next]_vars PROVE PoolBound'
  OBVIOUS
<1>1. ASSUME Members(slot') \subseteq Members(slot) PROVE PoolBound'
  <2>1. Cardinality(Members(slot')) <= Cardinality(Members(slot))
    BY <1>1, PoolsAreFinite, FS_Subset
  <2>2. Members(slot)' = Members(slot')
    BY DEF Members
  <2> QED BY <2>1, <2>2, PoolsAreFinite, BrokerAssumption DEF PoolBound
<1>2. ASSUME NEW t \in Tokens, Admit(t) PROVE PoolBound'
  <2> DEFINE j == JobOf(t)
  <2>1. j \in Jobs
    BY <1>2 DEF Base, CallInv, Admit
  <2>2. Members(Fresh) \subseteq Members(slot)
    BY DEF Members, Fresh
  <2>3. CASE HasRoom(j) /\ Fresh[j] = "none"
    <3>1. slot' = [Fresh EXCEPT ![j] = "held"]
      BY <1>2, <2>3 DEF Admit
    <3>2. Members(slot)' = Members(Fresh) \union {j} /\ j \notin Members(Fresh)
      BY <2>1, <2>3, <3>1 DEF Members, Fresh
    <3>3. Cardinality(Members(Fresh) \union {j}) = Cardinality(Members(Fresh)) + 1
      BY <3>2, PoolsAreFinite, FS_AddElement
    <3>4. Cardinality(Members(Fresh)) < Limit
      BY <2>3 DEF HasRoom
    <3> QED BY <3>2, <3>3, <3>4, PoolsAreFinite, BrokerAssumption DEF PoolBound
  <2>4. CASE HasRoom(j) /\ Fresh[j] # "none"
    <3>1. Members(slot') = Members(Fresh)
      BY <1>2, <2>1, <2>4 DEF Admit, Members, Fresh
    <3> QED BY <1>1, <2>2, <3>1
  <2>5. CASE ~HasRoom(j)
    BY <1>1, <1>2, <2>2, <2>5 DEF Admit
  <2> QED BY <2>3, <2>4, <2>5
<1>3. ASSUME NEW t \in Tokens, ReleaseReturned(t) PROVE PoolBound'
  <2>1. Members(slot') \subseteq Members(slot)
    BY <1>3 DEF ReleaseReturned, ReleaseSlot, Members, Base, TypeOK
  <2> QED BY <1>1, <2>1
<1>4. ASSUME NEW t \in Tokens, NEW k \in Copies, Release(t, k) PROVE PoolBound'
  <2>1. Members(slot') \subseteq Members(slot)
    BY <1>4 DEF Release, ReleaseSlot, Members, Base, TypeOK
  <2> QED BY <1>1, <2>1
<1>5. ASSUME NEW j \in Jobs, AgeSlot(j) PROVE PoolBound'
  <2>1. Members(slot') \subseteq Members(slot)
    BY <1>5 DEF AgeSlot, Members, Base, TypeOK
  <2> QED BY <1>1, <2>1
<1>6. CASE UNCHANGED slot
  BY <1>1, <1>6
<1>7. ASSUME NEW j \in Jobs,
             TakeJob(j) \/ Promote(j) \/ ExpireDead(j) \/ ExpireLive(j) \/ ScanStalled(j)
      PROVE  UNCHANGED slot
  BY <1>7 DEF TakeJob, Take, Promote, ExpireDead, ExpireLive, ScanStalled
<1>8. ASSUME NEW t \in Tokens,
             FailDoomed(t) \/ Allow(t) \/ Discard(t) \/ Postpone(t) \/ Hand(t) \/ Work(t)
               \/ Resend(t) \/ Lose(t)
      PROVE  UNCHANGED slot
  BY <1>8 DEF FailDoomed, Allow, Discard, Postpone, Hand, HandOver, Return, Work, Report,
              GiveUp, Resend, Lose
<1>9. ASSUME NEW t \in Tokens, NEW k \in Copies,
             CheckLease(t, k) \/ Finish(t, k) \/ FailToFinish(t, k) \/ LoseCall(t, k)
      PROVE  UNCHANGED slot
  BY <1>9 DEF CheckLease, Finish, FailToFinish, LoseCall
<1>10. UNCHANGED vars => UNCHANGED slot
  BY DEF vars
<1> QED
  BY <1>2, <1>3, <1>4, <1>5, <1>6, <1>7, <1>8, <1>9, <1>10 DEF Next, Dequeue, Complete

(* For every limit and any number of jobs and deliveries: the pool never   *)
(* has more members than the limit, leaked and aged slots included.        *)
THEOREM PoolNeverOverfull == Spec => []PoolBound
<1>1. Init => PoolBound
  <2> SUFFICES ASSUME Init PROVE PoolBound
    OBVIOUS
  <2>1. Members(slot) = {}
    BY DEF Init, Members
  <2> QED BY <2>1, FS_EmptySet, BrokerAssumption DEF PoolBound
<1>2. Base /\ PoolBound /\ [Next]_vars => PoolBound'
  BY PoolNext
<1> QED BY <1>1, <1>2, BaseInvariant, PTL DEF Spec

\* --------------------------------------------------- slots of running jobs

\* Nobody holds a job whose slot is about to be released.
LEMMA NoHolderWhileReleasing ==
  ASSUME Base, ReleaseInv, NEW t \in Tokens, NEW u \in Tokens, Releasing(t),
         JobOf(t) \in Jobs, JobOf(u) = JobOf(t)
  PROVE  ~Holds(u)
<1>1. state[JobOf(t)] # "active"
  BY DEF ReleaseInv
<1>2. lock[JobOf(t)] = None
  BY <1>1 DEF Base, LockInv
<1> QED BY <1>2, BrokerAssumption DEF Holds

\* An answer starts no release.
LEMMA AnswerReleasesNothing ==
  ASSUME Base, NEW t \in Tokens, NEW k \in Copies, Phase(t) = "reported", Answer(t, k),
         NEW u \in Tokens, Releasing(u)'
  PROVE  Releasing(u) /\ JobOf(u)' = JobOf(u)
<1>1. Call(t, k, "none") /\ (UNCHANGED delivery \/ End(t))
  BY DEF Answer
<1>2. CASE u # t
  BY <1>1, <1>2 DEF Call, End, Releasing, Phase, JobOf, Base, TypeOK
<1>3. CASE u = t /\ UNCHANGED delivery
  BY <1>1, <1>3 DEF Call, Releasing, Phase, JobOf, Base, TypeOK
<1>4. CASE u = t /\ End(t) /\ ~(UNCHANGED delivery)
  <2>1. \A c \in Copies \ {k} : call[t][c] = "none"
    BY <1>4 DEF Answer
  <2>2. \A c \in Copies : call'[t][c] = "none"
    BY <1>1, <2>1 DEF Call, Base, TypeOK
  <2>3. Phase(t)' = "over"
    BY <1>4 DEF End, Over, Phase, Base, TypeOK
  <2> QED BY <1>4, <2>2, <2>3 DEF Releasing
<1> QED BY <1>1, <1>2, <1>3, <1>4

\* While releases beat delays a release only ever meets a job out of reach.
LEMMA ReleaseNext ==
  ASSUME PromptRelease
  PROVE  Base /\ ReleaseInv /\ [Next]_vars => ReleaseInv'
<1> SUFFICES ASSUME Base, ReleaseInv, [Next]_vars PROVE ReleaseInv'
  OBVIOUS
<1> DEFINE Out == {"delayed", "completed", "failed"}
<1> USE BrokerAssumption
<1>1. ASSUME \A u \in Tokens : Releasing(u)' =>
               \/ Releasing(u) /\ JobOf(u)' = JobOf(u) /\ JobOf(u) \in Jobs
               \/ state'[JobOf(u)'] \in Out,
             \A j \in Jobs : state[j] \in Out => state'[j] \in Out \/ ~ReleasePending(j)
      PROVE  ReleaseInv'
  BY <1>1 DEF ReleaseInv, ReleasePending
<1>2. ASSUME NEW u \in Tokens, Releasing(u) PROVE JobOf(u) \in Jobs
  BY <1>2 DEF Releasing, Base, CallInv
<1>3. ASSUME NEW j \in Jobs, NEW t \in Tokens, Take(j, t) PROVE ReleaseInv'
  <2>1. ASSUME NEW u \in Tokens, Releasing(u)'
        PROVE  Releasing(u) /\ JobOf(u)' = JobOf(u)
    BY <1>3, <2>1 DEF Take, Free, Releasing, Phase, JobOf, Base, TypeOK, CallInv
  <2>2. \A k \in Jobs : state[k] \in Out => state'[k] \in Out
    BY <1>3 DEF Take, Base, TypeOK
  <2> QED BY <1>1, <1>2, <2>1, <2>2
<1>4. ASSUME NEW t \in Tokens,
             FailDoomed(t) \/ Discard(t) \/ Postpone(t) \/ Allow(t) \/ HandOver(t)
               \/ Admit(t) \/ GiveUp(t) \/ Lose(t) \/ ReleaseReturned(t)
      PROVE  ReleaseInv'
  <2>1. \A u \in Tokens \ {t} : Releasing(u)' => Releasing(u) /\ JobOf(u)' = JobOf(u)
    BY <1>4 DEF FailDoomed, Discard, Postpone, Allow, HandOver, Admit, GiveUp, Lose,
                ReleaseReturned, Goto, End, Releasing, Phase, JobOf, Base, TypeOK
  <2>2. ~Releasing(t)'
    <3>1. \A k \in Copies : call'[t][k] = "none"
      BY <1>4 DEF FailDoomed, Discard, Postpone, Allow, HandOver, Admit, GiveUp, Lose,
                  ReleaseReturned, Base, CallInv
    <3>2. Phase(t)' # "returned"
      BY <1>4 DEF FailDoomed, Discard, Postpone, Allow, HandOver, Admit, GiveUp, Lose,
                  ReleaseReturned, Goto, End, Over, Phase, Base, TypeOK, Deliveries
    <3> QED BY <3>1, <3>2 DEF Releasing
  <2>3. \A k \in Jobs : state[k] \in Out => state'[k] \in Out
    BY <1>4 DEF FailDoomed, Discard, Postpone, Allow, HandOver, Admit, GiveUp, Lose,
                ReleaseReturned, MoveTo, Base, TypeOK
  <2> QED BY <1>1, <1>2, <2>1, <2>2, <2>3
<1>5. ASSUME NEW t \in Tokens, Return(t) PROVE ReleaseInv'
  <2>1. \A u \in Tokens \ {t} : Releasing(u)' => Releasing(u) /\ JobOf(u)' = JobOf(u)
    BY <1>5 DEF Return, Goto, End, Releasing, Phase, JobOf, Base, TypeOK
  <2>2. Releasing(t)' => state'[JobOf(t)'] \in Out
    <3>1. JobOf(t) \in Jobs /\ \A k \in Copies : call'[t][k] = "none"
      BY <1>5 DEF Return, Base, CallInv
    <3>2. CASE Holds(t)
      BY <1>5, <3>1, <3>2, SMTT(30) DEF Return, Goto, MoveTo, JobOf, Base, TypeOK, Deliveries
    <3>3. CASE ~Holds(t)
      BY <1>5, <3>1, <3>3 DEF Return, End, Over, Releasing, Phase, Base, TypeOK
    <3> QED BY <3>2, <3>3
  <2>3. \A k \in Jobs : state[k] \in Out => state'[k] \in Out
    BY <1>5 DEF Return, MoveTo, Base, TypeOK
  <2> QED BY <1>1, <1>2, <2>1, <2>2, <2>3
<1>6. ASSUME NEW t \in Tokens, (\E r \in Results : Report(t, r)) \/ Resend(t) PROVE ReleaseInv'
  <2>1. \A u \in Tokens : Releasing(u)' => Releasing(u) /\ JobOf(u)' = JobOf(u)
    BY <1>6 DEF Report, Resend, Releasing, Phase, JobOf, Copies, Base, TypeOK, Deliveries
  <2>2. UNCHANGED state
    BY <1>6 DEF Report, Resend
  <2> QED BY <1>1, <1>2, <2>1, <2>2
<1>7. ASSUME NEW t \in Tokens, NEW k \in Copies,
             CheckLease(t, k) \/ Release(t, k) \/ LoseCall(t, k)
      PROVE  ReleaseInv'
  <2>1. Phase(t) = "reported" /\ UNCHANGED state
    BY <1>7 DEF CheckLease, Release, LoseCall, Base, CallInv
  <2>2. (Call(t, k, "checked") /\ UNCHANGED delivery) \/ Answer(t, k)
    BY <1>7 DEF CheckLease, Release, LoseCall
  <2>3. \A u \in Tokens : Releasing(u)' => Releasing(u) /\ JobOf(u)' = JobOf(u)
    <3>1. CASE Answer(t, k)
      BY <2>1, <3>1, AnswerReleasesNothing
    <3>2. CASE Call(t, k, "checked") /\ UNCHANGED delivery
      BY <3>2 DEF Call, Releasing, Phase, JobOf, Base, TypeOK
    <3> QED BY <2>2, <3>1, <3>2
  <2> QED BY <1>1, <1>2, <2>1, <2>3
<1>8. ASSUME NEW t \in Tokens, NEW k \in Copies, Finish(t, k) PROVE ReleaseInv'
  <2>1. Phase(t) = "reported" /\ JobOf(t) \in Jobs
    BY <1>8 DEF Finish, Base, CallInv
  <2>2. \A j \in Jobs : state[j] \in Out => state'[j] \in Out
    BY <1>8 DEF Finish, MoveTo, FinalState, Base, TypeOK
  <2>3. CASE Holds(t)
    <3>1. state'[JobOf(t)] \in Out /\ Call(t, k, "release") /\ UNCHANGED delivery
      BY <1>8, <2>1, <2>3 DEF Finish, MoveTo, FinalState, Base, TypeOK
    <3>2. \A u \in Tokens \ {t} : Releasing(u)' => Releasing(u)
      BY <3>1 DEF Call, Releasing, Phase, Base, TypeOK
    <3> QED BY <1>1, <1>2, <2>2, <3>1, <3>2 DEF JobOf
  <2>4. CASE ~Holds(t)
    <3>1. Answer(t, k) /\ UNCHANGED state
      BY <1>8, <2>4 DEF Finish
    <3>2. \A u \in Tokens : Releasing(u)' => Releasing(u) /\ JobOf(u)' = JobOf(u)
      BY <2>1, <3>1, AnswerReleasesNothing
    <3> QED BY <1>1, <1>2, <3>1, <3>2
  <2> QED BY <2>3, <2>4
<1>9. ASSUME NEW t \in Tokens, NEW k \in Copies, FailToFinish(t, k) PROVE FALSE
  BY <1>9 DEF FailToFinish, Fault, Bound, PromptRelease, Base, TypeOK, Faults
<1>10. ASSUME NEW j \in Jobs, Promote(j) PROVE ReleaseInv'
  <2>1. ~ReleasePending(j) /\ UNCHANGED <<delivery, call>>
    BY <1>10 DEF Promote, PromptRelease
  <2>2. \A k \in Jobs : state[k] \in Out => state'[k] \in Out \/ ~ReleasePending(k)
    BY <1>10, <2>1 DEF Promote, Base, TypeOK
  <2> QED BY <1>1, <1>2, <2>1, <2>2 DEF Releasing, Phase, JobOf
<1>11. ASSUME NEW j \in Jobs,
              ExpireDead(j) \/ ExpireLive(j) \/ ScanStalled(j) \/ AgeSlot(j)
       PROVE  ReleaseInv'
  <2>1. UNCHANGED <<delivery, call>>
    BY <1>11 DEF ExpireDead, ExpireLive, ScanStalled, AgeSlot
  <2>2. \A k \in Jobs : state[k] \in Out => state'[k] \in Out
    BY <1>11 DEF ExpireDead, ExpireLive, ScanStalled, AgeSlot, Base, TypeOK
  <2> QED BY <1>1, <1>2, <2>1, <2>2 DEF Releasing, Phase, JobOf
<1>12. CASE UNCHANGED vars
  BY <1>12 DEF vars, ReleaseInv, Releasing, Phase, JobOf
<1> QED
  BY <1>3, <1>4, <1>5, <1>6, <1>7, <1>8, <1>9, <1>10, <1>11, <1>12
  DEF Next, TakeJob, Dequeue, Hand, Work, Complete

\* A delivery that goes on holding its job keeps its slot while others come and go.
LEMMA Undisturbed ==
  ASSUME Base, SlotInv, NEW u \in Tokens, Admitted(u)', JobOf(u)' \in Limited,
         Admitted(u) /\ JobOf(u)' = JobOf(u),
         slot[JobOf(u)] = "held" => slot'[JobOf(u)] = "held"
  PROVE  slot'[JobOf(u)'] = "held"
BY DEF SlotInv

\* Every step leaves each admitted delivery a young slot.
LEMMA SlotNext ==
  ASSUME PromptRelease
  PROVE  Base /\ ReleaseInv /\ SlotInv /\ [Next]_vars => SlotInv'
<1> SUFFICES ASSUME Base, ReleaseInv, SlotInv, [Next]_vars,
                    NEW u \in Tokens, Admitted(u)', JobOf(u)' \in Limited
             PROVE  slot'[JobOf(u)'] = "held"
  BY DEF SlotInv
<1> USE BrokerAssumption
<1>1. ASSUME UNCHANGED slot, Admitted(u), JobOf(u)' = JobOf(u)
      PROVE  slot'[JobOf(u)'] = "held"
  BY <1>1, Undisturbed
<1>2. ASSUME NEW j \in Jobs, lock' = lock \/ Unlock(j), UNCHANGED delivery
      PROVE  Admitted(u) /\ JobOf(u)' = JobOf(u)
  <2>1. Phase(u) \in {"ready", "running"} /\ JobOf(u)' = JobOf(u) /\ JobOf(u) \in Jobs
    BY <1>2 DEF Admitted, Phase, JobOf, Base, CallInv
  <2>2. lock'[JobOf(u)] = u
    BY <2>1 DEF Admitted, Holds
  <2>3. lock[JobOf(u)] = u
    BY <1>2, <2>1, <2>2 DEF Unlock, Base, TypeOK
  <2> QED BY <2>1, <2>3 DEF Admitted, Holds
<1>3. ASSUME NEW t \in Tokens, NEW j \in Jobs, lock' = lock \/ Unlock(j),
             NEW p \in {"refused", "returned"}, Goto(t, p) \/ End(t)
      PROVE  u # t /\ Admitted(u) /\ JobOf(u)' = JobOf(u)
  BY <1>3 DEF Unlock, Goto, End, Over, Admitted, Holds, Phase, JobOf, Base, TypeOK, Deliveries
<1>4. ASSUME NEW j \in Jobs, NEW t \in Tokens, Take(j, t) PROVE slot'[JobOf(u)'] = "held"
  <2>1. u # t
    BY <1>4 DEF Take, Admitted, Phase, Base, TypeOK
  <2>2. JobOf(u)' = JobOf(u) /\ Phase(u)' = Phase(u)
    BY <1>4, <2>1 DEF Take, JobOf, Phase, Base, TypeOK
  <2>3. Admitted(u)
    BY <1>4, <2>1, <2>2 DEF Take, Admitted, Holds, Base, TypeOK
  <2> QED BY <1>1, <1>4, <2>2, <2>3 DEF Take
<1>5. ASSUME NEW t \in Tokens, FailDoomed(t) \/ Discard(t) \/ Postpone(t) \/ Return(t)
      PROVE  slot'[JobOf(u)'] = "held"
  <2>1. JobOf(t) \in Jobs /\ UNCHANGED slot
    BY <1>5 DEF FailDoomed, Discard, Postpone, Return, Base, CallInv
  <2>2. (Goto(t, "returned") \/ End(t)) /\ (lock' = lock \/ Unlock(JobOf(t)))
    BY <1>5 DEF FailDoomed, Discard, Postpone, Return, MoveTo
  <2> QED BY <1>1, <1>3, <2>1, <2>2
<1>6. ASSUME NEW t \in Tokens, Admit(t) PROVE slot'[JobOf(u)'] = "held"
  <2>1. JobOf(t) \in Jobs /\ UNCHANGED lock
    BY <1>6 DEF Admit, Base, CallInv
  <2>2. CASE HasRoom(JobOf(t))
    <3>1. slot' = [Fresh EXCEPT ![JobOf(t)] = "held"] /\ Goto(t, "ready")
      BY <1>6, <2>2 DEF Admit
    <3>2. CASE u = t
      BY <2>1, <3>1, <3>2 DEF Goto, JobOf, Fresh, Base, TypeOK, Deliveries
    <3>3. CASE u # t
      <4>1. Admitted(u) /\ JobOf(u)' = JobOf(u)
        BY <2>1, <3>1, <3>3 DEF Goto, Admitted, Holds, Phase, JobOf, Base, TypeOK
      <4>2. JobOf(u) \in Jobs
        BY <4>1 DEF Admitted, Base, CallInv
      <4>3. slot[JobOf(u)] = "held" => slot'[JobOf(u)] = "held"
        BY <3>1, <4>2 DEF Fresh
      <4> QED BY <4>1, <4>3, Undisturbed
    <3> QED BY <3>2, <3>3
  <2>3. CASE ~HasRoom(JobOf(t))
    <3>1. slot' = Fresh /\ Goto(t, "refused")
      BY <1>6, <2>3 DEF Admit
    <3>2. Admitted(u) /\ JobOf(u)' = JobOf(u)
      BY <1>3, <2>1, <3>1
    <3>3. JobOf(u) \in Jobs
      BY <3>2 DEF Admitted, Base, CallInv
    <3> QED BY <3>1, <3>2, <3>3, Undisturbed DEF Fresh
  <2> QED BY <2>2, <2>3
<1>7. ASSUME NEW t \in Tokens, Allow(t) PROVE slot'[JobOf(u)'] = "held"
  <2>1. u # t
    BY <1>7 DEF Allow, Goto, JobOf, Base, TypeOK, Deliveries
  <2>2. Admitted(u) /\ JobOf(u)' = JobOf(u)
    BY <1>7, <2>1 DEF Allow, Goto, Admitted, Holds, Phase, JobOf, Base, TypeOK
  <2> QED BY <1>1, <1>7, <2>2 DEF Allow
<1>8. ASSUME NEW t \in Tokens, HandOver(t) PROVE slot'[JobOf(u)'] = "held"
  <2>1. Admitted(u) /\ JobOf(u)' = JobOf(u)
    BY <1>8 DEF HandOver, Goto, Admitted, Holds, Phase, JobOf, Base, TypeOK, Deliveries
  <2> QED BY <1>1, <1>8, <2>1 DEF HandOver
<1>9. ASSUME NEW t \in Tokens, ReleaseReturned(t) PROVE slot'[JobOf(u)'] = "held"
  <2>1. JobOf(t) \in Jobs /\ Releasing(t)
    BY <1>9 DEF ReleaseReturned, Releasing, Base, CallInv
  <2>2. Admitted(u) /\ JobOf(u)' = JobOf(u)
    BY <1>3, <1>9, <2>1 DEF ReleaseReturned
  <2>3. JobOf(u) # JobOf(t)
    BY <2>1, <2>2, NoHolderWhileReleasing DEF Admitted
  <2>4. slot'[JobOf(u)] = slot[JobOf(u)]
    BY <1>9, <2>3 DEF ReleaseReturned, ReleaseSlot, Base, TypeOK
  <2> QED BY <2>2, <2>4, Undisturbed
<1>10. ASSUME NEW t \in Tokens, GiveUp(t) \/ Lose(t) PROVE slot'[JobOf(u)'] = "held"
  <2>1. JobOf(t) \in Jobs /\ End(t) /\ UNCHANGED <<lock, slot>>
    BY <1>10 DEF GiveUp, Lose, Base, CallInv
  <2> QED BY <1>1, <1>3, <2>1
<1>11. ASSUME NEW t \in Tokens, NEW r \in Results, Report(t, r) PROVE slot'[JobOf(u)'] = "held"
  <2>1. Admitted(u) /\ JobOf(u)' = JobOf(u)
    BY <1>11 DEF Report, Admitted, Holds, Phase, JobOf, Base, TypeOK, Deliveries
  <2> QED BY <1>1, <1>11, <2>1 DEF Report
<1>12. ASSUME NEW t \in Tokens, Resend(t) PROVE slot'[JobOf(u)'] = "held"
  <2>1. Admitted(u) /\ JobOf(u)' = JobOf(u)
    BY <1>12 DEF Resend, Admitted, Holds, Phase, JobOf
  <2> QED BY <1>1, <1>12, <2>1 DEF Resend
<1>13. ASSUME NEW t \in Tokens, NEW k \in Copies,
              CheckLease(t, k) \/ LoseCall(t, k) \/ Release(t, k) \/ Finish(t, k)
       PROVE  slot'[JobOf(u)'] = "held"
  <2>1. JobOf(t) \in Jobs
    BY <1>13 DEF CheckLease, LoseCall, Release, Finish, Base, CallInv
  <2>2. lock' = lock \/ Unlock(JobOf(t))
    BY <1>13 DEF CheckLease, LoseCall, Release, Finish, MoveTo
  <2>3. delivery' = delivery \/ End(t)
    BY <1>13 DEF CheckLease, LoseCall, Release, Finish, Answer
  <2>4. Admitted(u) /\ JobOf(u)' = JobOf(u)
    BY <1>2, <1>3, <2>1, <2>2, <2>3
  <2>5. CASE Release(t, k)
    <3>1. Releasing(t)
      BY <2>5 DEF Release, Releasing
    <3>2. JobOf(u) # JobOf(t)
      BY <2>1, <2>4, <3>1, NoHolderWhileReleasing DEF Admitted
    <3>3. slot'[JobOf(u)] = slot[JobOf(u)]
      BY <2>5, <3>2 DEF Release, ReleaseSlot, Base, TypeOK
    <3> QED BY <2>4, <3>3, Undisturbed
  <2>6. CASE ~Release(t, k)
    BY <1>1, <1>13, <2>4, <2>6 DEF CheckLease, LoseCall, Finish
  <2> QED BY <2>5, <2>6
<1>14. ASSUME NEW t \in Tokens, NEW k \in Copies, FailToFinish(t, k) PROVE FALSE
  BY <1>14 DEF FailToFinish, Fault, Bound, PromptRelease, Base, TypeOK, Faults
<1>15. ASSUME NEW j \in Jobs,
              Promote(j) \/ ExpireDead(j) \/ ExpireLive(j) \/ ScanStalled(j) \/ AgeSlot(j)
       PROVE  slot'[JobOf(u)'] = "held"
  <2>1. UNCHANGED delivery /\ (lock' = lock \/ Unlock(j))
    BY <1>15 DEF Promote, ExpireDead, ExpireLive, ScanStalled, AgeSlot
  <2>2. Admitted(u) /\ JobOf(u)' = JobOf(u)
    BY <1>2, <2>1
  <2>3. CASE AgeSlot(j)
    <3>1. ~AdmittedJob(j)
      BY <2>3 DEF AgeSlot, Fault, Bound, PromptRelease, Base, TypeOK, Faults
    <3>2. JobOf(u) # j
      BY <2>2, <3>1 DEF AdmittedJob
    <3>3. slot'[JobOf(u)] = slot[JobOf(u)]
      BY <2>3, <3>2 DEF AgeSlot, Base, TypeOK
    <3> QED BY <2>2, <3>3, Undisturbed
  <2>4. CASE ~AgeSlot(j)
    BY <1>1, <1>15, <2>2, <2>4 DEF Promote, ExpireDead, ExpireLive, ScanStalled
  <2> QED BY <2>3, <2>4
<1>16. CASE UNCHANGED vars
  BY <1>1, <1>16 DEF vars, Admitted, Holds, Phase, JobOf
<1> QED
  BY <1>4, <1>5, <1>6, <1>7, <1>8, <1>9, <1>10, <1>11, <1>12, <1>13, <1>14, <1>15, <1>16
  DEF Next, TakeJob, Dequeue, Hand, Work, Complete

\* What the slots of running jobs rest on, together.
RunInv == Base /\ PoolBound /\ ReleaseInv /\ SlotInv

\* The strengthened invariant holds throughout.
LEMMA RunInvariant ==
  ASSUME PromptRelease
  PROVE  Spec => []RunInv
<1>1. Init => RunInv
  <2> SUFFICES ASSUME Init PROVE RunInv
    OBVIOUS
  <2>1. Members(slot) = {}
    BY DEF Init, Members
  <2>2. PoolBound
    BY <2>1, FS_EmptySet, BrokerAssumption DEF PoolBound
  <2>3. ReleaseInv /\ SlotInv
    BY DEF Init, ReleaseInv, SlotInv, Releasing, Admitted, Phase, Over
  <2> QED BY <2>2, <2>3, BaseInit DEF RunInv
<1>2. RunInv /\ [Next]_vars => RunInv'
  BY BaseNext, PoolNext, ReleaseNext, SlotNext DEF RunInv
<1> QED BY <1>1, <1>2, PTL DEF Spec

(* For every limit and any number of jobs, deliveries, stalls and dead     *)
(* processes: no more flow runs are executed under a lease than the limit, *)
(* as long as releases beat delays, locks are readable and no score is     *)
(* outlived (the three cases in which the runs show that it fails).        *)
THEOREM LimitRespected ==
  ASSUME PromptRelease
  PROVE  Spec => []WithinLimit
<1>1. RunInv => WithinLimit
  <2> SUFFICES ASSUME RunInv PROVE WithinLimit
    OBVIOUS
  <2>1. Executing \subseteq Members(slot)
    BY BrokerAssumption DEF RunInv, SlotInv, Executing, Members, Admitted
  <2>2. Cardinality(Executing) <= Cardinality(Members(slot))
    BY <2>1, PoolsAreFinite, FS_Subset
  <2>3. Cardinality(Executing) \in Nat
    BY <2>1, PoolsAreFinite, FS_Subset, FS_CardinalityType
  <2> QED BY <2>2, <2>3, PoolsAreFinite, BrokerAssumption DEF RunInv, PoolBound, WithinLimit
<1> QED BY <1>1, RunInvariant, PTL

\* A token changes its job only by ending or by being taken anew.
LEMMA SameJob ==
  ASSUME Base, Next, NEW u \in Tokens, Phase(u)' \in {"ready", "running"}
  PROVE  JobOf(u)' = JobOf(u)
<1>1. ASSUME NEW t \in Tokens, NEW p \in Phases, Goto(t, p) \/ End(t)
      PROVE  JobOf(u)' = JobOf(u)
  <2> delivery \in [Tokens -> Deliveries]
    BY DEF Base, TypeOK
  <2>1. CASE Goto(t, p)
    BY <2>1 DEF Goto, JobOf, Deliveries
  <2>2. CASE End(t) /\ u = t
    <3>1. delivery'[u].phase = "over"
      BY <2>2 DEF End, Over
    <3> QED BY <3>1 DEF Phase
  <2>3. CASE End(t) /\ u # t
    BY <2>3 DEF End, JobOf
  <2> QED BY <1>1, <2>1, <2>2, <2>3
<1>2. ASSUME UNCHANGED delivery PROVE JobOf(u)' = JobOf(u)
  BY <1>2 DEF JobOf
<1>3. ASSUME NEW j \in Jobs, TakeJob(j) PROVE JobOf(u)' = JobOf(u)
  BY <1>3 DEF TakeJob, Take, Phase, JobOf, Base, TypeOK
<1>4. ASSUME NEW j \in Jobs,
             Promote(j) \/ ExpireDead(j) \/ ExpireLive(j) \/ ScanStalled(j) \/ AgeSlot(j)
      PROVE  UNCHANGED delivery
  BY <1>4 DEF Promote, ExpireDead, ExpireLive, ScanStalled, AgeSlot
<1>5. ASSUME NEW t \in Tokens, Dequeue(t) \/ Hand(t) \/ ReleaseReturned(t) \/ Lose(t) \/ GiveUp(t)
      PROVE  \E p \in Phases : Goto(t, p) \/ End(t)
  BY <1>5 DEF Dequeue, FailDoomed, Admit, Allow, Discard, Postpone, Hand, HandOver, Return,
              ReleaseReturned, Lose, GiveUp, Phases
<1>6. ASSUME NEW t \in Tokens, NEW r \in Results, Report(t, r) PROVE JobOf(u)' = JobOf(u)
  BY <1>6 DEF Report, JobOf, Base, TypeOK, Deliveries
<1>7. ASSUME NEW t \in Tokens, NEW k \in Copies,
             Complete(t, k) \/ FailToFinish(t, k) \/ LoseCall(t, k)
      PROVE  UNCHANGED delivery \/ End(t)
  BY <1>7 DEF Complete, CheckLease, Finish, Release, FailToFinish, LoseCall, Answer
<1>8. ASSUME NEW t \in Tokens, Resend(t) PROVE UNCHANGED delivery
  BY <1>8 DEF Resend
<1>9. "over" \in Phases
  BY DEF Phases
<1> QED BY <1>1, <1>2, <1>3, <1>4, <1>5, <1>6, <1>7, <1>8, <1>9 DEF Next, Work

(* Under the same provisos a delivery that was admitted and still holds    *)
(* its job keeps its slot, whatever older deliveries of the job still do.  *)
THEOREM SlotStays ==
  ASSUME PromptRelease
  PROVE  Spec => SlotKept
<1> DEFINE Kept == \A t \in Tokens : Admitted(t) /\ Admitted(t)' /\ JobOf(t) \in Limited
                                       /\ slot[JobOf(t)] # "none"
                                     => slot'[JobOf(t)] # "none"
<1>1. RunInv /\ RunInv' /\ [Next]_vars => [Kept]_vars
  <2> SUFFICES ASSUME RunInv, RunInv', Next,
                      NEW t \in Tokens, Admitted(t), Admitted(t)', JobOf(t) \in Limited
               PROVE  slot'[JobOf(t)] # "none"
    OBVIOUS
  <2>1. JobOf(t)' = JobOf(t)
    BY SameJob DEF RunInv, Admitted
  <2> QED BY <2>1 DEF RunInv, SlotInv
<1> QED BY <1>1, RunInvariant, PTL DEF SlotKept, Spec
\* ------------------------------------------------ answers and finished jobs

(* A caller is answered by the move that takes the job from its holder, as *)
(* long as the lock can be read and the job moved.                         *)
THEOREM AnswersCarryTheLease ==
  ASSUME MaxUnread = 0
  PROVE  Spec => HolderAnswers
<1> DEFINE Moves == \A t \in Tokens : t \in answered' \ answered => Holds(t) /\ ~Holds(t)'
<1>1. Base /\ [Next]_vars => [Moves]_vars
  <2> SUFFICES ASSUME Base, Next, NEW u \in Tokens, u \in answered' \ answered
               PROVE  Holds(u) /\ ~Holds(u)'
    OBVIOUS
  <2> USE BrokerAssumption
  <2>1. PICK t \in Tokens, k \in Copies : Finish(t, k) \/ FailToFinish(t, k)
    <3>1. ASSUME NEW j \in Jobs,
                 TakeJob(j) \/ Promote(j) \/ ExpireDead(j) \/ ExpireLive(j)
                 \/ ScanStalled(j) \/ AgeSlot(j)
          PROVE  FALSE
      BY <3>1 DEF TakeJob, Take, Promote, ExpireDead, ExpireLive, ScanStalled, AgeSlot
    <3>2. ASSUME NEW t \in Tokens,
                 Dequeue(t) \/ Hand(t) \/ ReleaseReturned(t) \/ Work(t) \/ Resend(t) \/ Lose(t)
          PROVE  FALSE
      BY <3>2 DEF Dequeue, FailDoomed, Admit, Allow, Discard, Postpone, Hand, HandOver, Return,
                  ReleaseReturned, Work, Report, GiveUp, Resend, Lose
    <3>3. ASSUME NEW t \in Tokens, NEW k \in Copies,
                 CheckLease(t, k) \/ Release(t, k) \/ LoseCall(t, k)
          PROVE  FALSE
      BY <3>3 DEF CheckLease, Release, LoseCall
    <3> QED BY <3>1, <3>2, <3>3 DEF Next, Complete
  <2>2. ~FailToFinish(t, k)
    BY DEF FailToFinish, Fault, Bound, Base, TypeOK, Faults
  <2>3. Finish(t, k) /\ Holds(t) /\ u = t
    BY <2>1, <2>2 DEF Finish, Publish
  <2>4. JobOf(t) \in Jobs /\ lock' = [lock EXCEPT ![JobOf(t)] = None] /\ UNCHANGED delivery
    BY <2>3 DEF Finish, MoveTo, Unlock, Base, CallInv
  <2>5. ~Holds(t)'
    BY <2>4 DEF Holds, JobOf, Base, TypeOK
  <2> QED BY <2>3, <2>5
<1> QED BY <1>1, BaseInit, BaseNext, PTL DEF HolderAnswers, Spec

\* A delivery on its way to a worker holds its job: nothing takes its lock.
HeldInv == \A t \in Tokens : Phase(t) \in {"doomed", "taken", "refused", "ready"} => Holds(t)

\* Why a delivery is failed at once, and which jobs can be let into the pool.
FateInv ==
  /\ \A t \in Tokens :
       /\ Phase(t) = "doomed" => stalls[JobOf(t)] > MaxStalls \/ JobOf(t) \in Malformed
       /\ Phase(t) = "taken" => JobOf(t) \notin Malformed
  /\ \A j \in Jobs : slot[j] # "none" => j \in Limited \ Malformed

\* A report of the job has moved it and is about to release its slot.
CallReleases(j) == \E t \in Tokens, k \in Copies : JobOf(t) = j /\ call[t][k] = "release"

(* SlotReturned, with the release in a completeJob call: the release of a  *)
(* returned delivery may be lost, but then another finished the job.       *)
ReturnInv ==
  \A j \in Jobs : state[j] \in Finished /\ slot[j] # "none"
                  => CallReleases(j) \/ stalls[j] > MaxStalls \/ faults["report"] > 0

\* A job that is held, or that is moved now, is not one that somebody else holds.
LEMMA HeldNext == Base /\ HeldInv /\ [Next]_vars => HeldInv'
<1> SUFFICES ASSUME Base, HeldInv, [Next]_vars, NEW u \in Tokens,
                    Phase(u)' \in {"doomed", "taken", "refused", "ready"}
             PROVE  lock'[JobOf(u)'] = u
  BY DEF HeldInv, Holds
<1> USE BrokerAssumption
<1>1. ASSUME Phase(u) \in {"doomed", "taken", "refused", "ready"}, JobOf(u)' = JobOf(u),
             lock'[JobOf(u)] = lock[JobOf(u)]
      PROVE  lock'[JobOf(u)'] = u
  BY <1>1 DEF HeldInv, Holds
<1>2. ASSUME NEW t \in Tokens, t # u, JobOf(t) \in Jobs,
             delivery'[u] = delivery[u],
             UNCHANGED lock \/ (Holds(t) /\ Unlock(JobOf(t)))
      PROVE  lock'[JobOf(u)'] = u
  <2>1. Phase(u) \in {"doomed", "taken", "refused", "ready"} /\ JobOf(u)' = JobOf(u)
    BY <1>2 DEF Phase, JobOf
  <2>2. lock[JobOf(u)] = u /\ JobOf(u) \in Jobs
    BY <2>1 DEF HeldInv, Holds, Base, CallInv
  <2>3. lock'[JobOf(u)] = lock[JobOf(u)]
    BY <1>2, <2>2 DEF Unlock, Holds, Base, TypeOK
  <2> QED BY <1>1, <2>1, <2>3
<1>3. ASSUME NEW j \in Jobs, NEW t \in Tokens, Take(j, t) PROVE lock'[JobOf(u)'] = u
  <2>1. CASE u = t
    BY <1>3, <2>1 DEF Take, JobOf, Base, TypeOK
  <2>2. CASE u # t
    <3>1. Phase(u) \in {"doomed", "taken", "refused", "ready"} /\ JobOf(u)' = JobOf(u)
      BY <1>3, <2>2 DEF Take, Phase, JobOf, Base, TypeOK
    <3>2. lock[JobOf(u)] = u /\ JobOf(u) \in Jobs
      BY <3>1 DEF HeldInv, Holds, Base, CallInv
    <3>3. JobOf(u) # j
      BY <1>3, <3>2 DEF Take, Base, LockInv
    <3>4. lock'[JobOf(u)] = lock[JobOf(u)]
      BY <1>3, <3>3 DEF Take, Base, TypeOK
    <3> QED BY <1>1, <3>1, <3>4
  <2> QED BY <2>1, <2>2
<1>4. ASSUME NEW t \in Tokens, Admit(t) \/ Allow(t) PROVE lock'[JobOf(u)'] = u
  <2>1. Phase(t) = "taken" /\ UNCHANGED lock /\ (Goto(t, "ready") \/ Goto(t, "refused"))
    BY <1>4 DEF Admit, Allow
  <2>2. Phase(u) \in {"doomed", "taken", "refused", "ready"} /\ JobOf(u)' = JobOf(u)
    BY <2>1 DEF Goto, Phase, JobOf, Base, TypeOK, Deliveries
  <2> QED BY <1>1, <2>1, <2>2
<1>5. ASSUME NEW t \in Tokens,
             FailDoomed(t) \/ Discard(t) \/ Postpone(t) \/ HandOver(t) \/ Return(t)
             \/ ReleaseReturned(t) \/ GiveUp(t) \/ Lose(t)
      PROVE  lock'[JobOf(u)'] = u
  <2>1. Goto(t, "running") \/ Goto(t, "returned") \/ End(t)
    BY <1>5 DEF FailDoomed, Discard, Postpone, HandOver, Return, ReleaseReturned, GiveUp, Lose
  <2>2. UNCHANGED lock \/ (Holds(t) /\ Unlock(JobOf(t)))
    BY <1>5 DEF FailDoomed, Discard, Postpone, HandOver, Return, ReleaseReturned, GiveUp, Lose,
                MoveTo
  <2>3. JobOf(t) \in Jobs
    BY <1>5 DEF FailDoomed, Discard, Postpone, HandOver, Return, ReleaseReturned, GiveUp, Lose,
                Base, CallInv
  <2>4. t # u
    BY <2>1 DEF Goto, End, Over, Phase, Base, TypeOK, Deliveries
  <2>5. delivery'[u] = delivery[u]
    BY <2>1, <2>4 DEF Goto, End, Base, TypeOK
  <2> QED BY <1>2, <2>2, <2>3, <2>4, <2>5
<1>6. ASSUME NEW t \in Tokens, NEW r \in Results, Report(t, r) PROVE lock'[JobOf(u)'] = u
  <2>1. t # u
    BY <1>6 DEF Report, Phase, Base, TypeOK, Deliveries
  <2>2. delivery'[u] = delivery[u] /\ UNCHANGED lock /\ JobOf(t) \in Jobs
    BY <1>6, <2>1 DEF Report, Base, TypeOK, CallInv
  <2> QED BY <1>2, <2>1, <2>2
<1>7. ASSUME NEW t \in Tokens, NEW k \in Copies,
             Complete(t, k) \/ FailToFinish(t, k) \/ LoseCall(t, k)
      PROVE  lock'[JobOf(u)'] = u
  <2>1. Phase(t) = "reported" /\ JobOf(t) \in Jobs
    BY <1>7 DEF Complete, CheckLease, Finish, Release, FailToFinish, LoseCall, Base, CallInv
  <2>2. delivery' = delivery \/ End(t)
    BY <1>7 DEF Complete, CheckLease, Finish, Release, FailToFinish, LoseCall, Answer
  <2>3. UNCHANGED lock \/ (Holds(t) /\ Unlock(JobOf(t)))
    BY <1>7 DEF Complete, CheckLease, Finish, Release, FailToFinish, LoseCall, MoveTo
  <2>4. t # u
    BY <2>1, <2>2 DEF End, Over, Phase, Base, TypeOK
  <2>5. delivery'[u] = delivery[u]
    BY <2>2, <2>4 DEF End, Base, TypeOK
  <2> QED BY <1>2, <2>1, <2>3, <2>4, <2>5
<1>8. ASSUME UNCHANGED <<delivery, lock>> PROVE lock'[JobOf(u)'] = u
  BY <1>1, <1>8 DEF Phase, JobOf
<1>9. ASSUME NEW j \in Jobs, ExpireDead(j) \/ ExpireLive(j) PROVE lock'[JobOf(u)'] = u
  <2>1. Phase(u) \in {"doomed", "taken", "refused", "ready"} /\ JobOf(u)' = JobOf(u)
    BY <1>9 DEF ExpireDead, ExpireLive, Phase, JobOf
  <2>2. lock[JobOf(u)] = u /\ JobOf(u) \in Jobs
    BY <2>1 DEF HeldInv, Holds, Base, CallInv
  <2>3. JobOf(u) # j
    BY <1>9, <2>1, <2>2 DEF ExpireDead, ExpireLive, Live
  <2>4. lock'[JobOf(u)] = lock[JobOf(u)]
    BY <1>9, <2>2, <2>3 DEF ExpireDead, ExpireLive, Unlock, Base, TypeOK
  <2> QED BY <1>1, <2>1, <2>4
<1>10. ASSUME NEW j \in Jobs, Promote(j) \/ ScanStalled(j) \/ AgeSlot(j)
       PROVE  UNCHANGED <<delivery, lock>>
  BY <1>10 DEF Promote, ScanStalled, AgeSlot
<1>11. ASSUME NEW t \in Tokens, Resend(t) PROVE UNCHANGED <<delivery, lock>>
  BY <1>11 DEF Resend
<1>12. CASE UNCHANGED vars
  BY <1>8, <1>12 DEF vars
<1>13. ASSUME NEW t \in Tokens,
              Dequeue(t) \/ Hand(t) \/ ReleaseReturned(t) \/ Work(t) \/ Resend(t) \/ Lose(t)
       PROVE  lock'[JobOf(u)'] = u
  BY <1>4, <1>5, <1>6, <1>8, <1>11, <1>13 DEF Dequeue, Hand, Work
<1>14. ASSUME NEW j \in Jobs,
              TakeJob(j) \/ Promote(j) \/ ExpireDead(j) \/ ExpireLive(j)
              \/ ScanStalled(j) \/ AgeSlot(j)
       PROVE  lock'[JobOf(u)'] = u
  BY <1>3, <1>8, <1>9, <1>10, <1>14 DEF TakeJob
<1> QED BY <1>7, <1>12, <1>13, <1>14 DEF Next
\* Doomed deliveries have a reason, and the pool takes only flow runs that parse.
LEMMA FateNext == Base /\ FateInv /\ [Next]_vars => FateInv'
<1> SUFFICES ASSUME Base, FateInv, [Next]_vars PROVE FateInv'
  OBVIOUS
<1> USE BrokerAssumption
<1> delivery \in [Tokens -> Deliveries] /\ stalls \in [Jobs -> Nat]
    /\ slot \in [Jobs -> {"none", "held", "aged"}]
  BY DEF Base, TypeOK
<1>1. ASSUME NEW t \in Tokens, NEW p \in Phases \ {"doomed", "taken"}, Goto(t, p) \/ End(t),
             UNCHANGED stalls,
             \A j \in Jobs : slot'[j] # "none" => slot[j] # "none" \/ j \in Limited \ Malformed
      PROVE  FateInv'
  <2>1. ASSUME NEW u \in Tokens, Phase(u)' \in {"doomed", "taken"}
        PROVE  u # t /\ delivery'[u] = delivery[u]
    BY <1>1, <2>1 DEF Goto, End, Over, Phase, Deliveries
  <2>2. ASSUME NEW u \in Tokens, Phase(u)' \in {"doomed", "taken"}
        PROVE  Phase(u)' = Phase(u) /\ JobOf(u)' = JobOf(u)
    BY <2>1, <2>2 DEF Phase, JobOf
  <2> QED BY <1>1, <2>2 DEF FateInv
<1>2. ASSUME UNCHANGED <<delivery, stalls, slot>> PROVE FateInv'
  BY <1>2 DEF FateInv, Phase, JobOf
<1>3. ASSUME NEW j \in Jobs, NEW t \in Tokens, Take(j, t) PROVE FateInv'
  <2>1. UNCHANGED <<stalls, slot>>
    BY <1>3 DEF Take, Counters
  <2>2. /\ Phase(t)' = "doomed" => stalls[JobOf(t)'] > MaxStalls \/ JobOf(t)' \in Malformed
        /\ Phase(t)' = "taken" => JobOf(t)' \notin Malformed
    BY <1>3 DEF Take, Phase, JobOf
  <2>3. \A u \in Tokens \ {t} : Phase(u)' = Phase(u) /\ JobOf(u)' = JobOf(u)
    BY <1>3 DEF Take, Phase, JobOf
  <2> QED BY <2>1, <2>2, <2>3 DEF FateInv
<1>4. ASSUME NEW t \in Tokens, Admit(t) PROVE FateInv'
  <2>1. JobOf(t) \in Limited \ Malformed /\ JobOf(t) \in Jobs
    BY <1>4 DEF Admit, FateInv, Base, CallInv
  <2>2. \A j \in Jobs : slot'[j] # "none" => slot[j] # "none" \/ j \in Limited \ Malformed
    BY <1>4, <2>1 DEF Admit, Fresh
  <2>3. (Goto(t, "ready") \/ Goto(t, "refused")) /\ UNCHANGED stalls
    BY <1>4 DEF Admit, Counters
  <2>4. {"ready", "refused"} \subseteq Phases \ {"doomed", "taken"}
    BY DEF Phases
  <2> QED BY <1>1, <2>2, <2>3, <2>4
<1>5. ASSUME NEW t \in Tokens,
             FailDoomed(t) \/ Allow(t) \/ Discard(t) \/ Postpone(t) \/ HandOver(t) \/ Return(t)
             \/ GiveUp(t) \/ Lose(t)
      PROVE  FateInv'
  <2>1. /\ Goto(t, "ready") \/ Goto(t, "running") \/ Goto(t, "returned") \/ End(t)
        /\ UNCHANGED <<stalls, slot>>
    BY <1>5 DEF FailDoomed, Allow, Discard, Postpone, HandOver, Return, GiveUp, Lose, Counters
  <2>2. {"ready", "running", "returned"} \subseteq Phases \ {"doomed", "taken"}
    BY DEF Phases
  <2> QED BY <1>1, <2>1, <2>2
<1>6. ASSUME NEW t \in Tokens, ReleaseReturned(t) PROVE FateInv'
  <2>1. \A j \in Jobs : slot'[j] # "none" => slot[j] # "none"
    BY <1>6 DEF ReleaseReturned, ReleaseSlot
  <2>2. End(t) /\ UNCHANGED stalls /\ "over" \in Phases \ {"doomed", "taken"}
    BY <1>6 DEF ReleaseReturned, Counters, Phases
  <2> QED BY <1>1, <2>1, <2>2
<1>7. ASSUME NEW t \in Tokens, NEW r \in Results, Report(t, r) PROVE FateInv'
  <2>1. \A u \in Tokens : Phase(u)' \in {"doomed", "taken"}
                          => Phase(u)' = Phase(u) /\ JobOf(u)' = JobOf(u)
    BY <1>7 DEF Report, Phase, JobOf, Deliveries
  <2>2. UNCHANGED <<stalls, slot>>
    BY <1>7 DEF Report, Counters
  <2> QED BY <2>1, <2>2 DEF FateInv
<1>8. ASSUME NEW t \in Tokens, NEW k \in Copies,
             Complete(t, k) \/ FailToFinish(t, k) \/ LoseCall(t, k)
      PROVE  FateInv'
  <2>1. (UNCHANGED delivery \/ End(t)) /\ UNCHANGED stalls
    BY <1>8 DEF Complete, CheckLease, Finish, Release, FailToFinish, LoseCall, Answer, Counters
  <2>2. \A j \in Jobs : slot'[j] # "none" => slot[j] # "none"
    BY <1>8 DEF Complete, CheckLease, Finish, Release, ReleaseSlot, FailToFinish, LoseCall
  <2>3. CASE UNCHANGED delivery
    BY <2>1, <2>2, <2>3 DEF FateInv, Phase, JobOf
  <2>4. CASE End(t)
    BY <1>1, <2>1, <2>2, <2>4 DEF Phases
  <2> QED BY <2>1, <2>3, <2>4
<1>9. ASSUME NEW j \in Jobs, Promote(j) \/ ExpireDead(j) \/ ExpireLive(j) PROVE FateInv'
  BY <1>2, <1>9 DEF Promote, ExpireDead, ExpireLive, Counters
<1>10. ASSUME NEW j \in Jobs, ScanStalled(j) PROVE FateInv'
  <2>1. UNCHANGED <<delivery, slot>> /\ \A k \in Jobs : stalls'[k] >= stalls[k]
    BY <1>10 DEF ScanStalled
  <2>2. ASSUME NEW u \in Tokens, Phase(u) = "doomed", stalls[JobOf(u)] > MaxStalls
        PROVE  stalls'[JobOf(u)] > MaxStalls
    <3>1. JobOf(u) \in Jobs
      BY <2>2 DEF Base, CallInv
    <3>2. stalls[JobOf(u)] \in Nat /\ stalls'[JobOf(u)] \in Nat
      BY <1>10, <3>1 DEF ScanStalled
    <3> QED BY <2>1, <2>2, <3>1, <3>2
  <2> QED BY <2>1, <2>2 DEF FateInv, Phase, JobOf
<1>11. ASSUME NEW j \in Jobs, AgeSlot(j) PROVE FateInv'
  <2>1. UNCHANGED <<delivery, stalls>> /\ \A k \in Jobs : slot'[k] # "none" => slot[k] # "none"
    BY <1>11 DEF AgeSlot, Counters
  <2> QED BY <2>1 DEF FateInv, Phase, JobOf
<1>12. ASSUME NEW t \in Tokens, Resend(t) PROVE FateInv'
  BY <1>2, <1>12 DEF Resend, Counters
<1>13. CASE UNCHANGED vars
  BY <1>2, <1>13 DEF vars
<1>14. ASSUME NEW t \in Tokens,
              Dequeue(t) \/ Hand(t) \/ ReleaseReturned(t) \/ Work(t) \/ Resend(t) \/ Lose(t)
       PROVE  FateInv'
  BY <1>4, <1>5, <1>6, <1>7, <1>12, <1>14 DEF Dequeue, Hand, Work
<1>15. ASSUME NEW j \in Jobs,
              TakeJob(j) \/ Promote(j) \/ ExpireDead(j) \/ ExpireLive(j)
              \/ ScanStalled(j) \/ AgeSlot(j)
       PROVE  FateInv'
  BY <1>3, <1>9, <1>10, <1>11, <1>15 DEF TakeJob
<1> QED BY <1>8, <1>13, <1>14, <1>15 DEF Next
\* A job keeps its reason to be in the pool unless it is moved or let in anew.
LEMMA ReasonStays ==
  ASSUME ReturnInv,
         NEW j \in Jobs, state[j] \in Finished, slot[j] # "none",
         CallReleases(j) => CallReleases(j)',
         stalls[j] > MaxStalls => stalls'[j] > MaxStalls,
         faults["report"] > 0 => faults'["report"] > 0
  PROVE  CallReleases(j)' \/ stalls'[j] > MaxStalls \/ faults'["report"] > 0
BY DEF ReturnInv

\* A delivery that is not reported goes on: the reports and their calls stay.
LEMMA ReportsStay ==
  ASSUME Base, NEW j \in Jobs, NEW t \in Tokens, Phase(t) # "reported", UNCHANGED call,
         \A u \in Tokens \ {t} : delivery'[u] = delivery[u]
  PROVE  CallReleases(j) => CallReleases(j)'
BY DEF CallReleases, JobOf, Base, CallInv

\* Steps of a delivery, before its report, keep the reason of a finished job.
LEMMA ReturnDelivery ==
  ASSUME Base, HeldInv, FateInv, ReturnInv, NEW t \in Tokens,
         Dequeue(t) \/ Hand(t) \/ ReleaseReturned(t) \/ Work(t) \/ Resend(t) \/ Lose(t)
  PROVE  ReturnInv'
<1> SUFFICES ASSUME NEW j \in Jobs, state'[j] \in Finished, slot'[j] # "none"
             PROVE  CallReleases(j)' \/ stalls'[j] > MaxStalls \/ faults'["report"] > 0
  BY DEF ReturnInv
<1> USE BrokerAssumption
<1> /\ delivery \in [Tokens -> Deliveries] /\ state \in [Jobs -> States]
    /\ slot \in [Jobs -> {"none", "held", "aged"}]
  BY DEF Base, TypeOK
<1>1. faults["report"] > 0 => faults'["report"] > 0
  <2>1. faults \in [Faults -> Nat] /\ {"report", "loss", "lapse"} \subseteq Faults
    BY DEF Base, TypeOK, Faults
  <2>2. UNCHANGED faults \/ Fault("loss") \/ Fault("lapse")
    BY DEF Dequeue, FailDoomed, Admit, Allow, Discard, Postpone, Hand, HandOver, Return,
           ReleaseReturned, Work, Report, GiveUp, Resend, Lose
  <2> QED BY <2>1, <2>2 DEF Fault
<1>2. ASSUME NEW p \in Phases, Goto(t, p) \/ End(t), UNCHANGED <<call, stalls>>,
             Phase(t) # "reported", state[j] \in Finished, slot[j] # "none"
      PROVE  CallReleases(j)' \/ stalls'[j] > MaxStalls \/ faults'["report"] > 0
  <2>1. \A u \in Tokens \ {t} : delivery'[u] = delivery[u]
    BY <1>2 DEF Goto, End
  <2>2. CallReleases(j) => CallReleases(j)'
    BY <1>2, <2>1, ReportsStay
  <2> QED BY <1>1, <1>2, <2>2, ReasonStays
<1>3. CASE FailDoomed(t)
  <2>1. Phase(t) = "doomed" /\ End(t) /\ UNCHANGED <<call, stalls, slot>> /\ JobOf(t) \in Jobs
    BY <1>3 DEF FailDoomed, Counters, Base, CallInv
  <2>2. CASE j = JobOf(t)
    <3>1. stalls[j] > MaxStalls
      BY <2>1, <2>2 DEF FateInv
    <3> QED BY <2>1, <3>1
  <2>3. CASE j # JobOf(t)
    <3>1. state[j] \in Finished /\ slot[j] # "none"
      BY <1>3, <2>1, <2>3 DEF FailDoomed, MoveTo
    <3> QED BY <1>2, <2>1, <3>1 DEF Phases
  <2> QED BY <2>2, <2>3
<1>4. CASE Discard(t) \/ Postpone(t) \/ Return(t)
  <2>1. /\ Goto(t, "returned") \/ End(t)
        /\ UNCHANGED <<call, stalls, slot>> /\ Phase(t) # "reported"
    BY <1>4 DEF Discard, Postpone, Return, Counters
  <2>2. state[j] \in Finished
    <3>1. CASE Discard(t)
      <4>1. JobOf(t) # j
        BY <2>1, <3>1 DEF Discard, FateInv
      <4> QED BY <3>1, <4>1 DEF Discard, MoveTo
    <3>2. CASE Postpone(t) \/ Return(t)
      BY <3>2 DEF Postpone, Return, MoveTo, Finished
    <3> QED BY <1>4, <3>1, <3>2
  <2> QED BY <1>2, <2>1, <2>2 DEF Phases
<1>5. CASE Admit(t)
  <2>1. /\ Goto(t, "ready") \/ Goto(t, "refused")
        /\ UNCHANGED <<call, stalls, state>> /\ Phase(t) = "taken"
    BY <1>5 DEF Admit, Counters
  <2>2. j # JobOf(t)
    BY <2>1 DEF HeldInv, Holds, Base, LockInv, Finished
  <2>3. slot[j] # "none"
    BY <1>5, <2>2 DEF Admit, Fresh
  <2> QED BY <1>2, <2>1, <2>3 DEF Phases
<1>6. CASE Allow(t) \/ HandOver(t) \/ GiveUp(t) \/ Lose(t)
  <2>1. /\ Goto(t, "ready") \/ Goto(t, "running") \/ End(t)
        /\ UNCHANGED <<call, stalls, state, slot>> /\ Phase(t) # "reported"
    BY <1>6 DEF Allow, HandOver, GiveUp, Lose, Counters
  <2> QED BY <1>2, <2>1 DEF Phases
<1>7. CASE ReleaseReturned(t)
  <2>1. End(t) /\ UNCHANGED <<call, stalls, state>> /\ Phase(t) # "reported"
    BY <1>7 DEF ReleaseReturned, Counters
  <2>2. slot[j] # "none"
    BY <1>7 DEF ReleaseReturned, ReleaseSlot
  <2> QED BY <1>2, <2>1, <2>2 DEF Phases
<1>8. ASSUME NEW r \in Results, Report(t, r)
      PROVE  CallReleases(j)' \/ stalls'[j] > MaxStalls \/ faults'["report"] > 0
  <2>1. \A u \in Tokens, k \in Copies : call[u][k] = "release"
          => call'[u][k] = "release" /\ delivery'[u] = delivery[u]
    BY <1>8 DEF Report, Base, TypeOK, CallInv
  <2>2. CallReleases(j) => CallReleases(j)'
    BY <2>1 DEF CallReleases, JobOf
  <2> QED BY <1>1, <1>8, <2>2, ReasonStays DEF Report, Counters
<1>9. CASE Resend(t)
  <2>1. \A u \in Tokens, k \in Copies : call[u][k] = "release" => call'[u][k] = "release"
    BY <1>9 DEF Resend, Base, TypeOK
  <2>2. CallReleases(j) => CallReleases(j)'
    BY <1>9, <2>1 DEF CallReleases, JobOf, Resend
  <2> QED BY <1>1, <1>9, <2>2, ReasonStays DEF Resend, Counters
<1> QED
  BY <1>3, <1>4, <1>5, <1>6, <1>7, <1>8, <1>9 DEF Dequeue, Hand, Work

\* Steps of a completeJob call keep the reason of a finished job.
LEMMA ReturnCall ==
  ASSUME Base, ReturnInv, NEW t \in Tokens, NEW k \in Copies,
         Complete(t, k) \/ FailToFinish(t, k) \/ LoseCall(t, k)
  PROVE  ReturnInv'
<1> SUFFICES ASSUME NEW j \in Jobs, state'[j] \in Finished, slot'[j] # "none"
             PROVE  CallReleases(j)' \/ stalls'[j] > MaxStalls \/ faults'["report"] > 0
  BY DEF ReturnInv
<1> USE BrokerAssumption
<1> /\ delivery \in [Tokens -> Deliveries] /\ state \in [Jobs -> States]
    /\ slot \in [Jobs -> {"none", "held", "aged"}]
    /\ call \in [Tokens -> [Copies -> CallPhases]]
    /\ faults \in [Faults -> Nat] /\ {"report", "unread"} \subseteq Faults
    /\ JobOf(t) \in Jobs
  BY DEF Base, TypeOK, Faults, CallInv, Complete, CheckLease, Finish, Release, FailToFinish,
         LoseCall
<1>1. ASSUME Answer(t, k), call[t][k] # "release"
      PROVE  CallReleases(j) => CallReleases(j)'
  <2>1. \A u \in Tokens, c \in Copies : call[u][c] = "release"
          => call'[u][c] = "release" /\ delivery'[u] = delivery[u]
    BY <1>1 DEF Answer, Call, End
  <2> QED BY <2>1 DEF CallReleases, JobOf
<1>2. ASSUME Call(t, k, "checked") \/ Call(t, k, "release"), call[t][k] # "release",
             UNCHANGED delivery
      PROVE  CallReleases(j) => CallReleases(j)'
  <2>1. \A u \in Tokens, c \in Copies : call[u][c] = "release" => call'[u][c] = "release"
    BY <1>2 DEF Call
  <2> QED BY <1>2, <2>1 DEF CallReleases, JobOf
<1>3. CASE CheckLease(t, k)
  <2>1. CallReleases(j) => CallReleases(j)'
    BY <1>1, <1>2, <1>3 DEF CheckLease
  <2> QED BY <1>3, <2>1, ReasonStays DEF CheckLease, Counters
<1>4. CASE Finish(t, k) /\ Holds(t)
  <2>1. /\ MoveTo(JobOf(t), IF Retries(t) THEN "delayed" ELSE FinalState(t))
        /\ Call(t, k, "release") /\ UNCHANGED <<delivery, stalls, slot, faults>>
        /\ call[t][k] # "release"
    BY <1>4 DEF Finish
  <2>2. CASE j = JobOf(t)
    <3>1. call'[t][k] = "release"
      BY <2>1 DEF Call
    <3>2. JobOf(t)' = j
      BY <2>1, <2>2 DEF JobOf
    <3> QED BY <3>1, <3>2 DEF CallReleases
  <2>3. CASE j # JobOf(t)
    <3>1. state[j] \in Finished /\ slot[j] # "none"
      BY <2>1, <2>3 DEF MoveTo
    <3>2. CallReleases(j) => CallReleases(j)'
      BY <1>2, <2>1
    <3> QED BY <2>1, <3>1, <3>2, ReasonStays
  <2> QED BY <2>2, <2>3
<1>5. CASE Finish(t, k) /\ ~Holds(t)
  <2>1. CallReleases(j) => CallReleases(j)'
    BY <1>1, <1>5 DEF Finish
  <2> QED BY <1>5, <2>1, ReasonStays DEF Finish
<1>6. CASE FailToFinish(t, k)
  <2>1. CallReleases(j) => CallReleases(j)'
    BY <1>2, <1>6 DEF FailToFinish
  <2>2. faults["report"] > 0 => faults'["report"] > 0
    BY <1>6 DEF FailToFinish, Fault
  <2> QED BY <1>6, <2>1, <2>2, ReasonStays DEF FailToFinish, Counters
<1>7. CASE Release(t, k)
  <2>1. j # JobOf(t) /\ slot[j] # "none" /\ UNCHANGED <<state, stalls, faults>>
    BY <1>7 DEF Release, ReleaseSlot, Counters
  <2>2. \A u \in Tokens \ {t} : delivery'[u] = delivery[u] /\ call'[u] = call[u]
    BY <1>7 DEF Release, Answer, Call, End
  <2>3. CallReleases(j) => CallReleases(j)'
    BY <2>1, <2>2 DEF CallReleases, JobOf
  <2> QED BY <2>1, <2>3, ReasonStays
<1>8. CASE LoseCall(t, k)
  BY <1>8 DEF LoseCall, Fault
<1> QED BY <1>3, <1>4, <1>5, <1>6, <1>7, <1>8 DEF Complete

\* Steps of BullMQ and of the clock keep the reason of a finished job.
LEMMA ReturnClock ==
  ASSUME Base, ReturnInv, NEW i \in Jobs,
         TakeJob(i) \/ Promote(i) \/ ExpireDead(i) \/ ExpireLive(i) \/ ScanStalled(i)
         \/ AgeSlot(i)
  PROVE  ReturnInv'
<1> SUFFICES ASSUME NEW j \in Jobs, state'[j] \in Finished, slot'[j] # "none"
             PROVE  CallReleases(j)' \/ stalls'[j] > MaxStalls \/ faults'["report"] > 0
  BY DEF ReturnInv
<1> USE BrokerAssumption
<1> /\ state \in [Jobs -> States] /\ stalls \in [Jobs -> Nat]
    /\ slot \in [Jobs -> {"none", "held", "aged"}]
    /\ faults \in [Faults -> Nat] /\ {"report", "lapse", "score"} \subseteq Faults
  BY DEF Base, TypeOK, Faults
<1>1. state[j] \in Finished
  BY DEF TakeJob, Take, Promote, ExpireDead, ExpireLive, ScanStalled, AgeSlot, Finished
<1>2. slot[j] # "none"
  BY DEF TakeJob, Take, Promote, ExpireDead, ExpireLive, ScanStalled, AgeSlot
<1>3. stalls[j] > MaxStalls => stalls'[j] > MaxStalls
  BY DEF TakeJob, Take, Promote, ExpireDead, ExpireLive, ScanStalled, AgeSlot, Counters
<1>4. faults["report"] > 0 => faults'["report"] > 0
  BY DEF TakeJob, Take, Promote, ExpireDead, ExpireLive, ScanStalled, AgeSlot, Fault
<1>5. CallReleases(j) => CallReleases(j)'
  <2>1. CASE TakeJob(i)
    <3>1. PICK t \in Tokens : Take(i, t)
      BY <2>1 DEF TakeJob
    <3>2. Phase(t) # "reported" /\ UNCHANGED call
      BY <3>1 DEF Take, Free
    <3>3. \A u \in Tokens \ {t} : delivery'[u] = delivery[u]
      BY <3>1 DEF Take, Base, TypeOK
    <3> QED BY <3>2, <3>3, ReportsStay
  <2>2. CASE UNCHANGED <<delivery, call>>
    BY <2>2 DEF CallReleases, JobOf
  <2> QED
    BY <2>1, <2>2 DEF Promote, ExpireDead, ExpireLive, ScanStalled, AgeSlot
<1> QED BY <1>1, <1>2, <1>3, <1>4, <1>5, ReasonStays

(* A finished job gives its slot back, for any jobs, limit and faults: a   *)
(* release in a completeJob call is on its way, unless the job was failed  *)
(* for stalling too often or the API process of a call died.               *)
THEOREM FinishedJobsReturnTheirSlot == Spec => []SlotReturned
<1> DEFINE Inv == Base /\ HeldInv /\ FateInv /\ ReturnInv
<1>1. Init => Inv
  BY BaseInit DEF Init, HeldInv, FateInv, ReturnInv, Phase, Over, Finished
<1>2. Inv /\ [Next]_vars => Inv'
  <2> SUFFICES ASSUME Inv, [Next]_vars PROVE Inv'
    OBVIOUS
  <2>1. ReturnInv'
    <3>1. CASE UNCHANGED vars
      BY <3>1 DEF vars, ReturnInv, CallReleases, JobOf
    <3>2. CASE Next
      BY <3>2, ReturnDelivery, ReturnCall, ReturnClock DEF Next
    <3> QED BY <3>1, <3>2
  <2> QED BY <2>1, BaseNext, HeldNext, FateNext
<1>3. Inv => SlotReturned
  BY DEF ReturnInv, SlotReturned, CallReleases, ReleasePending, Releasing
<1> QED BY <1>1, <1>2, <1>3, PTL DEF Spec
=============================================================================
