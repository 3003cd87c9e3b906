------------------------- MODULE WorkerLeaseProofs -------------------------
(***************************************************************************)
(* Proofs about WorkerLease: type correctness, that the lock of a delivery *)
(* outlives its engine, and which deliveries may repeat steps.             *)
(***************************************************************************)
EXTENDS WorkerLease, TLAPS

\* Only the latest delivery can hold the lock; no later one has been made.
LatestInv ==
  /\ job = "active" => holder = next /\ next \in Deliveries
  /\ \A d \in Deliveries : d > next => pc[d] = "none"
  /\ \A d \in Deliveries : pc[d] = "none" => ~sent[d]

\* What the hand-over takes is missing from the lock, and no more.
HandOverInv ==
  \A d \in Deliveries : pc[d] = "handover" =>
    d = next /\ job = "active" /\ lock >= LockDuration - age[d]

\* The lock outlasts the deadline of an engine by the margin, less the hand-over.
EngineInv ==
  \A d \in Deliveries : pc[d] = "running" =>
    /\ d = next /\ job = "active" /\ left[d] >= -MaxLate
    /\ lock >= left[d] + LockDuration - TrustTime - MaxHandOver

\* A renewal granted stamps the lock no later than its sending stamps the lease.
GrantInv ==
  \A c \in Calls :
    /\ call[c].of \in Deliveries => pc[call[c].of] \notin {"none", "handover"}
    /\ call[c].at = "granted" /\ Owns(call[c].of) /\ EngineAlive(call[c].of) =>
         (call[c].age < MaxAge => lock >= LockDuration - call[c].age)

\* A report says retryable of an attempt that sent nothing, and one that the API
\* took for good ended the job at that delivery.
VerdictInv ==
  \A d \in Deliveries :
    /\ pc[d] = "completing" => result[d] \in Results
    /\ result[d] = "retryable" => ~sent[d] /\ pc[d] = "completing"
    /\ verdict[d] # "none" => pc[d] \in {"completing", "over"}
    /\ verdict[d] = "retryable" => ~sent[d]
    /\ verdict[d] \in {"ok", "final"} => job \in {"done", "failed"} /\ next = d

Inv == TypeOK /\ LatestInv /\ HandOverInv /\ EngineInv /\ GrantInv /\ VerdictInv

\* Time takes as much from the lock as from a lease, and no deadline passes unnoticed.
LEMMA TickKeeps ==
  ASSUME Inv, Tick
  PROVE  Inv'
<1> USE LeaseAssumption, MarginAssumption DEF Inv, TypeOK, Deliveries, Results
<1>1. TypeOK'
  <2>1. left' \in [Deliveries -> -MaxLate .. TrustTime]
    <3>1. ASSUME NEW d \in Deliveries, Counting(d)
          PROVE  left[d] > -MaxLate
      BY <3>1, SMTT(30) DEF Tick, Counting
    <3> QED BY <3>1, SMTT(30) DEF Tick
  <2>2. age' \in [Deliveries -> 0 .. MaxHandOver]
    BY SMTT(30) DEF Tick
  <2>3. call' \in [Calls -> [of : 0 .. Last, at : {"none", "sent", "granted", "refused"},
                             age : 0 .. MaxAge]]
    <3>1. \A c \in Calls : Older(call[c].age) \in 0 .. MaxAge
      BY DEF Older, MaxAge
    <3> QED BY <3>1 DEF Tick
  <2>4. lock' \in 0 .. LockDuration
    BY DEF Tick
  <2> QED BY <2>1, <2>2, <2>3, <2>4 DEF Tick
<1>2. LatestInv'
  BY DEF Tick, Counting, Older, EngineAlive, LatestInv, Owns
<1>3. HandOverInv'
  BY SMTT(30) DEF Tick, Counting, Older, EngineAlive, LatestInv, HandOverInv, Owns
<1>4. EngineInv'
  <2> SUFFICES ASSUME NEW d \in Deliveries, (pc[d] = "running")'
               PROVE  /\ d = next' /\ job' = "active" /\ left'[d] >= -MaxLate
                      /\ lock' >= left'[d] + LockDuration - TrustTime - MaxHandOver
    BY DEF EngineInv
  <2>1. /\ pc[d] = "running" /\ d = next /\ job = "active"
        /\ lock >= left[d] + LockDuration - TrustTime - MaxHandOver
    BY DEF Tick, EngineInv
  <2>2. left[d] > -MaxLate /\ left'[d] = left[d] - 1
    BY <2>1 DEF Tick, Counting, EngineAlive
  <2>3. lock \in Nat /\ left[d] \in Int /\ (lock > 0 => lock' = lock - 1)
    BY DEF Tick
  <2>4. lock > 0
    BY <2>1, <2>2, <2>3
  <2>5. job' = job /\ next' = next
    BY DEF Tick
  <2> QED BY <2>1, <2>2, <2>3, <2>4, <2>5
<1>5. GrantInv'
  <2> SUFFICES ASSUME NEW c \in Calls
               PROVE  /\ call'[c].of \in Deliveries =>
                           pc'[call'[c].of] \notin {"none", "handover"}
                      /\ (call[c].at = "granted")' /\ Owns(call[c].of)'
                            /\ EngineAlive(call[c].of)' =>
                           (call'[c].age < MaxAge => lock' >= LockDuration - call'[c].age)
    BY DEF GrantInv
  <2>1. /\ call'[c].of = call[c].of /\ call'[c].at = call[c].at
        /\ call'[c].age = IF Owns(call[c].of) THEN Older(call[c].age) ELSE call[c].age
    BY DEF Tick
  <2>2. pc' = pc /\ givenUp' = givenUp
    BY DEF Tick
  <2>3. ASSUME call[c].at = "granted", Owns(call[c].of), EngineAlive(call[c].of),
               Older(call[c].age) < MaxAge
        PROVE  lock' >= LockDuration - Older(call[c].age)
    <3>1. call[c].age \in Nat /\ call[c].age < MaxAge /\ Older(call[c].age) = call[c].age + 1
      BY <2>3 DEF Older, MaxAge
    <3>2. lock >= LockDuration - call[c].age
      BY <2>3, <3>1 DEF GrantInv
    <3>3. lock > 0
      BY <3>1, <3>2 DEF MaxAge
    <3> QED BY <3>1, <3>2, <3>3, SMTT(30) DEF Tick
  <2> QED BY <2>1, <2>2, <2>3 DEF GrantInv, Owns, EngineAlive
<1>6. VerdictInv'
  BY DEF Tick, Counting, Older, EngineAlive, LatestInv, EngineInv, HandOverInv, VerdictInv, Owns
<1> QED BY <1>1, <1>2, <1>3, <1>4, <1>5, <1>6 DEF Inv

\* A dequeue finds no delivery with an engine or on its way, for the job waits.
LEMMA DequeueKeeps ==
  ASSUME Inv, Dequeue
  PROVE  Inv'
<1> USE LeaseAssumption, MarginAssumption DEF Inv, TypeOK, Deliveries, Results
<1>1. TypeOK'
  BY SMTT(30) DEF Dequeue, lease, MaxAge
<1>2. LatestInv'
  BY DEF Dequeue, lease, LatestInv
<1>3. HandOverInv'
  BY DEF Dequeue, lease, LatestInv, HandOverInv
<1>4. EngineInv'
  BY DEF Dequeue, lease, LatestInv, HandOverInv, EngineInv, GrantInv, Owns, EngineAlive, MaxAge
<1>5. GrantInv'
  BY DEF Dequeue, lease, LatestInv, EngineInv, GrantInv, HandOverInv, Owns, EngineAlive, MaxAge
<1>6. VerdictInv'
  BY DEF Dequeue, lease, LatestInv, EngineInv, HandOverInv, VerdictInv
<1> QED BY <1>1, <1>2, <1>3, <1>4, <1>5, <1>6 DEF Inv

\* A stalled job has no live engine.
LEMMA StalledScanKeeps ==
  ASSUME Inv, StalledScan
  PROVE  Inv'
<1> USE LeaseAssumption, MarginAssumption DEF Inv, TypeOK, Deliveries, Results
<1>1. TypeOK'
  BY DEF StalledScan, Stalled, lease, run, MaxAge
<1>2. LatestInv'
  BY DEF StalledScan, Stalled, lease, run, LatestInv
<1>3. HandOverInv'
  BY DEF StalledScan, Stalled, lease, run, LatestInv, HandOverInv
<1>4. EngineInv'
  BY DEF StalledScan, Stalled, lease, run, LatestInv, HandOverInv, EngineInv, GrantInv, Owns, EngineAlive, MaxAge
<1>5. GrantInv'
  BY DEF StalledScan, Stalled, lease, run, LatestInv, EngineInv, GrantInv, HandOverInv, Owns, EngineAlive, MaxAge
<1>6. VerdictInv'
  BY DEF StalledScan, Stalled, lease, run, LatestInv, EngineInv, HandOverInv, VerdictInv
<1> QED BY <1>1, <1>2, <1>3, <1>4, <1>5, <1>6 DEF Inv

\* An extension only moves the lock ahead.
LEMMA ExtendLockKeeps ==
  ASSUME Inv, NEW c \in Calls, ExtendLock(c)
  PROVE  Inv'
<1> USE LeaseAssumption, MarginAssumption DEF Inv, TypeOK, Deliveries, Results
<1>1. TypeOK'
  <2>1. lock' \in 0 .. LockDuration
    BY DEF ExtendLock
  <2>2. call' \in [Calls -> [of : 0 .. Last, at : {"none", "sent", "granted", "refused"},
                             age : 0 .. MaxAge]]
    <3>1. PICK a \in {"granted", "refused"} : call' = [call EXCEPT ![c].at = a]
      BY DEF ExtendLock
    <3>2. [call[c] EXCEPT !.at = a] \in
            [of : 0 .. Last, at : {"none", "sent", "granted", "refused"}, age : 0 .. MaxAge]
      OBVIOUS
    <3> QED BY <3>1, <3>2
  <2> QED BY <2>1, <2>2 DEF ExtendLock, lease, run
<1>2. LatestInv'
  BY DEF ExtendLock, Holds, lease, run, LatestInv
<1>3. HandOverInv'
  BY SMTT(30) DEF ExtendLock, Holds, lease, run, LatestInv, HandOverInv
<1>4. EngineInv'
  <2>1. lock' >= lock /\ lock' \in Nat
    BY DEF ExtendLock
  <2>2. UNCHANGED <<pc, next, job, left>>
    BY DEF ExtendLock, lease, run
  <2>3. \A d \in Deliveries : left[d] \in Int
    OBVIOUS
  <2> QED BY <2>1, <2>2, <2>3 DEF EngineInv
<1>5. GrantInv'
  <2>1. lock' >= lock /\ lock' \in Nat /\ lock \in Nat
    BY DEF ExtendLock
  <2>2. \A e \in Calls : call'[e].of = call[e].of /\ call'[e].age = call[e].age
    <3>1. PICK a \in {"granted", "refused"} : call' = [call EXCEPT ![c].at = a]
      BY DEF ExtendLock
    <3> QED BY <3>1, SMTT(30)
  <2>3. \A e \in Calls : e # c => call'[e].at = call[e].at
    BY DEF ExtendLock
  <2>4. call'[c].at = "granted" => lock' = LockDuration
    BY DEF ExtendLock
  <2>5. pc' = pc /\ givenUp' = givenUp
    BY DEF ExtendLock, lease, run
  <2> SUFFICES ASSUME NEW e \in Calls
               PROVE  /\ call[e].of \in Deliveries => pc[call[e].of] \notin {"none", "handover"}
                      /\ call'[e].at = "granted" /\ Owns(call[e].of) /\ EngineAlive(call[e].of)
                           => (call[e].age < MaxAge => lock' >= LockDuration - call[e].age)
    BY <2>2, <2>5 DEF GrantInv, Owns, EngineAlive
  <2>6. call[e].age \in Nat
    BY DEF MaxAge
  <2>7. CASE e = c
    BY <2>4, <2>6, <2>7 DEF GrantInv
  <2>8. CASE e # c
    BY <2>1, <2>3, <2>6, <2>8 DEF GrantInv
  <2> QED BY <2>7, <2>8
<1>6. VerdictInv'
  BY DEF ExtendLock, Holds, lease, run, LatestInv, EngineInv, HandOverInv, VerdictInv
<1> QED BY <1>1, <1>2, <1>3, <1>4, <1>5, <1>6 DEF Inv

\* The lease begins with the hand-over taken from the lock.
LEMMA ReceiveKeeps ==
  ASSUME Inv, NEW d \in Deliveries, Receive(d)
  PROVE  Inv'
<1> USE LeaseAssumption, MarginAssumption DEF Inv, TypeOK, Deliveries, Results
<1>1. TypeOK'
  BY DEF Receive, api, MaxAge
<1>2. LatestInv'
  BY DEF Receive, api, LatestInv
<1>3. HandOverInv'
  BY DEF Receive, api, LatestInv, HandOverInv
<1>4. EngineInv'
  BY SMTT(30) DEF Receive, api, LatestInv, HandOverInv, EngineInv, GrantInv, Owns, EngineAlive, MaxAge
<1>5. GrantInv'
  BY DEF Receive, api, LatestInv, EngineInv, GrantInv, HandOverInv, Owns, EngineAlive, MaxAge
<1>6. VerdictInv'
  BY DEF Receive, api, LatestInv, EngineInv, HandOverInv, VerdictInv
<1> QED BY <1>1, <1>2, <1>3, <1>4, <1>5, <1>6 DEF Inv

\* A renewal is sent for a delivery its worker owns.
LEMMA RenewKeeps ==
  ASSUME Inv, NEW c \in Calls, NEW d \in Deliveries, Renew(c, d)
  PROVE  Inv'
<1> USE LeaseAssumption, MarginAssumption DEF Inv, TypeOK, Deliveries, Results
<1>1. TypeOK'
  BY DEF Renew, NoCall, api, lease, run, MaxAge, Owns
<1>2. LatestInv'
  BY DEF Renew, NoCall, api, lease, run, LatestInv, Owns
<1>3. HandOverInv'
  BY DEF Renew, NoCall, api, lease, run, LatestInv, HandOverInv, Owns
<1>4. EngineInv'
  BY DEF Renew, NoCall, api, lease, run, LatestInv, HandOverInv, EngineInv, GrantInv, Owns, EngineAlive, MaxAge
<1>5. GrantInv'
  BY DEF Renew, NoCall, api, lease, run, LatestInv, EngineInv, GrantInv, HandOverInv, Owns, EngineAlive, MaxAge
<1>6. VerdictInv'
  BY DEF Renew, NoCall, api, lease, run, LatestInv, EngineInv, HandOverInv, VerdictInv, Owns
<1> QED BY <1>1, <1>2, <1>3, <1>4, <1>5, <1>6 DEF Inv

\* A confirmation gives the lease no more than the extension gave the lock.
LEMMA ConfirmKeeps ==
  ASSUME Inv, NEW c \in Calls, Confirm(c)
  PROVE  Inv'
<1> USE LeaseAssumption, MarginAssumption DEF Inv, TypeOK, Deliveries, Results
<1>1. TypeOK'
  <2>1. left' \in [Deliveries -> -MaxLate .. TrustTime]
    <3>1. CASE UNCHANGED left
      BY <3>1
    <3>2. CASE /\ Owns(call[c].of) /\ FromSending(c) > left[call[c].of]
               /\ left' = [left EXCEPT ![call[c].of] = FromSending(c)]
      <4>1. FromSending(c) \in Int /\ FromSending(c) <= TrustTime
        BY DEF FromSending, MaxAge
      <4>2. call[c].of \in Deliveries /\ left[call[c].of] >= -MaxLate
        BY <3>2 DEF Owns
      <4>3. FromSending(c) \in -MaxLate .. TrustTime
        BY <3>2, <4>1, <4>2
      <4> QED BY <3>2, <4>3
    <3> QED BY <3>1, <3>2 DEF Confirm
  <2>2. call' \in [Calls -> [of : 0 .. Last, at : {"none", "sent", "granted", "refused"},
                             age : 0 .. MaxAge]]
    BY DEF Confirm, NoCall, MaxAge
  <2> QED BY <2>1, <2>2 DEF Confirm, api, run
<1>2. LatestInv'
  BY DEF Confirm, FromSending, NoCall, api, run, LatestInv, Owns
<1>3. HandOverInv'
  BY DEF Confirm, FromSending, NoCall, api, run, LatestInv, HandOverInv, Owns
<1>4. EngineInv'
  <2> SUFFICES ASSUME NEW d \in Deliveries, (pc[d] = "running")'
               PROVE  /\ d = next' /\ job' = "active" /\ left'[d] >= -MaxLate
                      /\ lock' >= left'[d] + LockDuration - TrustTime - MaxHandOver
    BY DEF EngineInv
  <2>1. /\ pc[d] = "running" /\ d = next /\ job = "active" /\ left[d] >= -MaxLate
        /\ lock >= left[d] + LockDuration - TrustTime - MaxHandOver
    BY DEF Confirm, EngineInv, run
  <2>2. UNCHANGED <<next, job, lock>>
    BY DEF Confirm, api
  <2>3. CASE d = call[c].of /\ Owns(d) /\ FromSending(c) > left[d]
    <3>1. left'[d] = TrustTime - call[c].age
      BY <2>3 DEF Confirm, FromSending
    <3>2. call[c].age \in Nat /\ left[d] \in Int /\ lock \in Nat
      BY DEF MaxAge
    <3>3. call[c].age < MaxAge
      BY <2>1, <2>3, <3>2 DEF FromSending, MaxAge
    <3>4. lock >= LockDuration - call[c].age
      BY <2>1, <2>3, <3>3 DEF Confirm, GrantInv, EngineAlive
    <3> QED BY <2>1, <2>2, <2>3, <3>1, <3>2, <3>4, SMTT(30) DEF FromSending
  <2>4. CASE ~(d = call[c].of /\ Owns(d) /\ FromSending(c) > left[d])
    <3>1. left'[d] = left[d]
      BY <2>4 DEF Confirm
    <3> QED BY <2>1, <2>2, <3>1
  <2> QED BY <2>3, <2>4
<1>5. GrantInv'
  BY DEF Confirm, FromSending, NoCall, api, run, LatestInv, EngineInv, GrantInv, HandOverInv, Owns, EngineAlive, MaxAge
<1>6. VerdictInv'
  BY DEF Confirm, FromSending, NoCall, api, run, LatestInv, EngineInv, HandOverInv, VerdictInv, Owns
<1> QED BY <1>1, <1>2, <1>3, <1>4, <1>5, <1>6 DEF Inv

\* A refusal only takes.
LEMMA RefuseKeeps ==
  ASSUME Inv, NEW c \in Calls, Refuse(c)
  PROVE  Inv'
<1> USE LeaseAssumption, MarginAssumption DEF Inv, TypeOK, Deliveries, Results
<1>1. TypeOK'
  <2>1. call' \in [Calls -> [of : 0 .. Last, at : {"none", "sent", "granted", "refused"},
                             age : 0 .. MaxAge]]
    BY DEF Refuse, NoCall, MaxAge
  <2>2. givenUp' \in [Deliveries -> BOOLEAN]
    BY ZenonT(30) DEF Refuse, GiveUp
  <2> QED BY <2>1, <2>2 DEF Refuse, api, run
<1>2. LatestInv'
  BY DEF Refuse, GiveUp, NoCall, api, run, LatestInv, Owns
<1>3. HandOverInv'
  BY DEF Refuse, GiveUp, NoCall, api, run, LatestInv, HandOverInv, Owns
<1>4. EngineInv'
  BY DEF Refuse, GiveUp, NoCall, api, run, LatestInv, HandOverInv, EngineInv, GrantInv, Owns, EngineAlive, MaxAge
<1>5. GrantInv'
  <2>1. \A e \in Calls : call'[e] = call[e] \/ call'[e] = NoCall
    BY DEF Refuse
  <2>2. \A d : Owns(d)' => Owns(d)
    BY ZenonT(30) DEF Refuse, GiveUp, Owns, run
  <2>3. pc' = pc /\ lock' = lock
    BY DEF Refuse, api, run
  <2> SUFFICES ASSUME NEW e \in Calls
               PROVE  /\ call'[e].of \in Deliveries =>
                           pc[call'[e].of] \notin {"none", "handover"}
                      /\ (call[e].at = "granted")' /\ Owns(call[e].of)'
                            /\ EngineAlive(call[e].of)' =>
                           (call'[e].age < MaxAge => lock >= LockDuration - call'[e].age)
    BY <2>3 DEF GrantInv
  <2>4. CASE call'[e] = call[e]
    BY <2>2, <2>3, <2>4 DEF GrantInv, EngineAlive
  <2>5. CASE call'[e] = NoCall
    BY <2>5 DEF NoCall
  <2> QED BY <2>1, <2>4, <2>5
<1>6. VerdictInv'
  BY DEF Refuse, GiveUp, NoCall, api, run, LatestInv, EngineInv, HandOverInv, VerdictInv, Owns
<1> QED BY <1>1, <1>2, <1>3, <1>4, <1>5, <1>6 DEF Inv

\* A lost call changes nothing else.
LEMMA LoseCallKeeps ==
  ASSUME Inv, NEW c \in Calls, LoseCall(c)
  PROVE  Inv'
<1> USE LeaseAssumption, MarginAssumption DEF Inv, TypeOK, Deliveries, Results
<1>1. TypeOK'
  BY DEF LoseCall, NoCall, api, lease, run, MaxAge
<1>2. LatestInv'
  BY DEF LoseCall, NoCall, api, lease, run, LatestInv
<1>3. HandOverInv'
  BY DEF LoseCall, NoCall, api, lease, run, LatestInv, HandOverInv
<1>4. EngineInv'
  BY DEF LoseCall, NoCall, api, lease, run, LatestInv, HandOverInv, EngineInv, GrantInv, Owns, EngineAlive, MaxAge
<1>5. GrantInv'
  BY DEF LoseCall, NoCall, api, lease, run, LatestInv, EngineInv, GrantInv, HandOverInv, Owns, EngineAlive, MaxAge
<1>6. VerdictInv'
  BY DEF LoseCall, NoCall, api, lease, run, LatestInv, EngineInv, HandOverInv, VerdictInv
<1> QED BY <1>1, <1>2, <1>3, <1>4, <1>5, <1>6 DEF Inv

\* A lease given up stays so.
LEMMA ExpireKeeps ==
  ASSUME Inv, NEW d \in Deliveries, Expire(d)
  PROVE  Inv'
<1> USE LeaseAssumption, MarginAssumption DEF Inv, TypeOK, Deliveries, Results
<1>1. TypeOK'
  BY DEF Expire, GiveUp, api, run, MaxAge, Owns
<1>2. LatestInv'
  BY DEF Expire, GiveUp, api, run, LatestInv, Owns
<1>3. HandOverInv'
  BY DEF Expire, GiveUp, api, run, LatestInv, HandOverInv, Owns
<1>4. EngineInv'
  BY DEF Expire, GiveUp, api, run, LatestInv, HandOverInv, EngineInv, GrantInv, Owns, EngineAlive, MaxAge
<1>5. GrantInv'
  BY DEF Expire, GiveUp, api, run, LatestInv, EngineInv, GrantInv, HandOverInv, Owns, EngineAlive, MaxAge
<1>6. VerdictInv'
  BY DEF Expire, GiveUp, api, run, LatestInv, EngineInv, HandOverInv, VerdictInv, Owns
<1> QED BY <1>1, <1>2, <1>3, <1>4, <1>5, <1>6 DEF Inv

\* So does one given up by a stop.
LEMMA AbandonKeeps ==
  ASSUME Inv, NEW d \in Deliveries, Abandon(d)
  PROVE  Inv'
<1> USE LeaseAssumption, MarginAssumption DEF Inv, TypeOK, Deliveries, Results
<1>1. TypeOK'
  BY DEF Abandon, GiveUp, api, run, MaxAge, Owns
<1>2. LatestInv'
  BY DEF Abandon, GiveUp, api, run, LatestInv, Owns
<1>3. HandOverInv'
  BY DEF Abandon, GiveUp, api, run, LatestInv, HandOverInv, Owns
<1>4. EngineInv'
  BY DEF Abandon, GiveUp, api, run, LatestInv, HandOverInv, EngineInv, GrantInv, Owns, EngineAlive, MaxAge
<1>5. GrantInv'
  BY DEF Abandon, GiveUp, api, run, LatestInv, EngineInv, GrantInv, HandOverInv, Owns, EngineAlive, MaxAge
<1>6. VerdictInv'
  BY DEF Abandon, GiveUp, api, run, LatestInv, EngineInv, HandOverInv, VerdictInv, Owns
<1> QED BY <1>1, <1>2, <1>3, <1>4, <1>5, <1>6 DEF Inv

\* A delivery that is over asks for nothing.
LEMMA KillKeeps ==
  ASSUME Inv, NEW d \in Deliveries, Kill(d)
  PROVE  Inv'
<1> USE LeaseAssumption, MarginAssumption DEF Inv, TypeOK, Deliveries, Results
<1>1. TypeOK'
  BY DEF Kill, Forget, api, MaxAge
<1>2. LatestInv'
  BY DEF Kill, Forget, api, LatestInv
<1>3. HandOverInv'
  BY DEF Kill, Forget, api, LatestInv, HandOverInv
<1>4. EngineInv'
  BY DEF Kill, Forget, api, LatestInv, HandOverInv, EngineInv, GrantInv, Owns, EngineAlive, MaxAge
<1>5. GrantInv'
  BY DEF Kill, Forget, api, LatestInv, EngineInv, GrantInv, HandOverInv, Owns, EngineAlive, MaxAge
<1>6. VerdictInv'
  BY DEF Kill, Forget, api, LatestInv, EngineInv, HandOverInv, VerdictInv
<1> QED BY <1>1, <1>2, <1>3, <1>4, <1>5, <1>6 DEF Inv

\* Nor does one whose process died.
LEMMA CrashKeeps ==
  ASSUME Inv, NEW d \in Deliveries, Crash(d)
  PROVE  Inv'
<1> USE LeaseAssumption, MarginAssumption DEF Inv, TypeOK, Deliveries, Results
<1>1. TypeOK'
  BY DEF Crash, Forget, api, MaxAge
<1>2. LatestInv'
  BY DEF Crash, Forget, api, LatestInv
<1>3. HandOverInv'
  BY DEF Crash, Forget, api, LatestInv, HandOverInv
<1>4. EngineInv'
  BY DEF Crash, Forget, api, LatestInv, HandOverInv, EngineInv, GrantInv, Owns, EngineAlive, MaxAge
<1>5. GrantInv'
  BY DEF Crash, Forget, api, LatestInv, EngineInv, GrantInv, HandOverInv, Owns, EngineAlive, MaxAge
<1>6. VerdictInv'
  BY DEF Crash, Forget, api, LatestInv, EngineInv, HandOverInv, VerdictInv
<1> QED BY <1>1, <1>2, <1>3, <1>4, <1>5, <1>6 DEF Inv

\* The operation goes out before any report.
LEMMA SendOperationKeeps ==
  ASSUME Inv, NEW d \in Deliveries, SendOperation(d)
  PROVE  Inv'
<1> USE LeaseAssumption, MarginAssumption DEF Inv, TypeOK, Deliveries, Results
<1>1. TypeOK'
  BY DEF SendOperation, api, lease, MaxAge
<1>2. LatestInv'
  BY DEF SendOperation, api, lease, LatestInv
<1>3. HandOverInv'
  BY DEF SendOperation, api, lease, LatestInv, HandOverInv
<1>4. EngineInv'
  BY DEF SendOperation, api, lease, LatestInv, HandOverInv, EngineInv, GrantInv, Owns, EngineAlive, MaxAge
<1>5. GrantInv'
  BY DEF SendOperation, api, lease, LatestInv, EngineInv, GrantInv, HandOverInv, Owns, EngineAlive, MaxAge
<1>6. VerdictInv'
  BY DEF SendOperation, api, lease, LatestInv, EngineInv, HandOverInv, VerdictInv
<1> QED BY <1>1, <1>2, <1>3, <1>4, <1>5, <1>6 DEF Inv

\* A report says retryable only of an attempt that sent nothing.
LEMMA ReturnKeeps ==
  ASSUME Inv, NEW d \in Deliveries, Return(d)
  PROVE  Inv'
<1> USE LeaseAssumption, MarginAssumption DEF Inv, TypeOK, Deliveries, Results
<1>1. TypeOK'
  BY DEF Return, ResultsOf, api, lease, MaxAge
<1>2. LatestInv'
  BY DEF Return, ResultsOf, api, lease, LatestInv
<1>3. HandOverInv'
  BY DEF Return, ResultsOf, api, lease, LatestInv, HandOverInv
<1>4. EngineInv'
  BY DEF Return, ResultsOf, api, lease, LatestInv, HandOverInv, EngineInv, GrantInv, Owns, EngineAlive, MaxAge
<1>5. GrantInv'
  BY DEF Return, ResultsOf, api, lease, LatestInv, EngineInv, GrantInv, HandOverInv, Owns, EngineAlive, MaxAge
<1>6. VerdictInv'
  BY DEF Return, ResultsOf, api, lease, LatestInv, EngineInv, HandOverInv, VerdictInv
<1> QED BY <1>1, <1>2, <1>3, <1>4, <1>5, <1>6 DEF Inv

\* A report changes the job only if it is the holder's.
LEMMA CompleteKeeps ==
  ASSUME Inv, NEW d \in Deliveries, Complete(d)
  PROVE  Inv'
<1> USE LeaseAssumption, MarginAssumption DEF Inv, TypeOK, Deliveries, Results
<1>1. /\ pc[d] = "completing" /\ result[d] \in Results
      /\ UNCHANGED <<givenUp, sent, call>>
      /\ Holds(d) => d = next
  BY DEF Complete, VerdictInv, Holds, LatestInv
<1>2. \A e \in Deliveries : /\ \/ pc'[e] = pc[e]
                               \/ e = d /\ pc'[e] = "over" /\ result'[e] = "none"
                            /\ pc[e] # "completing" => left'[e] = left[e] /\ age'[e] = age[e]
                            /\ result'[e] = result[e] \/ (e = d /\ result'[e] = "none")
                            /\ pc'[e] = "completing" => result'[e] = result[e]
                            /\ result'[e] = result[e] \/ pc'[e] = "over"
  BY <1>1, SMTT(30) DEF Complete, Forget
<1>3. /\ pc' \in [Deliveries -> {"none", "handover", "running", "completing", "over"}]
      /\ left' \in [Deliveries -> -MaxLate .. TrustTime]
      /\ age' \in [Deliveries -> 0 .. MaxHandOver]
      /\ result' \in [Deliveries -> Results \cup {"none"}]
  <2>1. CASE Forget(d)
    BY <2>1 DEF Forget
  <2>2. CASE UNCHANGED <<pc, left, age, result>>
    BY <2>2
  <2> QED BY <2>1, <2>2 DEF Complete
<1>4. CASE ~Holds(d)
  <2>1. UNCHANGED api
    BY <1>4 DEF Complete, Completes
  <2>2. TypeOK'
    BY <1>1, <1>3, <2>1 DEF api
  <2>3. LatestInv'
    BY <1>1, <1>2, <2>1 DEF api, LatestInv
  <2>4. HandOverInv'
    BY <1>1, <1>2, <2>1, SMTT(30) DEF api, HandOverInv
  <2>5. EngineInv'
    <3>1. \A e \in Deliveries : pc'[e] = "running" => pc[e] = "running" /\ left'[e] = left[e]
      BY <1>1, <1>2
    <3> QED BY <2>1, <3>1 DEF api, EngineInv
  <2>6. GrantInv'
    BY <1>1, <1>2, <2>1, SMTT(30) DEF api, GrantInv, Owns, EngineAlive
  <2>7. VerdictInv'
    <3>1. ASSUME NEW e \in Deliveries
          PROVE  /\ pc'[e] = "completing" => result'[e] \in Results
                 /\ result'[e] = "retryable" => ~sent'[e] /\ pc'[e] = "completing"
                 /\ verdict'[e] # "none" => pc'[e] \in {"completing", "over"}
                 /\ verdict'[e] = "retryable" => ~sent'[e]
                 /\ verdict'[e] \in {"ok", "final"} => job' \in {"done", "failed"} /\ next' = e
      <4>1. sent'[e] = sent[e]
        BY <1>1
      <4>2. verdict' = verdict /\ job' = job /\ next' = next
        BY <2>1 DEF api
      <4>3. pc'[e] = "completing" => result'[e] = result[e] /\ pc[e] = "completing"
        BY <1>2
      <4>4. result'[e] = "retryable" => result[e] = "retryable" /\ pc'[e] = pc[e]
        BY <1>1, <1>2
      <4>5. pc[e] \in {"completing", "over"} => pc'[e] \in {"completing", "over"}
        BY <1>2
      <4> QED BY <4>1, <4>2, <4>3, <4>4, <4>5 DEF VerdictInv
    <3> QED BY <3>1 DEF VerdictInv
  <2> QED BY <2>2, <2>3, <2>4, <2>5, <2>6, <2>7 DEF Inv
<1>5. CASE Holds(d)
  <2>1. /\ result[d] = "ok" => job' = "done"
        /\ result[d] = "final" => job' = "failed"
        /\ result[d] = "retryable" => job' = "waiting"
        /\ holder' = 0 /\ lock' = 0 /\ UNCHANGED <<stalls, next>>
        /\ verdict' = [verdict EXCEPT ![d] = result[d]]
    BY <1>5 DEF Complete, Completes
  <2>2. job = "active" /\ d = next
    BY <1>1, <1>5 DEF Holds
  <2>3. \A e \in Deliveries : pc[e] \notin {"handover", "running"}
    BY <1>1, <2>2 DEF HandOverInv, EngineInv
  <2>4. TypeOK'
    BY <1>1, <1>3, <2>1, SMTT(30)
  <2>5. LatestInv'
    BY <1>1, <1>2, <2>1 DEF LatestInv
  <2>6. HandOverInv'
    BY <1>1, <1>2, <2>3 DEF HandOverInv
  <2>7. EngineInv'
    BY <1>1, <1>2, <2>3 DEF EngineInv
  <2>8. GrantInv'
    BY <1>1, <1>2, <2>3, SMTT(30) DEF GrantInv, Owns, EngineAlive
  <2>9. VerdictInv'
    <3>1. ASSUME NEW e \in Deliveries
          PROVE  /\ pc'[e] = "completing" => result'[e] \in Results
                 /\ result'[e] = "retryable" => ~sent'[e] /\ pc'[e] = "completing"
                 /\ verdict'[e] # "none" => pc'[e] \in {"completing", "over"}
                 /\ verdict'[e] = "retryable" => ~sent'[e]
                 /\ verdict'[e] \in {"ok", "final"} => job' \in {"done", "failed"} /\ next' = e
      <4>1. sent'[e] = sent[e]
        BY <1>1
      <4>2. verdict[e] \notin {"ok", "final"}
        BY <2>2 DEF VerdictInv
      <4>3. pc'[e] = "completing" => result'[e] = result[e] /\ pc[e] = "completing"
        BY <1>2
      <4>4. result'[e] = "retryable" => result[e] = "retryable" /\ pc'[e] = pc[e]
        BY <1>1, <1>2
      <4>5. pc[e] \in {"completing", "over"} => pc'[e] \in {"completing", "over"}
        BY <1>2
      <4>6. CASE e = d
        <5>1. verdict'[e] = result[d]
          BY <2>1, <4>6
        <5> QED BY <1>1, <2>1, <2>2, <4>1, <4>3, <4>4, <4>5, <4>6, <5>1 DEF VerdictInv
      <4>7. CASE e # d
        <5>1. verdict'[e] = verdict[e]
          BY <2>1, <4>7
        <5> QED BY <4>1, <4>2, <4>3, <4>4, <4>5, <5>1 DEF VerdictInv
      <4> QED BY <4>6, <4>7
    <3> QED BY <3>1 DEF VerdictInv
  <2> QED BY <2>4, <2>5, <2>6, <2>7, <2>8, <2>9 DEF Inv
<1> QED BY <1>4, <1>5

-----------------------------------------------------------------------------
LEMMA Invariance == Spec => []Inv
<1> USE LeaseAssumption DEF Deliveries
<1>1. Init => Inv
  BY MarginAssumption DEF Init, Inv, TypeOK, LatestInv, HandOverInv, EngineInv, GrantInv,
     VerdictInv, NoCall, MaxAge, Results, Owns, EngineAlive
<1>2. Inv /\ [Next]_vars => Inv'
  <2> SUFFICES ASSUME Inv, [Next]_vars
               PROVE  Inv'
    OBVIOUS
  <2>1. CASE Tick \/ Dequeue \/ StalledScan
    BY <2>1, TickKeeps, DequeueKeeps, StalledScanKeeps
  <2>2. ASSUME NEW d \in Deliveries,
               \/ Receive(d) \/ Expire(d) \/ Abandon(d) \/ Kill(d) \/ Crash(d)
               \/ SendOperation(d) \/ Return(d) \/ Complete(d)
        PROVE  Inv'
    BY <2>2, ReceiveKeeps, ExpireKeeps, AbandonKeeps, KillKeeps, CrashKeeps,
       SendOperationKeeps, ReturnKeeps, CompleteKeeps
  <2>3. ASSUME NEW c \in Calls, ExtendLock(c) \/ Confirm(c) \/ Refuse(c) \/ LoseCall(c)
        PROVE  Inv'
    BY <2>3, ExtendLockKeeps, ConfirmKeeps, RefuseKeeps, LoseCallKeeps
  <2>4. ASSUME NEW c \in Calls, NEW d \in Deliveries, Renew(c, d)
        PROVE  Inv'
    BY <2>4, RenewKeeps
  <2>5. CASE UNCHANGED vars
    BY <2>5 DEF vars, Inv, TypeOK, LatestInv, HandOverInv, EngineInv, GrantInv, VerdictInv,
       Owns, EngineAlive
  <2> QED BY <2>1, <2>2, <2>3, <2>4, <2>5 DEF Next
<1> QED BY <1>1, <1>2, PTL DEF Spec

(* The variables keep their types. *)
THEOREM TypeCorrect == Spec => []TypeOK
<1>1. Inv => TypeOK
  BY DEF Inv
<1> QED BY <1>1, Invariance, PTL

(* A job is handed out again only once its engine is dead: renewals that  *)
(* the API granted moved the lock at least as far as the worker's trust.  *)
THEOREM OneEngineAtATime == Spec => []OneEngine
<1>1. Inv => OneEngine
  BY DEF Inv, EngineInv, OneEngine, EngineAlive
<1> QED BY <1>1, Invariance, PTL

(* A retryable failure is reported only of an attempt that sent nothing,  *)
(* so what a later delivery repeats was never reported by the earlier.    *)
THEOREM StepsRunTwiceOnlyAfterALoss == Spec => []RunAgainOnlyIfLost
<1>1. Inv => RunAgainOnlyIfLost
  <2> SUFFICES ASSUME Inv, NEW d \in Deliveries, NEW e \in Deliveries, d < e, sent[d], sent[e]
               PROVE  verdict[d] = "none"
    BY DEF RunAgainOnlyIfLost
  <2>1. next # d
    BY LeaseAssumption DEF Inv, TypeOK, LatestInv, Deliveries
  <2>2. verdict[d] \notin {"retryable", "ok", "final"}
    BY <2>1 DEF Inv, VerdictInv
  <2> QED BY <2>2 DEF Inv, TypeOK, Results
<1> QED BY <1>1, Invariance, PTL
=============================================================================
