----------------------- MODULE RunsMetadataQueueProofs -----------------------
(* Proofs about RunsMetadataQueue for every bound, from QueueAssumption. *)
EXTENDS RunsMetadataQueue, TLAPS

Types == TypeOK /\ adding <= merged

\* A job that is there, one that is new and an empty snapshot have their types.
LEMMA JobTypes ==
  /\ Empty \in Snapshot /\ NoJob \in Job /\ NewJob \in Job
  /\ \A r \in Job, pc \in Alive : [r EXCEPT !.pc = pc] \in Job
  /\ \A r \in Job, pc \in Alive :
       [r EXCEPT !.pc = pc, !.snap = Empty, !.iter = 0] \in Job
<1>1. Empty \in Snapshot
  BY QueueAssumption DEF Empty, Snapshot
<1>2. NoJob \in Job
  BY <1>1, QueueAssumption DEF NoJob, Job
<1>3. ASSUME NEW r \in Job, NEW pc \in Alive PROVE [r EXCEPT !.pc = pc] \in Job
  BY <1>3 DEF Job
<1>4. ASSUME NEW r \in Job, NEW pc \in Alive
      PROVE  [r EXCEPT !.pc = pc, !.snap = Empty, !.iter = 0] \in Job
  <2>1. 0 \in 0 .. MaxIterations - 1
    BY QueueAssumption
  <2> QED BY <1>1, <1>4, <2>1 DEF Job
<1>5. NewJob \in Job
  BY <1>2, <1>3 DEF NewJob, Alive
<1> QED
  BY <1>1, <1>2, <1>3, <1>4, <1>5

\* The initial state has its types.
LEMMA TypesInit == Init => Types
<1> SUFFICES ASSUME Init PROVE Types
  OBVIOUS
<1>1. job \in [Jobs -> Job]
  BY JobTypes DEF Init
<1>2. merged \in 0 .. MaxUploads /\ adding \in 0 .. MaxUploads /\ row \in -1 .. MaxUploads
  BY QueueAssumption DEF Init, Absent
<1>3. /\ failures \in 0 .. MaxFailures /\ losses \in 0 .. MaxLosses
      /\ crashes \in 0 .. MaxCrashes /\ lapses \in 0 .. MaxLapses
  BY QueueAssumption DEF Init
<1> QED
  <2>0. Empty \in Snapshot
    BY JobTypes
  <2>1. hash \in Snapshot /\ adding <= merged
    BY <2>0 DEF Init
  <2> QED BY <1>1, <1>2, <1>3, <2>1 DEF Init, Types, TypeOK

\* Queue.add changes one free job and the key, if it changes anything.
LEMMA QueueAddTypes ==
  ASSUME key \in Jobs \cup {None}, NEW jobs \in [Jobs -> Job], QueueAdd(jobs)
  PROVE  job' \in [Jobs -> Job] /\ key' \in Jobs \cup {None}
BY JobTypes DEF QueueAdd

\* A step keeps the types, and no more uploaders are under way than updates merged.
LEMMA TypesNext == Types /\ [Next]_vars => Types'
<1> SUFFICES ASSUME Types, [Next]_vars PROVE Types'
  OBVIOUS
<1> USE DEF Types
<1>1. ASSUME NEW f \in BOOLEAN, Merge(f) PROVE Types'
  <2>1. hash' \in Snapshot
    BY <1>1, QueueAssumption DEF Merge, MergedHash, TypeOK, Snapshot
  <2>2. merged' \in 0 .. MaxUploads /\ adding' \in 0 .. MaxUploads /\ adding' <= merged'
    BY <1>1, QueueAssumption DEF Merge, TypeOK
  <2>3. ended' \in BOOLEAN
    BY <1>1 DEF Merge, TypeOK
  <2> QED BY <1>1, <2>1, <2>2, <2>3 DEF Merge, TypeOK, finish, faults
<1>2. CASE Add
  <2>1. job' \in [Jobs -> Job] /\ key' \in Jobs \cup {None}
    BY <1>2, QueueAddTypes DEF Add, TypeOK
  <2>2. merged \in 0 .. MaxUploads /\ adding \in 0 .. MaxUploads /\ MaxUploads \in Nat
    BY QueueAssumption DEF TypeOK
  <2>3. adding' \in 0 .. MaxUploads /\ adding' <= merged'
    BY <1>2, <2>2 DEF Add
  <2> QED BY <1>2, <2>1, <2>3 DEF Add, TypeOK, finish, faults
<1>3. CASE LoseUploader
  BY <1>3, QueueAssumption DEF LoseUploader, TypeOK, finish
<1>4. CASE LockLapses
  BY <1>4 DEF LockLapses, TypeOK, uploads, finish, faults
<1>5. CASE LoseLease
  <2>1. lapses \in 0 .. MaxLapses /\ MaxLapses \in Nat
    BY QueueAssumption DEF TypeOK
  <2>2. lapses' \in 0 .. MaxLapses
    BY <1>5, <2>1 DEF LoseLease
  <2> QED BY <1>5, <2>2 DEF LoseLease, TypeOK, uploads, finish
<1>6. CASE DeleteFlow
  BY <1>6, QueueAssumption DEF DeleteFlow, TypeOK, uploads, finish, faults, Absent
<1>7. ASSUME NEW j \in Jobs, Step(j) \/ Throw(j) \/ Crash(j) PROVE Types'
  <2> DEFINE r == job[j]
  <2>0. r \in Job
    BY DEF TypeOK
  <2>1. ASSUME NEW pc \in Alive, Goto(j, pc) \/ Leave(j, pc) PROVE job' \in [Jobs -> Job]
    <3> job \in [Jobs -> Job]
      BY DEF TypeOK
    <3>1. CASE Goto(j, pc)
      <4>1. [r EXCEPT !.pc = pc] \in Job
        BY <2>0, JobTypes
      <4>2. job' = [job EXCEPT ![j] = [r EXCEPT !.pc = pc]]
        BY <3>1 DEF Goto
      <4> HIDE DEF r
      <4> QED BY <4>1, <4>2
    <3>2. CASE Leave(j, pc)
      <4>1. [r EXCEPT !.pc = pc, !.snap = Empty, !.iter = 0] \in Job
        BY <2>0, JobTypes
      <4>2. job' = [job EXCEPT ![j] = [r EXCEPT !.pc = pc, !.snap = Empty, !.iter = 0]]
        BY <3>2 DEF Leave
      <4> HIDE DEF r
      <4> QED BY <4>1, <4>2
    <3> QED BY <2>1, <3>1, <3>2
  <2>a. {"lock", "read", "write", "consume", "drop", "after", "unkey", "recheck", "readd", "end",
         "waiting", "backoff", "stalled"} \subseteq Alive
    BY DEF Alive, Running, Holding
  <2>2. CASE Take(j)
    BY <2>2, <2>1, <2>a DEF Take, TypeOK, uploads, finish, faults
  <2>3. CASE TakeLock(j)
    BY <2>3, <2>1, <2>a DEF TakeLock, TypeOK, uploads, finish, faults
  <2>4. CASE Read(j)
    <3>1. [r EXCEPT !.pc = "write", !.snap = hash] \in Job
      BY <2>0, <2>a DEF TypeOK, Job
    <3>2. job' \in [Jobs -> Job]
      BY <2>4, <2>1, <3>1, <2>a DEF Read, TypeOK
    <3> QED BY <2>4, <3>2 DEF Read, TypeOK, uploads, finish, faults
  <2>5. CASE Write(j)
    <3>1. job' \in [Jobs -> Job]
      BY <2>5, <2>1, <2>a DEF Write
    <3>2. r.snap.v \in -1 .. MaxUploads
      <4>1. r.snap.v \in 0 .. MaxUploads /\ MaxUploads \in Nat
        BY <2>0, QueueAssumption DEF Job, Snapshot
      <4> QED BY <4>1
    <3>3. row' \in -1 .. MaxUploads
      BY <2>5, <3>2 DEF Write, TypeOK
    <3> QED BY <2>5, <3>1, <3>3 DEF Write, TypeOK, uploads, finish, faults
  <2>6. CASE Consume(j)
    <3>1. job' \in [Jobs -> Job]
      BY <2>6, <2>1, <2>a DEF Consume
    <3>2. hash' \in Snapshot
      BY <2>6, JobTypes DEF Consume, Consumed, TypeOK
    <3> QED BY <2>6, <3>1, <3>2 DEF Consume, TypeOK, finish, faults
  <2>7. CASE After(j)
    <3>1. ASSUME PassesAgain(j)
          PROVE  [r EXCEPT !.iter = r.iter + 1, !.pc = "read", !.snap = Empty] \in Job
      <4>1. r.iter + 1 \in 0 .. MaxIterations - 1
        <5>1. r.iter \in 0 .. MaxIterations - 1 /\ MaxIterations \in Nat
          BY <2>0, QueueAssumption DEF Job
        <5> QED BY <5>1, <3>1 DEF PassesAgain
      <4> QED BY <4>1, <2>0, <2>a, JobTypes DEF Job
    <3>2. job' \in [Jobs -> Job]
      BY <2>7, <2>1, <3>1, <2>a DEF After, TypeOK
    <3>3. announced' \in BOOLEAN
      BY <2>7, <2>0 DEF After, TypeOK, Job, Snapshot
    <3> QED BY <2>7, <3>2, <3>3 DEF After, TypeOK, uploads, faults
  <2>8. CASE RemoveKey(j)
    BY <2>8, <2>1, <2>a DEF RemoveKey, KeyAfterDrain, TypeOK, uploads, finish, faults
  <2>9. CASE Recheck(j)
    BY <2>9, <2>1, <2>a DEF Recheck, TypeOK, uploads, finish, faults
  <2>10. CASE Readd(j)
    <3>1. [job EXCEPT ![j].pc = "end"] \in [Jobs -> Job]
      BY <2>0, <2>a, JobTypes DEF TypeOK
    <3>2. job' \in [Jobs -> Job] /\ key' \in Jobs \cup {None}
      BY <2>10, <3>1, QueueAddTypes DEF Readd, TypeOK
    <3> QED BY <2>10, <3>2 DEF Readd, TypeOK, uploads, finish, faults
  <2>11. CASE Complete(j)
    BY <2>11, JobTypes DEF Complete, Unlocked, KeyWithout, TypeOK, uploads, finish, faults
  <2>12. CASE Retry(j)
    BY <2>12, <2>1, <2>a DEF Retry, TypeOK, uploads, finish, faults
  <2>13. CASE Redeliver(j)
    BY <2>13, <2>1, <2>a DEF Redeliver, TypeOK, uploads, finish, faults
  <2>16. CASE FailStalled(j)
    BY <2>16, JobTypes DEF FailStalled, KeyWithout, TypeOK, uploads, finish, faults
  <2>14. CASE Throw(j)
    <3>1. ASSUME r.attempts + 1 < Attempts
          PROVE  [NoJob EXCEPT !.pc = "backoff", !.attempts = r.attempts + 1,
                               !.stalls = r.stalls] \in Job
      <4>1. r.attempts + 1 \in 0 .. Attempts - 1
        <5>1. r.attempts \in 0 .. Attempts - 1 /\ Attempts \in Nat
          BY <2>0, QueueAssumption DEF Job
        <5> QED BY <5>1, <3>1
      <4> QED BY <4>1, <2>0, <2>a, JobTypes DEF Job
    <3>2. job' \in [Jobs -> Job]
      BY <2>14, <3>1, JobTypes DEF Throw, TypeOK
    <3>3. key' \in Jobs \cup {None} /\ lock' \in Jobs \cup {None}
      BY <2>14 DEF Throw, KeyAfterFailure, KeyWithout, Unlocked, TypeOK
    <3>4. skipped' \in BOOLEAN
      BY <2>14, <2>0 DEF Throw, SkippedAt, TypeOK, Job, Snapshot
    <3>5. failures' \in 0 .. MaxFailures
      <4>1. failures \in 0 .. MaxFailures /\ MaxFailures \in Nat
        BY QueueAssumption DEF TypeOK
      <4> QED BY <4>1, <2>14 DEF Throw
    <3>6. orphaned' \in BOOLEAN
      BY <2>14 DEF Throw, TypeOK
    <3> QED BY <2>14, <3>2, <3>3, <3>4, <3>5, <3>6 DEF Throw, TypeOK, uploads
  <2>15. CASE Crash(j)
    <3> DEFINE next == [NoJob EXCEPT !.pc = "stalled", !.attempts = r.attempts,
                                     !.stalls = r.stalls + 1]
    <3>0. next \in Job /\ job' = [job EXCEPT ![j] = next]
      <4>1. r.attempts \in 0 .. Attempts - 1 /\ r.stalls + 1 \in Nat
        BY <2>0 DEF Job
      <4>2. next \in Job
        BY <4>1, <2>a, JobTypes DEF Job
      <4>3. job' = [job EXCEPT ![j] = next]
        BY <2>15 DEF Crash
      <4> QED BY <4>2, <4>3
    <3>1. job' \in [Jobs -> Job]
      BY <3>0 DEF TypeOK
    <3>2. skipped' \in BOOLEAN
      BY <2>15, <2>0 DEF Crash, SkippedAt, TypeOK, Job, Snapshot
    <3>3. crashes' \in 0 .. MaxCrashes
      <4>1. crashes \in 0 .. MaxCrashes /\ MaxCrashes \in Nat
        BY QueueAssumption DEF TypeOK
      <4> QED BY <4>1, <2>15 DEF Crash
    <3> QED BY <2>15, <3>1, <3>2, <3>3 DEF Crash, TypeOK, uploads
  <2> QED
    BY <1>7, <2>2, <2>3, <2>4, <2>5, <2>6, <2>7, <2>8, <2>9, <2>10, <2>11, <2>12,
       <2>13, <2>14, <2>15, <2>16 DEF Step
<1>8. CASE UNCHANGED vars
  BY <1>8 DEF vars, TypeOK, uploads, finish, faults
<1> QED
  BY <1>1, <1>2, <1>3, <1>4, <1>5, <1>6, <1>7, <1>8 DEF Next

\* The variables keep their types.
THEOREM TypeCorrect == Spec => []TypeOK
<1>1. Spec => []Types
  BY TypesInit, TypesNext, PTL DEF Spec
<1> QED
  BY <1>1, PTL DEF Types

-----------------------------------------------------------------------------
(* What the actions do to the jobs *)

\* The numbers and flags the invariants compare.
LEMMA Numbers ==
  ASSUME Types
  PROVE  /\ merged \in Nat /\ adding \in Nat /\ row \in Int /\ hash.v \in Nat
         /\ \A j \in Jobs : /\ job[j] \in Job /\ job[j].snap \in Snapshot
                           /\ job[j].snap.v \in Nat
<1>1. merged \in Nat /\ adding \in Nat /\ row \in Int
  BY QueueAssumption DEF Types, TypeOK
<1>2. \A s \in Snapshot : s.v \in Nat
  BY QueueAssumption DEF Snapshot
<1>3. \A j \in Jobs : job[j] \in Job /\ job[j].snap \in Snapshot
  BY DEF Types, TypeOK, Job
<1> QED
  BY <1>1, <1>2, <1>3 DEF Types, TypeOK

\* Goto moves one job and keeps its snapshot; Leave empties it.
LEMMA Moves ==
  ASSUME Types, NEW j \in Jobs, NEW pc
  PROVE  /\ Goto(j, pc) => /\ job'[j].pc = pc /\ job'[j].snap = job[j].snap
                           /\ \A k \in Jobs \ {j} : job'[k] = job[k]
         /\ Leave(j, pc) => /\ job'[j].pc = pc /\ job'[j].snap = Empty
                            /\ \A k \in Jobs \ {j} : job'[k] = job[k]
BY DEF Types, TypeOK, Job, Goto, Leave

\* Queue.add turns a free job into a new one that holds the key, or does nothing.
LEMMA QueueAdds ==
  ASSUME NEW jobs \in [Jobs -> Job], QueueAdd(jobs)
  PROVE  \/ /\ key # None /\ key' = key /\ job' = jobs
         \/ \E n \in Jobs : /\ key = None /\ key' = n /\ jobs[n].pc = "gone"
                          /\ job'[n].pc = "waiting" /\ job'[n].snap = Empty
                          /\ \A k \in Jobs \ {n} : job'[k] = jobs[k]
<1>1. NewJob.pc = "waiting" /\ NewJob.snap = Empty
  BY DEF NewJob, NoJob
<1> QED
  BY <1>1 DEF QueueAdd

\* Where a step takes its job, and with which snapshot; Readd is apart.
LEMMA Places ==
  ASSUME Types, NEW j \in Jobs
  PROVE  /\ Take(j) => job'[j].pc = "lock" /\ job'[j].snap = job[j].snap
         /\ TakeLock(j) => job'[j].pc = "read" /\ job'[j].snap = job[j].snap
         /\ Read(j) => IF hash.v = 0 THEN job'[j].pc = "unkey" /\ job'[j].snap = Empty
                                     ELSE job'[j].pc = "write" /\ job'[j].snap = hash
         /\ Write(j) => job'[j].pc \in {"consume", "drop"} /\ job'[j].snap = job[j].snap
         /\ Consume(j) => IF job[j].pc = "consume"
                          THEN job'[j].pc = "after" /\ job'[j].snap = job[j].snap
                          ELSE job'[j].pc = "unkey" /\ job'[j].snap = Empty
         /\ After(j) => job'[j].pc \in {"read", "unkey"} /\ job'[j].snap = Empty
         /\ RemoveKey(j) => job'[j].pc = "recheck" /\ job'[j].snap = job[j].snap
         /\ Recheck(j) => /\ job'[j].pc = IF hash.v = 0 THEN "end" ELSE "readd"
                          /\ job'[j].snap = job[j].snap
         /\ Complete(j) \/ FailStalled(j) => job'[j].pc = "gone" /\ job'[j].snap = Empty
         /\ Retry(j) \/ Redeliver(j) => /\ job'[j].pc = "waiting"
                                        /\ job'[j].snap = job[j].snap
         /\ Throw(j) => /\ job'[j].snap = Empty
                        /\ job'[j].pc = IF job[j].attempts + 1 < Attempts THEN "backoff"
                                                                         ELSE "gone"
         /\ Crash(j) => job'[j].pc = "stalled" /\ job'[j].snap = Empty
<1>1. /\ Take(j) => job'[j].pc = "lock" /\ job'[j].snap = job[j].snap
      /\ TakeLock(j) => job'[j].pc = "read" /\ job'[j].snap = job[j].snap
      /\ RemoveKey(j) => job'[j].pc = "recheck" /\ job'[j].snap = job[j].snap
      /\ Recheck(j) => /\ job'[j].pc = IF hash.v = 0 THEN "end" ELSE "readd"
                       /\ job'[j].snap = job[j].snap
      /\ Retry(j) \/ Redeliver(j) => job'[j].pc = "waiting" /\ job'[j].snap = job[j].snap
      /\ Write(j) => job'[j].pc \in {"consume", "drop"} /\ job'[j].snap = job[j].snap
      /\ Consume(j) => IF job[j].pc = "consume"
                       THEN job'[j].pc = "after" /\ job'[j].snap = job[j].snap
                       ELSE job'[j].pc = "unkey" /\ job'[j].snap = Empty
  BY Moves DEF Take, TakeLock, RemoveKey, Recheck, Retry, Redeliver, Write, Consume
<1>2. Read(j) => IF hash.v = 0 THEN job'[j].pc = "unkey" /\ job'[j].snap = Empty
                               ELSE job'[j].pc = "write" /\ job'[j].snap = hash
  BY Moves DEF Read, Types, TypeOK, Job
<1>3. After(j) => job'[j].pc \in {"read", "unkey"} /\ job'[j].snap = Empty
  BY Moves DEF After, Types, TypeOK, Job
<1>4. Complete(j) \/ FailStalled(j) => job'[j].pc = "gone" /\ job'[j].snap = Empty
  BY DEF Complete, FailStalled, NoJob, Types, TypeOK
<1>5. Throw(j) => /\ job'[j].snap = Empty
                  /\ job'[j].pc = IF job[j].attempts + 1 < Attempts THEN "backoff" ELSE "gone"
  <2> DEFINE next == [NoJob EXCEPT !.pc = "backoff", !.attempts = job[j].attempts + 1,
                                   !.stalls = job[j].stalls]
  <2>1. /\ NoJob.snap = Empty /\ NoJob.pc = "gone"
        /\ next.snap = Empty /\ next.pc = "backoff"
    BY DEF NoJob
  <2>2. Throw(j) => job'[j] = IF job[j].attempts + 1 < Attempts THEN next ELSE NoJob
    BY DEF Throw, Types, TypeOK
  <2> QED BY <2>1, <2>2
<1>6. Crash(j) => job'[j].pc = "stalled" /\ job'[j].snap = Empty
  <2> DEFINE next == [NoJob EXCEPT !.pc = "stalled", !.attempts = job[j].attempts,
                                   !.stalls = job[j].stalls + 1]
  <2>1. next.snap = Empty /\ next.pc = "stalled"
    BY DEF NoJob
  <2>2. Crash(j) => job'[j] = next
    BY DEF Crash, Types, TypeOK
  <2> QED BY <2>1, <2>2
<1> QED
  BY <1>1, <1>2, <1>3, <1>4, <1>5, <1>6

\* A step of one job leaves the others; Readd may add one.
LEMMA OthersStay ==
  ASSUME Types, NEW j \in Jobs, Step(j) \/ Throw(j) \/ Crash(j), ~Readd(j)
  PROVE  \A k \in Jobs \ {j} : job'[k] = job[k]
<1>1. CASE Take(j) \/ TakeLock(j) \/ RemoveKey(j) \/ Recheck(j) \/ Retry(j) \/ Redeliver(j)
  BY <1>1, Moves DEF Take, TakeLock, RemoveKey, Recheck, Retry, Redeliver
<1>2. CASE Write(j) \/ Consume(j)
  BY <1>2, Moves DEF Write, Consume
<1>3. CASE Read(j) \/ After(j)
  BY <1>3, Moves DEF Read, After, Types, TypeOK
<1>4. CASE Complete(j) \/ Throw(j) \/ Crash(j) \/ FailStalled(j)
  BY <1>4 DEF Complete, Throw, Crash, FailStalled, Types, TypeOK
<1> QED
  BY <1>1, <1>2, <1>3, <1>4 DEF Step

-----------------------------------------------------------------------------
(* Nothing in the hash is left without a look to come *)

Looking == Alive \ {"recheck", "readd", "end"}
KeyHeld == \A k \in Jobs : key = k => job[k].pc \in Looking

\* The job that holds the key has not freed it yet, and so has its last look to
\* come: an add that is ignored can rely on it.
LEMMA KeyHeldNext == Types /\ KeyHeld /\ [Next]_vars => KeyHeld'
<1> SUFFICES ASSUME Types, KeyHeld, [Next]_vars PROVE KeyHeld'
  OBVIOUS
<1>0. /\ {"lock", "read", "write", "consume", "drop", "after", "unkey", "waiting", "backoff",
           "stalled"} \subseteq Looking
      /\ "gone" \notin Looking /\ "recheck" \notin Looking
      /\ "readd" \notin Looking /\ "end" \notin Looking
  BY DEF Looking, Alive, Running, Holding
<1>1. CASE Add
  BY <1>1, <1>0, QueueAdds DEF Add, KeyHeld, Types, TypeOK
<1>2. CASE UNCHANGED <<job, key>>
  BY <1>2 DEF KeyHeld
<1>3. ASSUME NEW j \in Jobs, Step(j) \/ Throw(j) \/ Crash(j) PROVE KeyHeld'
  <2>1. CASE Readd(j)
    <3> DEFINE jobs == [job EXCEPT ![j].pc = "end"]
    <3>1. jobs \in [Jobs -> Job]
      BY JobTypes DEF Types, TypeOK, Alive, Running, Holding
    <3>2. key # j /\ \A k \in Jobs \ {j} : jobs[k] = job[k]
      BY <2>1, <1>0 DEF Readd, KeyHeld, Types, TypeOK
    <3>3. QueueAdd(jobs)
      BY <2>1 DEF Readd
    <3> HIDE DEF jobs
    <3> QED BY <3>1, <3>2, <3>3, <1>0, QueueAdds DEF KeyHeld
  <2>2. CASE ~Readd(j)
    <3>1. \A k \in Jobs \ {j} : job'[k] = job[k]
      BY <1>3, <2>2, OthersStay
    <3>2. \A k \in Jobs \ {j} : key' = k => key = k
      BY <1>3, <2>2, QueueAssumption
      DEF Step, Take, TakeLock, Read, Write, Consume, After, RemoveKey, KeyAfterDrain,
          Recheck, Complete, KeyWithout, Retry, Redeliver, FailStalled, Throw,
          KeyAfterFailure, Crash
    <3>3. key' = j => job'[j].pc \in Looking
      <4> SUFFICES ASSUME key' = j PROVE job'[j].pc \in Looking
        OBVIOUS
      <4>1. CASE RemoveKey(j) \/ Complete(j) \/ FailStalled(j)
        BY <4>1, QueueAssumption
        DEF RemoveKey, KeyAfterDrain, Complete, FailStalled, KeyWithout
      <4>2. CASE Throw(j)
        BY <4>2, <1>0, Places, QueueAssumption DEF Throw, KeyAfterFailure, KeyWithout
      <4>3. CASE Recheck(j)
        BY <4>3, <1>0 DEF Recheck, KeyHeld
      <4>4. CASE Take(j) \/ TakeLock(j) \/ Read(j) \/ Write(j) \/ Consume(j) \/ After(j)
                 \/ Retry(j) \/ Redeliver(j) \/ Crash(j)
        BY <4>4, <1>0, Places
      <4> QED BY <1>3, <2>2, <4>1, <4>2, <4>3, <4>4 DEF Step
    <3> QED BY <3>1, <3>2, <3>3 DEF KeyHeld
  <2> QED BY <2>1, <2>2
<1> QED
  BY <1>1, <1>2, <1>3 DEF Next, Merge, LoseUploader, LockLapses, LoseLease, DeleteFlow, vars

\* With the key's holder to rely on, the hash always has someone to store it.
LEMMA NoOrphanNext ==
  Types /\ KeyHeld /\ NoOrphanSnapshot /\ [Next]_vars => NoOrphanSnapshot'
<1> SUFFICES ASSUME Types, KeyHeld, NoOrphanSnapshot, [Next]_vars PROVE NoOrphanSnapshot'
  OBVIOUS
<1> DEFINE Covers == Alive \ {"end"}
<1>0. /\ {"lock", "read", "write", "consume", "drop", "after", "unkey", "recheck", "readd",
           "waiting", "backoff", "stalled"} \subseteq Covers
      /\ "gone" \notin Covers /\ "end" \notin Covers /\ Looking \subseteq Covers
  BY DEF Looking, Alive, Running, Holding
<1>a. hash.v # 0 => adding > 0 \/ orphaned \/ \E j \in Jobs : job[j].pc \in Covers
  BY DEF NoOrphanSnapshot
<1>b. SUFFICES hash'.v # 0 =>
        adding' > 0 \/ orphaned' \/ \E j \in Jobs : job'[j].pc \in Covers
  BY DEF NoOrphanSnapshot
<1> HIDE DEF Covers
<1>1. ASSUME NEW f \in BOOLEAN, Merge(f) PROVE adding' > 0
  BY <1>1, Numbers DEF Merge
<1>2. CASE Add
  <2>1. \/ \E n \in Jobs : job'[n].pc = "waiting"
        \/ key # None /\ job' = job
    BY <1>2, QueueAdds DEF Add, Types, TypeOK
  <2>2. key # None => \E k \in Jobs : job[k].pc \in Covers
    BY <1>0 DEF KeyHeld, Types, TypeOK
  <2> QED BY <2>1, <2>2, <1>0
<1>3. CASE LoseUploader
  BY <1>3 DEF LoseUploader
<1>4. CASE LockLapses \/ LoseLease \/ DeleteFlow \/ UNCHANGED vars
  BY <1>4, <1>a DEF LockLapses, LoseLease, DeleteFlow, vars, uploads
<1>5. ASSUME NEW j \in Jobs, Step(j) \/ Throw(j) \/ Crash(j)
      PROVE  hash'.v # 0 =>
               adding' > 0 \/ orphaned' \/ \E k \in Jobs : job'[k].pc \in Covers
  <2>1. CASE Readd(j)
    <3> DEFINE jobs == [job EXCEPT ![j].pc = "end"]
    <3>1. jobs \in [Jobs -> Job]
      BY JobTypes DEF Types, TypeOK, Alive, Running, Holding
    <3>2. \A k \in Jobs \ {j} : jobs[k] = job[k]
      BY DEF Types, TypeOK
    <3>3. QueueAdd(jobs) /\ key # j
      BY <2>1 DEF Readd, KeyHeld, Looking
    <3> HIDE DEF jobs
    <3>4. \/ \E n \in Jobs : job'[n].pc = "waiting"
          \/ key # None /\ job' = jobs
      BY <3>1, <3>3, QueueAdds
    <3>5. key # None => \E k \in Jobs \ {j} : job[k].pc \in Covers
      BY <3>3, <1>0 DEF KeyHeld, Types, TypeOK
    <3> QED BY <3>2, <3>4, <3>5, <1>0
  <2>2. CASE ~Readd(j)
    <3>1. \A k \in Jobs \ {j} : job'[k] = job[k]
      BY <1>5, <2>2, OthersStay
    <3>2. CASE Take(j) \/ TakeLock(j) \/ Read(j) \/ Write(j) \/ Consume(j) \/ After(j)
               \/ RemoveKey(j) \/ Retry(j) \/ Redeliver(j) \/ Crash(j)
      <4>1. job'[j].pc \in Covers
        BY <3>2, <1>0, Places
      <4> QED BY <4>1
    <3>3. CASE Recheck(j)
      BY <3>3, <1>0, Places DEF Recheck, uploads
    <3>4. CASE Complete(j)
      <4>1. job[j].pc \notin Covers /\ UNCHANGED <<hash, adding, orphaned>>
        BY <3>4, <1>0 DEF Complete, uploads
      <4> QED BY <4>1, <3>1, <1>a
    <3>5. CASE Throw(j)
      <4>1. orphaned' \/ job'[j].pc = "backoff"
        BY <3>5, Places DEF Throw
      <4> QED BY <4>1, <1>0
    <3>6. CASE FailStalled(j)
      BY <3>6 DEF FailStalled
    <3> QED BY <1>5, <2>2, <3>2, <3>3, <3>4, <3>5, <3>6 DEF Step
  <2> QED BY <2>1, <2>2
<1> QED
  BY <1>1, <1>2, <1>3, <1>4, <1>5 DEF Next

\* Whatever fails or lapses: what the hash holds has someone to store it, unless an
\* add was lost, or a job with its last attempt or for stalling too often, since the
\* last add.
THEOREM SomeoneStores == Spec => []NoOrphanSnapshot
<1>1. Init => KeyHeld /\ NoOrphanSnapshot
  BY QueueAssumption DEF Init, KeyHeld, NoOrphanSnapshot, Empty
<1>2. Spec => [](Types /\ KeyHeld /\ NoOrphanSnapshot)
  BY <1>1, TypesInit, TypesNext, KeyHeldNext, NoOrphanNext, PTL DEF Spec
<1> QED
  BY <1>2, PTL

-----------------------------------------------------------------------------
(* What a snapshot knows of the hash and the row *)

\* The hash holds the last update or nothing; a row has not outrun the updates, and
\* one that is missing can still be inserted from what the hash holds.
Sound ==
  /\ row <= merged /\ (gone => row = Absent)
  /\ hash.v \in {0, merged} /\ (hash.v = 0 => hash = Empty)
  /\ row = Absent /\ ~gone => merged = 0 \/ hash.creates

\* The snapshot of a job is no later than the hash, the same if it has its number,
\* inserts a missing row, and is dropped only for want of a flow.
Faithful(j) ==
  /\ job[j].snap.v <= merged
  /\ job[j].snap.v # 0 /\ job[j].snap.v = hash.v => job[j].snap.finish = hash.finish
  /\ job[j].pc = "write" => job[j].snap.v # 0
  /\ job[j].pc = "write" /\ row = Absent /\ ~gone => job[j].snap.creates
  /\ job[j].pc = "consume" => gone \/ row # Absent
  /\ job[j].pc = "drop" => gone

Data == Sound /\ \A j \in Jobs : Faithful(j)

\* A job that kept its place, while hash, row and updates stood, stays faithful.
LEMMA FaithfulStays ==
  ASSUME NEW j \in Jobs, Faithful(j), UNCHANGED <<merged, hash, row, gone>>,
         job'[j] = job[j]
  PROVE  Faithful(j)'
BY DEF Faithful

\* An empty snapshot is faithful wherever it says nothing.
LEMMA FaithfulEmpty ==
  ASSUME Types, NEW j \in Jobs, job'[j].snap = Empty, merged' = merged,
         job'[j].pc \notin {"write", "consume", "drop"}
  PROVE  Faithful(j)'
BY Numbers DEF Faithful, Empty

\* A step keeps the invariant, whoever holds the lock.
LEMMA DataNext == Types /\ Data /\ [Next]_vars => Data'
<1> SUFFICES ASSUME Types, Data, [Next]_vars PROVE Data'
  OBVIOUS
<1>0. Sound /\ \A j \in Jobs : Faithful(j)
  BY DEF Data
<1>1. ASSUME NEW f \in BOOLEAN, Merge(f) PROVE Data'
  <2>1. /\ hash'.v = merged + 1
        /\ hash.creates \/ (merged = 0 /\ row = Absent) => hash'.creates
    BY <1>1 DEF Merge, MergedHash
  <2>2. merged' = merged + 1 /\ UNCHANGED <<job, row, gone>>
    BY <1>1 DEF Merge
  <2>3. Sound'
    <3>1. hash'.v = merged' /\ hash'.v # 0 /\ row' <= merged' /\ (gone' => row' = Absent)
      BY <2>1, <2>2, <1>0, Numbers DEF Sound
    <3>2. row' = Absent /\ ~gone' => hash'.creates
      BY <2>1, <2>2, <1>0 DEF Sound
    <3> QED BY <3>1, <3>2 DEF Sound
  <2>4. ASSUME NEW j \in Jobs PROVE Faithful(j)'
    BY <2>1, <2>2, <1>0, Numbers DEF Faithful
  <2> QED BY <2>3, <2>4 DEF Data
<1>2. CASE Add
  <2>1. UNCHANGED <<merged, hash, row, gone>>
    BY <1>2 DEF Add
  <2>2. ASSUME NEW j \in Jobs PROVE Faithful(j)'
    <3>1. \/ job'[j] = job[j]
          \/ job'[j].pc = "waiting" /\ job'[j].snap = Empty
      BY <1>2, QueueAdds DEF Add, Types, TypeOK
    <3> QED BY <3>1, <2>1, <1>0, FaithfulStays, FaithfulEmpty
  <2> QED BY <2>1, <2>2, <1>0 DEF Data, Sound
<1>3. CASE LoseUploader \/ LockLapses \/ LoseLease \/ UNCHANGED vars
  <2>1. UNCHANGED <<merged, hash, row, gone, job>>
    BY <1>3 DEF LoseUploader, LockLapses, LoseLease, vars, uploads
  <2> QED BY <2>1, <1>0 DEF Data, Sound, Faithful
<1>4. CASE DeleteFlow
  <2>1. UNCHANGED <<merged, hash, job>> /\ gone' = TRUE /\ row' = Absent
    BY <1>4 DEF DeleteFlow, uploads
  <2>2. Absent <= merged
    BY Numbers DEF Absent
  <2> QED BY <2>1, <2>2, <1>0 DEF Data, Sound, Faithful
<1>5. ASSUME NEW j \in Jobs, Readd(j) PROVE Data'
  <2>1. UNCHANGED <<merged, hash, row, gone>>
    BY <1>5 DEF Readd, uploads
  <2> DEFINE jobs == [job EXCEPT ![j].pc = "end"]
  <2>2. jobs \in [Jobs -> Job]
    BY JobTypes DEF Types, TypeOK, Alive, Running, Holding
  <2>3. /\ \A k \in Jobs \ {j} : jobs[k] = job[k]
        /\ jobs[j].pc = "end" /\ jobs[j].snap = job[j].snap
    BY DEF Types, TypeOK, Job
  <2>4. QueueAdd(jobs)
    BY <1>5 DEF Readd
  <2> HIDE DEF jobs
  <2>5. ASSUME NEW k \in Jobs PROVE Faithful(k)'
    <3>1. \/ job'[k] = jobs[k]
          \/ job'[k].pc = "waiting" /\ job'[k].snap = Empty
      BY <2>2, <2>4, QueueAdds
    <3>2. CASE job'[k] = job[k]
      BY <3>2, <2>1, <1>0, FaithfulStays
    <3>3. CASE k = j /\ job'[k] = jobs[k]
      BY <3>3, <2>1, <2>3, <1>0 DEF Faithful
    <3>4. CASE job'[k].pc = "waiting" /\ job'[k].snap = Empty
      BY <3>4, <2>1, FaithfulEmpty
    <3> QED BY <3>1, <3>2, <3>3, <3>4, <2>3
  <2> QED BY <2>1, <2>5, <1>0 DEF Data, Sound
<1>6. ASSUME NEW j \in Jobs, Step(j) \/ Throw(j) \/ Crash(j), ~Readd(j) PROVE Data'
  <2>1. \A k \in Jobs \ {j} : job'[k] = job[k]
    BY <1>6, OthersStay
  <2>2. CASE Write(j)
    <3>1. UNCHANGED <<merged, hash, gone>>
      BY <2>2 DEF Write, uploads
    <3>2. job'[j].snap = job[j].snap /\ job[j].pc = "write"
      BY <2>2, Places DEF Write
    <3>3. \/ /\ row # Absent \/ ~gone
             /\ row' = job[j].snap.v /\ job'[j].pc = "consume"
          \/ /\ row = Absent /\ (gone \/ ~job[j].snap.creates)
             /\ row' = row /\ job'[j].pc = "drop"
      BY <2>2, Moves DEF Write
    <3>4. job[j].snap.v # Absent /\ job[j].snap.v <= merged
      BY Numbers, <1>0 DEF Absent, Faithful
    <3>5. Sound' /\ (row' = Absent => row = Absent)
      <4>1. CASE row' = row
        BY <4>1, <3>1, <1>0 DEF Sound
      <4>2. CASE ~gone /\ row' = job[j].snap.v
        BY <4>2, <3>1, <3>4, <1>0 DEF Sound
      <4> QED BY <3>3, <4>1, <4>2, <1>0 DEF Sound
    <3>6. Faithful(j)'
      BY <3>1, <3>2, <3>3, <3>4, <1>0 DEF Faithful
    <3>7. ASSUME NEW k \in Jobs \ {j} PROVE Faithful(k)'
      BY <3>1, <3>5, <2>1, <1>0 DEF Faithful
    <3> QED BY <3>5, <3>6, <3>7 DEF Data
  <2>3. CASE Consume(j)
    <3>1. UNCHANGED <<merged, row, gone>> /\ hash' \in {hash, Empty}
      BY <2>3 DEF Consume, Consumed
    <3>2. hash' = Empty => hash = Empty \/ gone \/ row # Absent
      BY <2>3, <1>0 DEF Consume, Consumed, Faithful
    <3>3. Empty.v = 0 /\ Empty.creates = FALSE
      BY DEF Empty
    <3>4. Sound'
      BY <3>1, <3>2, <3>3, <1>0 DEF Sound
    <3>5. ASSUME NEW k \in Jobs \ {j} PROVE Faithful(k)'
      BY <3>1, <3>3, <2>1, <1>0 DEF Faithful
    <3>6. Faithful(j)'
      <4>1. /\ job'[j].snap \in {job[j].snap, Empty} /\ Empty.v <= merged
            /\ job'[j].pc \notin {"write", "consume", "drop"}
        BY <2>3, <3>3, Places, Numbers
      <4> QED BY <4>1, <3>1, <3>3, <1>0 DEF Faithful
    <3> QED BY <3>4, <3>5, <3>6 DEF Data
  <2>4. CASE Read(j)
    <3>1. UNCHANGED <<merged, hash, row, gone>>
      BY <2>4 DEF Read, uploads
    <3>2. Faithful(j)'
      <4>1. CASE hash.v = 0
        BY <4>1, <2>4, <3>1, Places, FaithfulEmpty
      <4>2. CASE hash.v # 0
        BY <4>2, <2>4, <3>1, <1>0, Places, Numbers DEF Faithful, Sound
      <4> QED BY <4>1, <4>2
    <3> QED BY <3>1, <3>2, <2>1, <1>0, FaithfulStays DEF Data, Sound
  <2>5. CASE Take(j) \/ TakeLock(j) \/ After(j) \/ RemoveKey(j) \/ Recheck(j) \/ Complete(j)
             \/ Retry(j) \/ Redeliver(j) \/ FailStalled(j) \/ Throw(j) \/ Crash(j)
    <3>1. UNCHANGED <<merged, hash, row, gone>>
      BY <2>5 DEF Take, TakeLock, After, RemoveKey, Recheck, Complete, Retry, Redeliver,
                  FailStalled, Throw, Crash, uploads
    <3>2. /\ job'[j].pc \notin {"write", "consume", "drop"}
          /\ job'[j].snap \in {job[j].snap, Empty}
      BY <2>5, Places
    <3>3. Faithful(j)'
      <4>1. CASE job'[j].snap = Empty
        BY <4>1, <3>1, <3>2, FaithfulEmpty
      <4>2. CASE job'[j].snap = job[j].snap
        BY <4>2, <3>1, <3>2, <1>0 DEF Faithful
      <4> QED BY <3>2, <4>1, <4>2
    <3> QED BY <3>1, <3>3, <2>1, <1>0, FaithfulStays DEF Data, Sound
  <2> QED BY <1>6, <2>2, <2>3, <2>4, <2>5 DEF Step
<1> QED
  BY <1>1, <1>2, <1>3, <1>4, <1>5, <1>6 DEF Next

\* The invariant holds at first, with or without a row.
LEMMA DataInit == Init => Data
<1> SUFFICES ASSUME Init PROVE Data
  OBVIOUS
<1>1. Sound
  BY DEF Init, Sound, Absent, Empty
<1>2. ASSUME NEW j \in Jobs PROVE Faithful(j)
  <2>1. job[j] = NoJob /\ merged = 0
    BY <1>2 DEF Init
  <2>2. NoJob.pc = "gone" /\ NoJob.snap.v = 0
    BY DEF NoJob, Empty
  <2> QED BY <2>1, <2>2 DEF Faithful
<1> QED
  BY <1>1, <1>2 DEF Data

\* A job in the middle of a pass is not disturbed by an add.
LEMMA BusyStays ==
  ASSUME Types, NEW j \in Jobs, NEW k \in Jobs, job[k].pc # "gone",
         Add \/ (Readd(j) /\ k # j)
  PROVE  job'[k] = job[k]
<1>1. CASE Add
  BY <1>1, QueueAdds DEF Add, Types, TypeOK
<1>2. CASE Readd(j) /\ k # j
  <2> DEFINE jobs == [job EXCEPT ![j].pc = "end"]
  <2>1. jobs \in [Jobs -> Job] /\ jobs[k] = job[k]
    BY <1>2, JobTypes DEF Types, TypeOK, Alive, Running, Holding
  <2>2. QueueAdd(jobs)
    BY <1>2 DEF Readd
  <2> HIDE DEF jobs
  <2> QED BY <2>1, <2>2, QueueAdds
<1> QED
  BY <1>1, <1>2

\* The finishTime leaves the hash only with a snapshot that has it.
LEMMA FinishNext == Types /\ Data /\ FinishAnnounced /\ [Next]_vars => FinishAnnounced'
<1> SUFFICES ASSUME Types, Data, FinishAnnounced, [Next]_vars PROVE FinishAnnounced'
  OBVIOUS
<1> DEFINE Due(j) == job[j].pc = "after" /\ job[j].snap.finish
<1>0. ended /\ ~hash.finish => announced \/ skipped \/ gone \/ \E j \in Jobs : Due(j)
  BY DEF FinishAnnounced
<1>a. SUFFICES ASSUME ended', ~hash'.finish, ~announced', ~skipped', ~gone'
               PROVE  \E j \in Jobs : Due(j)'
  BY DEF FinishAnnounced
<1>1. ASSUME NEW f \in BOOLEAN, Merge(f) PROVE \E j \in Jobs : Due(j)'
  <2>1. ended /\ ~hash.finish
    BY <1>1, <1>a DEF Merge, MergedHash
  <2> QED BY <1>1, <2>1, <1>0, <1>a DEF Merge, finish
<1>2. CASE Add
  <2>1. \E j \in Jobs : Due(j)
    BY <1>2, <1>0, <1>a DEF Add, finish
  <2>2. PICK j \in Jobs : Due(j)
    BY <2>1
  <2> QED BY <1>2, <2>2, BusyStays
<1>3. CASE LoseUploader \/ LockLapses \/ LoseLease \/ DeleteFlow \/ UNCHANGED vars
  <2>1. UNCHANGED <<hash, ended, announced, skipped, job>> /\ (gone => gone')
    BY <1>3 DEF LoseUploader, LockLapses, LoseLease, DeleteFlow, vars, uploads, finish
  <2> QED BY <2>1, <1>0, <1>a
<1>4. ASSUME NEW j \in Jobs, Step(j) \/ Throw(j) \/ Crash(j)
      PROVE  \E k \in Jobs : Due(k)'
  <2>1. CASE Consume(j)
    <3>0. UNCHANGED <<ended, announced, skipped, gone>>
      BY <2>1 DEF Consume, finish
    <3>1. \A k \in Jobs \ {j} : job'[k] = job[k]
      BY <2>1, <1>4, OthersStay DEF Consume, Readd
    <3>2. job[j].pc = "consume"
      BY <2>1, <3>0, <1>a DEF Consume, Data, Faithful
    <3>3. job'[j].pc = "after" /\ job'[j].snap = job[j].snap /\ ~Due(j)
      BY <2>1, <3>2, Places
    <3>4. CASE hash.finish
      <4>1. hash.v = job[j].snap.v /\ hash.v # 0
        BY <2>1, <3>4, <1>a DEF Consume, Consumed, Data, Sound, Empty
      <4> QED BY <4>1, <3>3, <3>4 DEF Data, Faithful
    <3>5. CASE ~hash.finish
      BY <3>5, <3>0, <3>1, <3>3, <1>0, <1>a
    <3> QED BY <3>4, <3>5
  <2>2. CASE After(j) \/ Throw(j) \/ Crash(j)
    <3>0. (announced => announced') /\ (skipped => skipped')
      <4>1. CASE After(j)
        BY <4>1 DEF After
      <4>2. CASE Throw(j)
        BY <4>2 DEF Throw, SkippedAt
      <4>3. CASE Crash(j)
        BY <4>3 DEF Crash, SkippedAt
      <4> QED BY <2>2, <4>1, <4>2, <4>3
    <3>1. UNCHANGED <<hash, ended, gone>>
      BY <2>2 DEF After, Throw, Crash, uploads
    <3>2. ~Due(j)
      BY <2>2, <1>a DEF After, Throw, Crash, SkippedAt
    <3>3. \A k \in Jobs \ {j} : job'[k] = job[k]
      <4>1. CASE After(j)
        BY <4>1, <1>4, OthersStay DEF After, Readd
      <4>2. CASE Throw(j)
        BY <4>2 DEF Throw, Types, TypeOK
      <4>3. CASE Crash(j)
        BY <4>3 DEF Crash, Types, TypeOK
      <4> QED BY <2>2, <4>1, <4>2, <4>3
    <3> QED BY <3>0, <3>1, <3>2, <3>3, <1>0, <1>a
  <2>3. CASE Readd(j)
    <3>1. UNCHANGED <<hash, ended, announced, skipped, gone>> /\ ~Due(j)
      BY <2>3 DEF Readd, uploads, finish
    <3>2. PICK k \in Jobs \ {j} : Due(k)
      BY <3>1, <1>0, <1>a
    <3> QED BY <2>3, <3>2, BusyStays
  <2>4. CASE Take(j) \/ TakeLock(j) \/ Read(j) \/ Write(j) \/ RemoveKey(j) \/ Recheck(j)
             \/ Complete(j) \/ Retry(j) \/ Redeliver(j) \/ FailStalled(j)
    <3>1. UNCHANGED <<hash, ended, announced, skipped, gone>> /\ ~Due(j) /\ ~Readd(j)
      BY <2>4 DEF Take, TakeLock, Read, Write, RemoveKey, Recheck, Complete, Retry, Redeliver,
                  FailStalled, Readd, uploads, finish
    <3>2. \A k \in Jobs \ {j} : job'[k] = job[k]
      BY <1>4, <3>1, OthersStay
    <3> QED BY <3>1, <3>2, <1>0, <1>a
  <2> QED BY <1>4, <2>1, <2>2, <2>3, <2>4 DEF Step
<1> QED
  BY <1>1, <1>2, <1>3, <1>4 DEF Next

\* Whatever fails or lapses: the finish side effects run once the finishTime has left
\* the hash, unless an attempt stopped between the consume and them.
THEOREM FinishRuns == Spec => []FinishAnnounced
<1>1. Init => FinishAnnounced
  BY DEF Init, FinishAnnounced
<1>2. Spec => [](Types /\ Data /\ FinishAnnounced)
  BY <1>1, TypesInit, TypesNext, DataInit, DataNext, FinishNext, PTL DEF Spec
<1> QED
  BY <1>2, PTL

-----------------------------------------------------------------------------
(* Under the lock *)

OneHolder == \A j \in Jobs : job[j].pc \in Holding => lock = j

\* The row has not passed a snapshot yet to be written, and holds one yet to be
\* consumed.
Fresh(j) ==
  /\ job[j].pc = "write" => row <= job[j].snap.v
  /\ job[j].pc = "consume" => gone \/ row = job[j].snap.v

\* What the lock is for, while no lease has lapsed under its holder.
Locked == (lapses = 0 => OneHolder /\ \A j \in Jobs : Fresh(j)) /\ NothingDropped

\* While no lease lapses under its holder, one job at a time is in the handler.
LEMMA OneHolderNext ==
  ASSUME lapses' = 0, Types, OneHolder, [Next]_vars
  PROVE  OneHolder'
<1>0. /\ "lock" \notin Holding /\ "waiting" \notin Holding /\ "backoff" \notin Holding
      /\ "stalled" \notin Holding /\ "gone" \notin Holding
      /\ {"read", "write", "consume", "drop", "after", "unkey", "recheck", "readd", "end"}
           \subseteq Holding
  BY DEF Holding
<1>1. ~LoseLease
  BY QueueAssumption DEF LoseLease, Types, TypeOK
<1>2. CASE Add
  <2>1. \A k \in Jobs : job'[k] = job[k] \/ job'[k].pc = "waiting"
    BY <1>2, QueueAdds DEF Add, Types, TypeOK
  <2> QED BY <1>2, <2>1, <1>0 DEF Add, OneHolder
<1>3. CASE LockLapses
  BY <1>3, <1>0 DEF LockLapses, OneHolder
<1>4. CASE UNCHANGED <<job, lock>>
  BY <1>4 DEF OneHolder
<1>5. ASSUME NEW j \in Jobs, Step(j) \/ Throw(j) \/ Crash(j) PROVE OneHolder'
  <2>1. CASE Readd(j)
    <3>1. lock' = lock /\ lock = j
      BY <2>1, <1>0 DEF Readd, OneHolder
    <3>2. \A k \in Jobs \ {j} : job'[k] = job[k] \/ job'[k].pc = "waiting"
      <4> DEFINE jobs == [job EXCEPT ![j].pc = "end"]
      <4>1. jobs \in [Jobs -> Job] /\ \A k \in Jobs \ {j} : jobs[k] = job[k]
        BY JobTypes DEF Types, TypeOK, Alive, Running, Holding
      <4>2. QueueAdd(jobs)
        BY <2>1 DEF Readd
      <4> HIDE DEF jobs
      <4> QED BY <4>1, <4>2, QueueAdds
    <3> QED BY <3>1, <3>2, <1>0 DEF OneHolder
  <2>2. CASE ~Readd(j)
    <3>1. \A k \in Jobs \ {j} : job'[k] = job[k]
      BY <1>5, <2>2, OthersStay
    <3>2. CASE TakeLock(j)
      <4>1. \A k \in Jobs : job[k].pc \notin Holding
        BY <3>2, QueueAssumption DEF TakeLock, LockIsFree, OneHolder
      <4> QED BY <4>1, <3>1, <3>2 DEF TakeLock, OneHolder
    <3>3. CASE Read(j) \/ Write(j) \/ Consume(j) \/ After(j) \/ RemoveKey(j) \/ Recheck(j)
      <4>1. job[j].pc \in Holding /\ lock' = lock
        BY <3>3, <1>0 DEF Read, Write, Consume, After, RemoveKey, Recheck
      <4> QED BY <4>1, <3>1 DEF OneHolder
    <3>4. CASE Take(j) \/ Retry(j) \/ Redeliver(j) \/ FailStalled(j) \/ Crash(j)
      <4>1. job'[j].pc \notin Holding /\ lock' = lock
        BY <3>4, <1>0, Places DEF Take, Retry, Redeliver, FailStalled, Crash
      <4> QED BY <4>1, <3>1 DEF OneHolder
    <3>5. CASE Complete(j) \/ Throw(j)
      <4>1. job'[j].pc \notin Holding
        BY <3>5, <1>0, Places
      <4>2. lock' = lock \/ lock = j
        BY <3>5 DEF Complete, Throw, Unlocked
      <4> QED BY <4>1, <4>2, <3>1 DEF OneHolder
    <3> QED BY <1>5, <2>2, <3>2, <3>3, <3>4, <3>5 DEF Step
  <2> QED BY <2>1, <2>2
<1> QED
  BY <1>1, <1>2, <1>3, <1>4, <1>5 DEF Next, Merge, LoseUploader, DeleteFlow, vars

\* What an action does to row, hash and updates, as the contract sees it.
LEMMA RowChanges ==
  ASSUME [Next]_vars
  PROVE  \/ UNCHANGED <<row, gone, lapses>> /\ hash'.v = merged' /\ merged' = merged + 1
            /\ merged < MaxUploads /\ UNCHANGED job
         \/ DeleteFlow
         \/ \E j \in Jobs : Write(j) \/ Consume(j)
         \/ UNCHANGED <<row, gone, merged, hash>>
<1>1. ASSUME NEW f \in BOOLEAN, Merge(f)
      PROVE  /\ UNCHANGED <<row, gone, lapses>> /\ hash'.v = merged' /\ merged' = merged + 1
             /\ merged < MaxUploads /\ UNCHANGED job
  BY <1>1 DEF Merge, MergedHash, faults
<1>2. CASE Add \/ LoseUploader \/ LockLapses \/ LoseLease \/ UNCHANGED vars
  BY <1>2 DEF Add, LoseUploader, LockLapses, LoseLease, vars, uploads
<1>3. ASSUME NEW j \in Jobs, Step(j) \/ Throw(j) \/ Crash(j)
      PROVE  Write(j) \/ Consume(j) \/ UNCHANGED <<row, gone, merged, hash>>
  BY <1>3 DEF Step, Take, TakeLock, Read, After, RemoveKey, Recheck, Readd, Complete, Retry,
              Redeliver, FailStalled, Throw, Crash, uploads
<1> QED
  BY <1>1, <1>2, <1>3 DEF Next

\* Where a job that has a snapshot to write or to consume comes from.
LEMMA Arrivals ==
  ASSUME Types, [Next]_vars, NEW k \in Jobs, job'[k].pc \in {"write", "consume"}
  PROVE  job'[k] = job[k] \/ Read(k) \/ Write(k)
<1>1. CASE Add
  BY <1>1, QueueAdds DEF Add, Types, TypeOK
<1>2. CASE UNCHANGED job
  BY <1>2
<1>3. ASSUME NEW j \in Jobs, Step(j) \/ Throw(j) \/ Crash(j)
      PROVE  job'[k] = job[k] \/ Read(k) \/ Write(k)
  <2>1. CASE Readd(j)
    <3> DEFINE jobs == [job EXCEPT ![j].pc = "end"]
    <3>1. /\ jobs \in [Jobs -> Job] /\ jobs[j].pc = "end"
          /\ \A i \in Jobs \ {j} : jobs[i] = job[i]
      <4>1. jobs \in [Jobs -> Job]
        BY JobTypes DEF Types, TypeOK, Alive, Running, Holding
      <4>2. jobs[j].pc = "end" /\ \A i \in Jobs \ {j} : jobs[i] = job[i]
        BY DEF Types, TypeOK, Job
      <4> QED BY <4>1, <4>2
    <3>2. QueueAdd(jobs)
      BY <2>1 DEF Readd
    <3> HIDE DEF jobs
    <3> QED BY <3>1, <3>2, QueueAdds
  <2>2. CASE ~Readd(j)
    <3>1. CASE k # j
      BY <1>3, <2>2, <3>1, OthersStay
    <3>2. CASE k = j
      BY <1>3, <2>2, <3>2, Places DEF Step
    <3> QED BY <3>1, <3>2
  <2> QED BY <2>1, <2>2
<1> QED
  BY <1>1, <1>2, <1>3 DEF Next, Merge, LoseUploader, LockLapses, LoseLease, DeleteFlow, vars

\* With one job in the handler, what it read is not overtaken before it is written.
LEMMA FreshNext ==
  ASSUME Types, Data, OneHolder, \A j \in Jobs : Fresh(j), [Next]_vars, NEW k \in Jobs
  PROVE  Fresh(k)'
<1> SUFFICES ASSUME job'[k].pc \in {"write", "consume"} PROVE Fresh(k)'
  BY DEF Fresh
<1>1. CASE Read(k)
  <2>1. UNCHANGED <<row, gone>> /\ job'[k].pc = "write" /\ job'[k].snap.v = hash.v /\ hash.v # 0
    BY <1>1, Places DEF Read
  <2> QED BY <2>1 DEF Fresh, Data, Sound
<1>2. CASE Write(k)
  <2>1. job'[k].pc = "consume" /\ job'[k].snap = job[k].snap
    BY <1>2, Places
  <2>2. job'[k].pc = "drop" \/ row' = job[k].snap.v
    BY <1>2, Moves DEF Write
  <2> QED BY <2>1, <2>2 DEF Fresh
<1>3. CASE job'[k] = job[k] /\ ~Write(k)
  <2>1. ASSUME NEW j \in Jobs, Write(j) PROVE FALSE
    <3>1. job[j].pc \in Holding /\ job[k].pc \in Holding
      BY <1>3, <2>1 DEF Write, Holding
    <3> QED BY <1>3, <2>1, <3>1 DEF OneHolder
  <2>2. CASE DeleteFlow
    <3>1. gone' = TRUE /\ row' = -1
      BY <2>2 DEF DeleteFlow, Absent
    <3> QED BY <1>3, <3>1, Numbers DEF Fresh
  <2>3. CASE UNCHANGED <<row, gone>>
    BY <1>3, <2>3 DEF Fresh
  <2> QED BY <2>1, <2>2, <2>3, RowChanges DEF Consume
<1> QED
  BY <1>1, <1>2, <1>3, Arrivals

\* And no update leaves the hash without being in the row.
LEMMA NothingDroppedNext ==
  ASSUME Types, Data, \A j \in Jobs : Fresh(j), NothingDropped, [Next]_vars,
         lapses = 0
  PROVE  NothingDropped'
<1>1. CASE hash'.v = merged' /\ merged' = merged + 1
  BY <1>1, Numbers DEF NothingDropped
<1>2. CASE DeleteFlow
  BY <1>2 DEF DeleteFlow, NothingDropped
<1>3. ASSUME NEW j \in Jobs, Write(j) PROVE NothingDropped'
  <2>1. UNCHANGED <<merged, hash, gone>> /\ row' \in {row, job[j].snap.v}
    BY <1>3 DEF Write, uploads
  <2>2. row <= job[j].snap.v /\ job[j].snap.v <= merged
    BY <1>3 DEF Write, Fresh, Data, Faithful
  <2> QED BY <2>1, <2>2, Numbers DEF NothingDropped
<1>4. ASSUME NEW j \in Jobs, Consume(j) PROVE NothingDropped'
  <2>1. UNCHANGED <<merged, row, gone>>
    BY <1>4 DEF Consume
  <2>2. CASE hash' = hash
    BY <2>1, <2>2 DEF NothingDropped
  <2>3. CASE hash.v = job[j].snap.v /\ hash.v # 0
    <3>1. gone \/ row = job[j].snap.v
      BY <1>4 DEF Consume, Fresh, Data, Faithful
    <3> QED BY <2>1, <2>3, <3>1 DEF NothingDropped, Data, Sound
  <2> QED BY <1>4, <2>2, <2>3 DEF Consume, Consumed, Data, Sound
<1> QED
  BY <1>1, <1>2, <1>3, <1>4, RowChanges DEF NothingDropped

\* Leases that lapsed stay counted.
LEMMA LapsesGrow == Types /\ [Next]_vars => lapses' \in {lapses, lapses + 1} /\ lapses \in Nat
<1> SUFFICES ASSUME Types, [Next]_vars PROVE lapses' \in {lapses, lapses + 1}
  BY QueueAssumption DEF Types, TypeOK
<1>1. ASSUME NEW f \in BOOLEAN, Merge(f) PROVE lapses' = lapses
  BY <1>1 DEF Merge, faults
<1>2. CASE Add \/ LoseUploader \/ LockLapses \/ DeleteFlow \/ UNCHANGED vars
  BY <1>2 DEF Add, LoseUploader, LockLapses, DeleteFlow, vars, faults
<1>3. CASE LoseLease
  BY <1>3 DEF LoseLease
<1>4. ASSUME NEW j \in Jobs, Step(j) \/ Throw(j) \/ Crash(j) PROVE lapses' = lapses
  BY <1>4 DEF Step, Take, TakeLock, Read, Write, Consume, After, RemoveKey, Recheck, Readd,
              Complete, Retry, Redeliver, FailStalled, Throw, Crash, faults
<1> QED
  BY <1>1, <1>2, <1>3, <1>4 DEF Next

\* Under the lock the invariants hold together.
LEMMA LockedNext == Types /\ Data /\ Locked /\ [Next]_vars => Locked'
<1> SUFFICES ASSUME Types, Data, Locked, [Next]_vars PROVE Locked'
  OBVIOUS
<1>1. CASE lapses' = 0
  <2>1. lapses = 0
    BY <1>1, LapsesGrow
  <2>2. OneHolder /\ (\A j \in Jobs : Fresh(j)) /\ NothingDropped
    BY <2>1 DEF Locked
  <2>3. OneHolder' /\ NothingDropped'
    BY <1>1, <2>1, <2>2, OneHolderNext, NothingDroppedNext
  <2>4. ASSUME NEW j \in Jobs PROVE Fresh(j)'
    BY <2>2, FreshNext
  <2> QED BY <2>3, <2>4 DEF Locked
<1>2. CASE lapses' # 0
  BY <1>2 DEF Locked, NothingDropped
<1> QED BY <1>1, <1>2

\* The invariants hold at first.
LEMMA LockedInit == Init => Locked
<1>1. NoJob.pc = "gone"
  BY DEF NoJob
<1> QED
  BY <1>1 DEF Init, Locked, OneHolder, Fresh, NothingDropped, Holding

\* An update leaves the hash only for the row, while no lease lapses under its holder.
THEOREM UpdatesReachTheRow == Spec => []NothingDropped
<1>1. Types /\ Data /\ Locked /\ [Next]_vars => (Types /\ Data /\ Locked)'
  BY TypesNext, DataNext, LockedNext
<1>2. Spec => [](Types /\ Data /\ Locked)
  BY <1>1, TypesInit, DataInit, LockedInit, PTL DEF Spec
<1> QED
  BY <1>2, PTL DEF Locked

\* The queue implements RunRow, whose row never takes an earlier update after a
\* later one while no lease lapses under its holder.
THEOREM RowOnlyAdvances == Spec => RowContract
<1>1. Init => Contract!Init
  BY DEF Init, Contract!Init, Absent
<1>2. Types /\ Data /\ Locked /\ [Next]_vars => [Contract!Next]_(Contract!vars)
  <2> SUFFICES ASSUME Types, Data, Locked, [Next]_vars
               PROVE  [Contract!Next]_(Contract!vars)
    OBVIOUS
  <2>0. lapses' \in {lapses, lapses + 1} /\ lapses \in Nat
    BY LapsesGrow
  <2>1. CASE UNCHANGED <<row, gone>> /\ merged' = merged + 1 /\ merged < MaxUploads
             /\ UNCHANGED lapses
    BY <2>1 DEF Contract!Next, Contract!Accept
  <2>2. CASE DeleteFlow
    BY <2>2 DEF DeleteFlow, uploads, faults, Absent, Contract!Next, Contract!Delete
  <2>3. ASSUME NEW j \in Jobs, Write(j) PROVE [Contract!Next]_(Contract!vars)
    <3>1. UNCHANGED <<merged, gone, lapses>>
      BY <2>3 DEF Write, uploads, faults
    <3>2. \/ row' = row
          \/ ~gone /\ row' = job[j].snap.v
      BY <2>3 DEF Write, Data, Sound
    <3>3. /\ job[j].snap.v <= merged /\ job[j].snap.v \in Nat \ {0}
          /\ row <= job[j].snap.v \/ lapses > 0
      BY <2>0, <2>3, Numbers DEF Write, Locked, Fresh, Data, Faithful
    <3>4. CASE row' = row
      BY <3>1, <3>4 DEF Contract!vars
    <3>5. CASE ~gone /\ row' = job[j].snap.v /\ row' # row
      <4>1. row' \in 1 .. merged /\ (row' > row \/ lapses > 0)
        BY <3>3, <3>5, Numbers
      <4> QED BY <3>1, <3>5, <4>1 DEF Contract!Next, Contract!Store
    <3> QED BY <3>2, <3>4, <3>5
  <2>4. CASE UNCHANGED <<row, gone, merged>>
    <3>1. CASE lapses' = lapses
      BY <2>4, <3>1 DEF Contract!vars
    <3>2. CASE lapses' = lapses + 1
      BY <2>0, <2>4, <3>2 DEF Contract!Next, Contract!Lapse, Contract!vars
    <3> QED BY <2>0, <3>1, <3>2
  <2> QED BY <2>1, <2>2, <2>3, <2>4, RowChanges DEF Consume
<1>3. Types /\ Data /\ Locked /\ [Next]_vars => (Types /\ Data /\ Locked)'
  BY TypesNext, DataNext, LockedNext
<1> QED
  BY <1>1, <1>2, <1>3, TypesInit, DataInit, LockedInit, PTL
  DEF Spec, RowContract, Contract!Spec
=============================================================================
