--------------------------- MODULE WaitersProofs ---------------------------
(***************************************************************************)
(* Proofs about those who wait for an answer of the server: the workers    *)
(* that poll for jobs (QueueDispatcher), and the HTTP callers of a run     *)
(* (SyncAnswers). The two share nothing but this module.                   *)
(***************************************************************************)
EXTENDS QueueDispatcher, SyncAnswers, SequenceTheorems, TLAPS

-----------------------------------------------------------------------------
(* The workers that poll *)

\* The flag says whether a loop is running, and there is at most one.
LoopInv == OneLoop /\ (loopRunning <=> \E l \in Loops : Running(l))

\* The list holds exactly the polls that wait.
ListInv ==
  /\ OnlyWaitersInList
  /\ \A p \in Polls : poll[p].phase = "waiting" => \E i \in 1 .. Len(waiters) : waiters[i] = p

\* A list with a poll in it has a loop, and every job is where its holder says.
HandInv ==
  /\ waiters # <<>> => loopRunning
  /\ \A l \in Loops : loop[l].job # None <=> loop[l].phase \in {"carrying", "returning"}
  /\ \A p \in Polls : poll[p].phase = "returning" => poll[p].job # None
  /\ \A p \in Polls : poll[p].phase \in {"idle", "waiting"} => poll[p].job = None

Inv == TypeOK /\ LoopInv /\ ListInv /\ HandInv /\ JobsAccountedFor

\* Taking one element out of a list of distinct ones leaves the others in it.
LEMMA Spliced ==
  ASSUME NEW S, NEW s \in Seq(S), NEW i \in 1 .. Len(s)
  PROVE  /\ RemoveAt(s, i) \in Seq(S)
         /\ Len(RemoveAt(s, i)) = Len(s) - 1
         /\ \A k \in 1 .. Len(s) - 1 : RemoveAt(s, i)[k] = IF k < i THEN s[k] ELSE s[k + 1]
<1> DEFINE a == SubSeq(s, 1, i - 1)  b == SubSeq(s, i + 1, Len(s))
<1>1. a \in Seq(S) /\ Len(a) = i - 1 /\ \A k \in 1 .. i - 1 : a[k] = s[k]
  OBVIOUS
<1>2. b \in Seq(S) /\ Len(b) = Len(s) - i /\ \A k \in 1 .. Len(s) - i : b[k] = s[k + i]
  OBVIOUS
<1>3. RemoveAt(s, i) = a \o b
  BY DEF RemoveAt
<1> HIDE DEF a, b
<1>4. Len(a \o b) = Len(s) - 1 /\ a \o b \in Seq(S)
  <2>1. a \o b \in Seq(S) /\ Len(a \o b) = Len(a) + Len(b)
    BY <1>1, <1>2, ConcatProperties
  <2>2. Len(s) \in Nat /\ i \in Nat
    OBVIOUS
  <2> QED BY <1>1, <1>2, <2>1, <2>2
<1>5. ASSUME NEW k \in 1 .. Len(s) - 1
      PROVE  (a \o b)[k] = IF k < i THEN s[k] ELSE s[k + 1]
  <2>1. CASE k < i
    BY <1>1, <1>2, <2>1
  <2>2. CASE ~(k < i)
    <3>1. (a \o b)[k] = b[k - (i - 1)]
      BY <1>1, <1>2, <2>2
    <3>2. k - (i - 1) \in 1 .. Len(s) - i /\ k - (i - 1) + i = k + 1
      BY <2>2
    <3> QED BY <1>2, <2>2, <3>1, <3>2
  <2> QED BY <2>1, <2>2
<1> QED BY <1>3, <1>4, <1>5

\* Dropping a poll from the list keeps the list and the rest of the polls matched.
LEMMA Dropped ==
  ASSUME TypeOK, ListInv, NEW p \in Polls, NEW i \in 1 .. Len(waiters), waiters[i] = p,
         waiters' = RemoveAt(waiters, i),
         poll' \in [Polls -> PollStates], poll'[p].phase = "answered",
         \A q \in Polls \ {p} : poll'[q] = poll[q]
  PROVE  waiters' \in Seq(Polls) /\ ListInv'
<1>1. /\ waiters' \in Seq(Polls) /\ Len(waiters') = Len(waiters) - 1
      /\ \A k \in 1 .. Len(waiters) - 1 : waiters'[k] = IF k < i THEN waiters[k] ELSE waiters[k + 1]
  BY Spliced DEF TypeOK
<1>2. \A k \in 1 .. Len(waiters) : waiters[k] = p => k = i
  BY DEF ListInv, OnlyWaitersInList
<1>3. Len(waiters) \in Nat
  BY DEF TypeOK
<1>4. ASSUME NEW k \in 1 .. Len(waiters'), NEW m \in 1 .. Len(waiters')
      PROVE  /\ poll'[waiters'[k]].phase = "waiting"
             /\ waiters'[k] = waiters'[m] => k = m
  <2> DEFINE f(n) == IF n < i THEN n ELSE n + 1
  <2>1. /\ f(k) \in 1 .. Len(waiters) /\ f(m) \in 1 .. Len(waiters)
        /\ f(k) # i /\ f(m) # i /\ (f(k) = f(m) => k = m)
        /\ waiters'[k] = waiters[f(k)] /\ waiters'[m] = waiters[f(m)]
    BY <1>1, <1>3
  <2> HIDE DEF f
  <2>2. waiters[f(k)] \in Polls \ {p} /\ poll[waiters[f(k)]].phase = "waiting"
    BY <1>2, <2>1 DEF TypeOK, ListInv, OnlyWaitersInList
  <2>3. waiters[f(k)] = waiters[f(m)] => f(k) = f(m)
    BY <2>1 DEF ListInv, OnlyWaitersInList
  <2> QED BY <2>1, <2>2, <2>3
<1>5. ASSUME NEW q \in Polls, poll'[q].phase = "waiting"
      PROVE  \E k \in 1 .. Len(waiters') : waiters'[k] = q
  <2>1. q # p /\ poll[q].phase = "waiting"
    BY <1>5
  <2>2. PICK n \in 1 .. Len(waiters) : waiters[n] = q
    BY <2>1 DEF ListInv
  <2>3. n # i
    BY <2>1, <2>2
  <2>4. CASE n < i
    BY <1>1, <1>3, <2>2, <2>4
  <2>5. CASE n > i
    <3>1. n - 1 \in 1 .. Len(waiters') /\ waiters'[n - 1] = waiters[n]
      BY <1>1, <1>3, <2>5
    <3> QED BY <2>2, <3>1
  <2> QED BY <1>3, <2>3, <2>4, <2>5
<1> QED BY <1>1, <1>4, <1>5 DEF ListInv, OnlyWaitersInList

\* Jobs stay where they are when nobody's job and no place changes.
LEMMA JobsStay ==
  ASSUME JobsAccountedFor, UNCHANGED Places,
         \A p \in Polls : poll'[p].job = poll[p].job,
         \A l \in Loops : loop'[l].job = loop[l].job
  PROVE  JobsAccountedFor'
<1>1. \A j \in Jobs : Holders(j)' = Holders(j)
  BY DEF Holders
<1> QED BY <1>1 DEF JobsAccountedFor, Places

\* A job that a holder lets go of is put into one place.
LEMMA JobPut ==
  ASSUME JobsAccountedFor, DispatcherAssumption, NEW j \in Jobs, NEW h \in Holders(j),
         \A p \in Polls : poll'[p].job = IF p = h THEN None ELSE poll[p].job,
         \A l \in Loops : loop'[l].job = IF l = h THEN None ELSE loop[l].job,
         \/ queued' = queued \union {j} /\ UNCHANGED <<delivered, stranded>>
         \/ delivered' = delivered \union {j} /\ UNCHANGED <<queued, stranded>>
         \/ stranded' = stranded \union {j} /\ UNCHANGED <<queued, delivered>>
  PROVE  JobsAccountedFor'
<1>1. j \notin queued \union delivered \union stranded /\ Holders(j) = {h}
  BY DEF JobsAccountedFor
<1>2. h \in Polls \union Loops
  BY DEF Holders
<1>3. ASSUME NEW k \in Jobs, k # j PROVE Holders(k)' = Holders(k)
  <2>1. h \notin Holders(k)
    BY <1>1, <1>3, DispatcherAssumption DEF Holders
  <2> QED BY <1>3, <2>1, DispatcherAssumption DEF Holders
<1>4. Holders(j)' = {}
  BY <1>1, DispatcherAssumption DEF Holders
<1> QED BY <1>1, <1>3, <1>4 DEF JobsAccountedFor

\* A job that leaves the queue, or its holder, for a new holder is held once.
LEMMA JobHeld ==
  ASSUME JobsAccountedFor, NEW j \in Jobs, NEW h \in Polls \union Loops, Holders(j)' = {h},
         \A k \in Jobs \ {j} : Holders(k)' = Holders(k),
         queued' = queued \ {j}, j \notin delivered \union stranded,
         UNCHANGED <<delivered, stranded>>
  PROVE  JobsAccountedFor'
BY DEF JobsAccountedFor

\* The loop's steps that end or go on keep one loop and a true flag.
LEMMA LoopGoesOn ==
  ASSUME LoopInv, TypeOK, NEW l \in Loops, Running(l), Again(l)
  PROVE  LoopInv'
BY SMTT(30) DEF LoopInv, OneLoop, TypeOK, Running, Again, SetLoop

\* A step inside the loop leaves it the one that runs.
LEMMA LoopStays ==
  ASSUME LoopInv, TypeOK, NEW l \in Loops, Running(l), UNCHANGED loopRunning,
         NEW ph \in LoopPhases \ {"off"}, NEW j, SetLoop(l, ph, j)
  PROVE  LoopInv'
BY DEF LoopInv, OneLoop, TypeOK, Running, SetLoop

\* The invariant holds of a dispatcher that was just created.
LEMMA InvInit == Init => Inv
<1> SUFFICES ASSUME Init PROVE Inv
  OBVIOUS
<1> USE DispatcherAssumption DEF Init
<1>1. TypeOK
  <2>1. Idle \in PollStates /\ Off \in LoopStates
    BY DEF PollStates, LoopStates, PollPhases, LoopPhases, Idle, Off
  <2>2. poll \in [Polls -> PollStates] /\ loop \in [Loops -> LoopStates]
    BY <2>1
  <2>3. faults \in [Faults -> Nat]
    OBVIOUS
  <2>4. waiters \in Seq(Polls)
    BY EmptySeq
  <2>5. loopRunning \in BOOLEAN /\ closed \in BOOLEAN
    BY Zenon
  <2> QED BY <2>2, <2>3, <2>4, <2>5 DEF TypeOK
<1>2. LoopInv /\ ListInv /\ HandInv
  BY DEF LoopInv, OneLoop, ListInv, OnlyWaitersInList, HandInv, Running, Idle, Off
<1>3. JobsAccountedFor
  <2>1. \A j \in Jobs : Holders(j) = {}
    BY DEF Holders, Idle, Off
  <2> QED BY <2>1 DEF JobsAccountedFor
<1> QED BY <1>1, <1>2, <1>3 DEF Inv

\* Every step keeps the invariant.
LEMMA InvNext == Inv /\ [Next]_vars => Inv'
<1> SUFFICES ASSUME Inv, [Next]_vars PROVE Inv'
  OBVIOUS
<1> USE DispatcherAssumption
<1>a. TypeOK /\ LoopInv /\ ListInv /\ HandInv /\ JobsAccountedFor
  BY DEF Inv
<1>1. ASSUME NEW p \in Polls, Poll(p) PROVE Inv'
  <2>1. /\ poll[p].phase = "idle" /\ poll[p].job = None
        /\ poll' = [poll EXCEPT ![p] = [phase |-> "waiting", job |-> None, gone |-> poll[p].gone]]
        /\ waiters' = Append(waiters, p)
    BY <1>a, <1>1 DEF Poll, SetPoll, HandInv
  <2>2. poll' \in [Polls -> PollStates] /\ waiters' \in Seq(Polls)
    <3>1. [phase |-> "waiting", job |-> None, gone |-> poll[p].gone] \in PollStates
      BY <1>a DEF TypeOK, PollStates, PollPhases
    <3> QED BY <1>a, <2>1, <3>1 DEF TypeOK
  <2>3. loop' \in [Loops -> LoopStates] /\ loopRunning' = TRUE /\ LoopInv'
    <3>1. CASE loopRunning
      BY <1>a, <1>1, <3>1 DEF Poll, StartLoop, TypeOK, LoopInv, OneLoop, Running
    <3>2. CASE ~loopRunning
      <4>1. PICK l \in Loops : SetLoop(l, "asking", None)
        BY <1>1, <3>2 DEF Poll, StartLoop
      <4>2. loopRunning' = TRUE /\ \A m \in Loops : ~Running(m)
        BY <1>a, <1>1, <3>2 DEF Poll, StartLoop, LoopInv
      <4>3. [phase |-> "asking", job |-> None] \in LoopStates
        BY DEF LoopStates, LoopPhases
      <4>4. loop' \in [Loops -> LoopStates]
        BY <1>a, <4>1, <4>3 DEF SetLoop, TypeOK
      <4>5. LoopInv'
        BY <1>a, <4>1, <4>2 DEF SetLoop, TypeOK, LoopInv, OneLoop, Running
      <4> QED BY <4>2, <4>4, <4>5
    <3> QED BY <3>1, <3>2
  <2>4. ListInv'
    <3>1. \A i \in 1 .. Len(waiters) : waiters[i] # p
      BY <1>a, <2>1 DEF ListInv, OnlyWaitersInList
    <3>2. /\ Len(waiters') = Len(waiters) + 1 /\ waiters'[Len(waiters) + 1] = p
          /\ \A i \in 1 .. Len(waiters) : waiters'[i] = waiters[i]
          /\ Len(waiters) \in Nat
      BY <1>a, <2>1 DEF TypeOK
    <3>3. OnlyWaitersInList'
      BY <1>a, <2>1, <3>1, <3>2 DEF TypeOK, ListInv, OnlyWaitersInList, PollStates
    <3>4. ASSUME NEW q \in Polls, poll'[q].phase = "waiting"
          PROVE  \E i \in 1 .. Len(waiters') : waiters'[i] = q
      <4>1. CASE q = p
        BY <3>2, <4>1
      <4>2. CASE q # p
        <5>1. PICK i \in 1 .. Len(waiters) : waiters[i] = q
          BY <1>a, <2>1, <3>4, <4>2 DEF TypeOK, ListInv
        <5> QED BY <3>2, <5>1
      <4> QED BY <4>1, <4>2
    <3> QED BY <3>3, <3>4 DEF ListInv
  <2>5. \A m \in Loops : loop'[m].job = loop[m].job
                       /\ (loop'[m] = loop[m] \/ loop'[m] = [phase |-> "asking", job |-> None])
    <3>1. CASE loopRunning
      BY <1>1, <3>1 DEF Poll, StartLoop
    <3>2. CASE ~loopRunning
      <4>1. PICK l \in Loops : ~Running(l) /\ SetLoop(l, "asking", None)
        BY <1>1, <3>2 DEF Poll, StartLoop
      <4> QED BY <1>a, <4>1 DEF SetLoop, Running, HandInv, TypeOK
    <3> QED BY <3>1, <3>2
  <2>6. \A q \in Polls : poll'[q].job = poll[q].job
    BY <1>a, <2>1 DEF TypeOK, PollStates
  <2>7. JobsAccountedFor'
    BY <1>a, <1>1, <2>5, <2>6, JobsStay DEF Poll
  <2>8. HandInv'
    <3>1. \A l \in Loops : loop'[l].job # None <=> loop'[l].phase \in {"carrying", "returning"}
      BY <1>a, <2>5 DEF HandInv
    <3>2. \A q \in Polls : /\ poll'[q].phase = "returning" => poll'[q].job # None
                           /\ poll'[q].phase \in {"idle", "waiting"} => poll'[q].job = None
      BY <1>a, <2>1, <2>6 DEF HandInv, TypeOK, PollStates
    <3> QED BY <2>3, <3>1, <3>2 DEF HandInv
  <2>9. TypeOK'
    BY <1>a, <1>1, <2>2, <2>3 DEF TypeOK, Poll, Places
  <2> QED BY <2>3, <2>4, <2>7, <2>8, <2>9 DEF Inv
<1>2. ASSUME NEW p \in Polls, Timeout(p) \/ (Disconnect(p) /\ poll[p].phase = "waiting") PROVE Inv'
  <2>1. /\ poll[p].phase = "waiting" /\ poll[p].job = None
        /\ UNCHANGED <<Places, loopRunning, loop, closed>>
    BY <1>a, <1>2 DEF Timeout, Disconnect, HandInv
  <2>2. PICK i \in 1 .. Len(waiters) : waiters[i] = p /\ waiters' = RemoveAt(waiters, i)
    BY <1>2 DEF Timeout, DropWaiter, Disconnect
  <2>3. /\ poll' \in [Polls -> PollStates] /\ poll'[p].phase = "answered" /\ poll'[p].job = None
        /\ \A q \in Polls \ {p} : poll'[q] = poll[q]
    <3>1. CASE Timeout(p)
      <4>1. [phase |-> "answered", job |-> None, gone |-> poll[p].gone] \in PollStates
        BY <1>a DEF TypeOK, PollStates, PollPhases
      <4> QED BY <1>a, <3>1, <4>1 DEF Timeout, DropWaiter, SetPoll, TypeOK
    <3>2. CASE Disconnect(p)
      <4>1. [phase |-> "answered", job |-> None, gone |-> TRUE] \in PollStates
        BY DEF PollStates, PollPhases
      <4>2. poll' = [poll EXCEPT ![p] = [phase |-> "answered", job |-> None, gone |-> TRUE]]
        BY <2>1, <3>2 DEF Disconnect
      <4> QED BY <1>a, <4>1, <4>2 DEF TypeOK
    <3> QED BY <1>2, <3>1, <3>2
  <2>4. waiters' \in Seq(Polls) /\ ListInv'
    BY <1>a, <2>2, <2>3, Dropped
  <2>5. faults' \in [Faults -> Nat]
    <3> faults \in [Faults -> Nat]
      BY <1>a DEF TypeOK
    <3>1. CASE Timeout(p)
      BY <3>1 DEF Timeout
    <3>2. CASE Disconnect(p)
      <4>1. faults' = [faults EXCEPT !["disconnect"] = @ + 1]
        BY <3>2 DEF Disconnect, Fault
      <4>2. \A f \in Faults : faults'[f] \in Nat
        BY <4>1
      <4> QED BY <4>1, <4>2
    <3> QED BY <1>2, <3>1, <3>2
  <2>6. JobsAccountedFor'
    BY <1>a, <2>1, <2>3, JobsStay
  <2>7. HandInv'
    <3>1. waiters # <<>>
      BY <2>2, <1>a DEF TypeOK
    <3> QED BY <1>a, <2>1, <2>3, <3>1 DEF HandInv
  <2> QED BY <1>a, <2>1, <2>3, <2>4, <2>5, <2>6, <2>7
          DEF Inv, TypeOK, LoopInv, OneLoop, Running, Places
<1>3. ASSUME NEW p \in Polls, Disconnect(p), poll[p].phase # "waiting" PROVE Inv'
  <2>1. /\ poll' = [poll EXCEPT ![p].gone = TRUE] /\ Fault("disconnect")
        /\ UNCHANGED <<Places, waiters, loopRunning, loop, closed>>
    BY <1>3 DEF Disconnect
  <2>2. poll' \in [Polls -> PollStates]
    BY <1>a, <2>1 DEF TypeOK, PollStates
  <2>3. \A q \in Polls : poll'[q].job = poll[q].job /\ poll'[q].phase = poll[q].phase
    BY <1>a, <2>1 DEF TypeOK, PollStates
  <2>4. faults' \in [Faults -> Nat]
    BY <1>a, <2>1 DEF TypeOK, Fault, Faults
  <2>5. JobsAccountedFor'
    BY <1>a, <2>1, <2>3, JobsStay
  <2>6. ListInv' /\ HandInv'
    BY <1>a, <2>1, <2>3 DEF TypeOK, ListInv, OnlyWaitersInList, HandInv
  <2> QED BY <1>a, <2>1, <2>2, <2>4, <2>5, <2>6 DEF Inv, TypeOK, LoopInv, OneLoop, Running, Places
<1>4. ASSUME NEW p \in Polls, Reply(p) \/ ReturnReply(p) PROVE Inv'
  <2>1. poll[p].phase \in {"answered", "returning"} /\ UNCHANGED <<Dispatcher, closed>>
    BY <1>4 DEF Reply, ReturnReply
  <2>2. /\ poll' \in [Polls -> PollStates] /\ \A q \in Polls \ {p} : poll'[q] = poll[q]
        /\ \/ poll'[p] = Idle
           \/ poll'[p].phase = "returning" /\ poll'[p].job = poll[p].job /\ poll[p].job # None
    <3>1. Idle \in PollStates
      BY DEF Idle, PollStates, PollPhases
    <3>2. CASE poll' = [poll EXCEPT ![p] = Idle]
      BY <1>a, <3>1, <3>2 DEF TypeOK
    <3>3. CASE SetPoll(p, "returning", poll[p].job) /\ poll[p].job # None
      <4>1. [phase |-> "returning", job |-> poll[p].job, gone |-> poll[p].gone] \in PollStates
        BY <1>a DEF TypeOK, PollStates, PollPhases
      <4> QED BY <1>a, <3>3, <4>1 DEF SetPoll, TypeOK
    <3> QED BY <1>4, <3>2, <3>3 DEF Reply, ReturnReply
  <2>3. ListInv'
    <3>1. \A i \in 1 .. Len(waiters) : waiters[i] # p
      BY <1>a, <2>1 DEF ListInv, OnlyWaitersInList
    <3> QED BY <1>a, <2>1, <2>2, <3>1 DEF TypeOK, ListInv, OnlyWaitersInList, Idle, Dispatcher
  <2>4. HandInv'
    BY <1>a, <2>1, <2>2 DEF HandInv, Idle, Dispatcher
  <2>5. poll[p].job \in Jobs \union {None}
    BY <1>a DEF TypeOK, PollStates
  <2>6. queued' \subseteq Jobs /\ delivered' \subseteq Jobs /\ stranded' \subseteq Jobs
    <3>1. poll[p].phase = "returning" => poll[p].job \in Jobs
      BY <1>a, <2>5 DEF HandInv
    <3> QED BY <1>a, <1>4, <2>5, <3>1 DEF TypeOK, Reply, ReturnReply, PutBack
  <2>7. faults' \in [Faults -> Nat]
    BY <1>a, <1>4 DEF TypeOK, Reply, ReturnReply, PutBack, Fault
  <2>8. JobsAccountedFor'
    <3>1. \A l \in Loops : loop'[l].job = loop[l].job
      BY <2>1 DEF Dispatcher
    <3>2. CASE poll'[p].job = poll[p].job
      <4>1. UNCHANGED Places
        <5>1. poll[p].phase = "returning" => poll[p].job # None /\ poll'[p].job # None
          BY <1>a, <3>2 DEF HandInv
        <5>2. CASE ReturnReply(p)
          <6>1. poll'[p].job = None
            BY <1>a, <5>2 DEF ReturnReply, TypeOK, Idle
          <6> QED BY <5>1, <5>2, <6>1 DEF ReturnReply
        <5>3. CASE Reply(p) /\ poll[p].gone /\ poll[p].job # None
          BY <5>3 DEF Reply, Places
        <5>4. CASE Reply(p) /\ ~(poll[p].gone /\ poll[p].job # None)
          <6>1. poll' = [poll EXCEPT ![p] = Idle] /\ delivered' = delivered \union ({poll[p].job} \ {None})
            BY <5>4 DEF Reply
          <6>2. poll[p].job = None
            BY <1>a, <3>2, <6>1 DEF TypeOK, Idle
          <6> QED BY <5>4, <6>1, <6>2 DEF Reply, Places
        <5> QED BY <1>4, <5>2, <5>3, <5>4
      <4> QED BY <1>a, <2>2, <3>1, <3>2, <4>1, JobsStay
    <3>3. CASE poll'[p].job # poll[p].job
      <4> DEFINE j == poll[p].job
      <4>1. poll'[p].job = None /\ j \in Jobs /\ p \in Holders(j)
        BY <2>2, <2>5, <3>3 DEF Idle, Holders
      <4>2. \/ queued' = queued \union {j} /\ UNCHANGED <<delivered, stranded>>
            \/ delivered' = delivered \union {j} /\ UNCHANGED <<queued, stranded>>
            \/ stranded' = stranded \union {j} /\ UNCHANGED <<queued, delivered>>
        <5>1. CASE ReturnReply(p)
          BY <5>1 DEF ReturnReply, PutBack
        <5>2. CASE Reply(p)
          <6>1. ~(poll[p].gone /\ poll[p].job # None)
            BY <1>a, <3>3, <5>2 DEF Reply, SetPoll, TypeOK, PollStates
          <6> QED BY <4>1, <5>2, <6>1 DEF Reply
        <5> QED BY <1>4, <5>1, <5>2
      <4>3. \A q \in Polls : poll'[q].job = IF q = p THEN None ELSE poll[q].job
        BY <2>2, <4>1
      <4>4. \A l \in Loops : loop'[l].job = IF l = p THEN None ELSE loop[l].job
        BY <3>1
      <4> HIDE DEF j
      <4> QED BY <1>a, <4>1, <4>2, <4>3, <4>4, JobPut
    <3> QED BY <3>2, <3>3
  <2> QED BY <1>a, <2>1, <2>2, <2>3, <2>4, <2>6, <2>7, <2>8
          DEF Inv, TypeOK, LoopInv, OneLoop, Running, Dispatcher
<1>5. ASSUME NEW l \in Loops, NEW j \in Jobs, TakeJob(l, j) PROVE Inv'
  <2>1. /\ loop[l].phase = "asking" /\ j \in queued /\ loop[l].job = None
        /\ queued' = queued \ {j} /\ UNCHANGED <<delivered, stranded, waiters, poll, loopRunning>>
        /\ SetLoop(l, "carrying", j)
    BY <1>a, <1>5 DEF TakeJob, HandInv
  <2>2. [phase |-> "carrying", job |-> j] \in LoopStates
    BY DEF LoopStates, LoopPhases
  <2>3. /\ loop' \in [Loops -> LoopStates] /\ loop'[l].phase = "carrying" /\ loop'[l].job = j
        /\ \A m \in Loops \ {l} : loop'[m] = loop[m]
    BY <1>a, <2>1, <2>2 DEF SetLoop, TypeOK
  <2>4. TypeOK'
    BY <1>a, <1>5, <2>1, <2>3 DEF TypeOK, TakeJob
  <2>5. LoopInv'
    BY <1>a, <2>1, <2>3 DEF LoopInv, OneLoop, Running
  <2>6. ListInv' /\ HandInv'
    BY <1>a, <2>1, <2>3 DEF ListInv, OnlyWaitersInList, HandInv
  <2>7. Holders(j) = {} /\ j \notin delivered \union stranded
    BY <1>a, <2>1 DEF JobsAccountedFor
  <2>8. Holders(j)' = {l}
    BY <2>1, <2>3, <2>7 DEF Holders
  <2>9. \A k \in Jobs \ {j} : Holders(k)' = Holders(k)
    BY <2>1, <2>3 DEF Holders
  <2>10. JobsAccountedFor'
    BY <1>a, <2>1, <2>7, <2>8, <2>9, JobHeld
  <2> QED BY <2>4, <2>5, <2>6, <2>10 DEF Inv
<1>6. ASSUME NEW l \in Loops, Nothing(l) \/ WakeUp(l) \/ DequeueError(l) PROVE Inv'
  <2>1. /\ loop[l].phase \in {"asking", "sleeping"} /\ loop[l].job = None
        /\ UNCHANGED <<Places, waiters, poll, closed>>
        /\ Again(l) \/ (SetLoop(l, "sleeping", None) /\ UNCHANGED loopRunning)
    BY <1>a, <1>6 DEF Nothing, WakeUp, DequeueError, HandInv
  <2>2. PICK ph \in {"off", "asking", "sleeping"} : SetLoop(l, ph, None)
    BY <2>1 DEF Again
  <2>3. /\ loop' \in [Loops -> LoopStates] /\ \A m \in Loops \ {l} : loop'[m] = loop[m]
        /\ loop'[l].job = None /\ loop'[l].phase \in {"off", "asking", "sleeping"}
    <3>1. [phase |-> ph, job |-> None] \in LoopStates
      BY DEF LoopStates, LoopPhases
    <3> QED BY <1>a, <2>2, <3>1 DEF SetLoop, TypeOK
  <2>4. LoopInv' /\ loopRunning' \in BOOLEAN /\ (waiters # <<>> => loopRunning')
    <3>1. CASE Again(l)
      BY <1>a, <2>1, <3>1, LoopGoesOn DEF Running, Again, HandInv, TypeOK
    <3>2. CASE SetLoop(l, "sleeping", None) /\ UNCHANGED loopRunning
      BY <1>a, <2>1, <3>2, LoopStays DEF Running, LoopPhases, HandInv, TypeOK
    <3> QED BY <2>1, <3>1, <3>2
  <2>5. faults' \in [Faults -> Nat]
    BY <1>a, <1>6 DEF TypeOK, Nothing, WakeUp, DequeueError, Fault
  <2>6. JobsAccountedFor'
    BY <1>a, <2>1, <2>3, JobsStay
  <2>7. ListInv' /\ HandInv'
    BY <1>a, <2>1, <2>3, <2>4 DEF ListInv, OnlyWaitersInList, HandInv
  <2> QED BY <1>a, <2>1, <2>3, <2>4, <2>5, <2>6, <2>7 DEF Inv, TypeOK, Places
<1>7. ASSUME NEW l \in Loops, HandOut(l) PROVE Inv'
  <2> DEFINE p == Head(waiters)
  <2>0. PICK j \in Jobs : loop[l].job = j
    BY <1>a, <1>7 DEF HandOut, HandInv, TypeOK, LoopStates
  <2>1. /\ loop[l].phase = "carrying" /\ waiters # <<>>
        /\ poll' = [poll EXCEPT ![p] = [phase |-> "answered", job |-> j, gone |-> poll[p].gone]]
        /\ waiters' = Tail(waiters) /\ UNCHANGED <<Places, closed, faults>>
    BY <1>7, <2>0 DEF HandOut, SetPoll
  <2>2. p \in Polls /\ p = waiters[1] /\ 1 \in 1 .. Len(waiters) /\ poll[p].phase = "waiting"
    <3>1. waiters \in Seq(Polls) /\ Len(waiters) \in Nat /\ Len(waiters) # 0
      BY <1>a, <2>1, EmptySeq DEF TypeOK
    <3>2. 1 \in 1 .. Len(waiters) /\ p = waiters[1]
      BY <2>1, <3>1
    <3> QED BY <1>a, <3>1, <3>2 DEF ListInv, OnlyWaitersInList
  <2>3. poll[p].job = None
    BY <1>a, <2>2 DEF HandInv
  <2> HIDE DEF p
  <2>4. /\ poll' \in [Polls -> PollStates] /\ poll'[p].phase = "answered" /\ poll'[p].job = j
        /\ \A q \in Polls \ {p} : poll'[q] = poll[q]
    <3>1. [phase |-> "answered", job |-> j, gone |-> poll[p].gone] \in PollStates
      BY <1>a, <2>2, <2>3 DEF TypeOK, PollStates, PollPhases
    <3> QED BY <1>a, <2>1, <2>2, <3>1 DEF TypeOK
  <2>5. waiters' = RemoveAt(waiters, 1)
    BY <1>a, <2>1 DEF TypeOK, RemoveAt
  <2>6. waiters' \in Seq(Polls) /\ ListInv'
    BY <1>a, <2>2, <2>4, <2>5, Dropped
  <2>7. (waiters' # <<>>) <=> Len(waiters) > 1
    <3>1. waiters' \in Seq(Polls) /\ Len(waiters') = Len(waiters) - 1 /\ Len(waiters) \in Nat
      BY <1>a, <2>1 DEF TypeOK
    <3> QED BY <3>1, EmptySeq
  <2>8. /\ loop' \in [Loops -> LoopStates] /\ \A m \in Loops \ {l} : loop'[m] = loop[m]
        /\ loop'[l].job = None /\ loop'[l].phase \in {"off", "asking"}
    <3>1. PICK ph \in {"off", "asking"} : SetLoop(l, ph, None)
      BY <1>7 DEF HandOut
    <3>2. [phase |-> ph, job |-> None] \in LoopStates
      BY DEF LoopStates, LoopPhases
    <3> QED BY <1>a, <3>1, <3>2 DEF SetLoop, TypeOK
  <2>9. LoopInv' /\ loopRunning' \in BOOLEAN /\ (waiters' # <<>> => loopRunning')
    <3>1. CASE Len(waiters) > 1
      <4>1. SetLoop(l, "asking", None) /\ UNCHANGED loopRunning
        BY <1>7, <3>1 DEF HandOut
      <4>2. LoopInv'
        BY <1>a, <2>1, <4>1, LoopStays DEF Running, LoopPhases
      <4> QED BY <1>a, <2>1, <4>1, <4>2 DEF HandInv, TypeOK
    <3>2. CASE ~(Len(waiters) > 1)
      <4>1. SetLoop(l, "off", None) /\ loopRunning' = FALSE
        BY <1>7, <3>2 DEF HandOut
      <4>2. LoopInv'
        BY <1>a, <2>1, <4>1 DEF LoopInv, OneLoop, TypeOK, Running, SetLoop
      <4> QED BY <2>7, <3>2, <4>1, <4>2
    <3> QED BY <3>1, <3>2
  <2>10. JobsAccountedFor'
    <3>1. l \in Holders(j)
      BY <2>0 DEF Holders
    <3>2. Holders(j) = {l} /\ j \notin queued \union delivered \union stranded
      BY <1>a, <2>3, <3>1 DEF JobsAccountedFor
    <3>3. Holders(j)' = {p}
      <4>1. \A q \in Polls : poll'[q].job = j <=> q = p
        BY <2>4, <3>2 DEF Holders
      <4>2. \A m \in Loops : loop'[m].job # j
        BY <2>3, <2>8, <3>2 DEF Holders
      <4> QED BY <2>2, <4>1, <4>2 DEF Holders
    <3>4. \A k \in Jobs \ {j} : Holders(k)' = Holders(k)
      <4>1. \A k \in Jobs \ {j} : l \notin Holders(k) /\ p \notin Holders(k)
        BY <2>0, <2>2, <2>3 DEF Holders
      <4> QED BY <2>2, <2>4, <2>8, <4>1 DEF Holders
    <3> QED BY <1>a, <2>1, <2>2, <2>3, <3>2, <3>3, <3>4, JobHeld DEF Places
  <2>11. HandInv'
    BY <1>a, <2>2, <2>3, <2>4, <2>8, <2>9 DEF HandInv
  <2> QED BY <1>a, <2>1, <2>4, <2>6, <2>8, <2>9, <2>10, <2>11 DEF Inv, TypeOK, Places
<1>8. ASSUME NEW l \in Loops, Orphan(l) PROVE Inv'
  <2>1. /\ loop[l].phase = "carrying" /\ waiters = <<>> /\ SetLoop(l, "returning", loop[l].job)
        /\ UNCHANGED <<Places, waiters, poll, loopRunning, closed, faults>>
    BY <1>8 DEF Orphan
  <2>2. /\ loop' \in [Loops -> LoopStates] /\ \A m \in Loops : loop'[m].job = loop[m].job
        /\ \A m \in Loops \ {l} : loop'[m] = loop[m]
        /\ loop'[l].phase = "returning"
    <3>1. [phase |-> "returning", job |-> loop[l].job] \in LoopStates
      BY <1>a DEF TypeOK, LoopStates, LoopPhases
    <3> QED BY <1>a, <2>1, <3>1 DEF SetLoop, TypeOK
  <2>3. LoopInv'
    BY <1>a, <2>1, LoopStays DEF Running, LoopPhases
  <2>4. JobsAccountedFor'
    BY <1>a, <2>1, <2>2, JobsStay
  <2>5. ListInv' /\ HandInv'
    BY <1>a, <2>1, <2>2 DEF ListInv, OnlyWaitersInList, HandInv
  <2> QED BY <1>a, <2>1, <2>2, <2>3, <2>4, <2>5 DEF Inv, TypeOK, Places
<1>9. ASSUME NEW l \in Loops, ReturnOrphan(l) PROVE Inv'
  <2> DEFINE j == loop[l].job
  <2>1. /\ loop[l].phase = "returning" /\ PutBack(j) /\ Again(l)
        /\ UNCHANGED <<waiters, poll, closed>>
    BY <1>9 DEF ReturnOrphan
  <2>2. j \in Jobs /\ j \in Jobs \union {None}
    BY <1>a, <2>1 DEF HandInv, TypeOK, LoopStates
  <2>3. /\ loop' \in [Loops -> LoopStates] /\ \A m \in Loops \ {l} : loop'[m] = loop[m]
        /\ loop'[l].job = None /\ loop'[l].phase \in {"off", "asking"}
    <3>1. PICK ph \in {"off", "asking"} : SetLoop(l, ph, None)
      BY <2>1 DEF Again
    <3>2. [phase |-> ph, job |-> None] \in LoopStates
      BY DEF LoopStates, LoopPhases
    <3> QED BY <1>a, <3>1, <3>2 DEF SetLoop, TypeOK
  <2>4. LoopInv' /\ loopRunning' \in BOOLEAN /\ (waiters # <<>> => loopRunning')
    BY <1>a, <2>1, LoopGoesOn DEF Running, Again, HandInv, TypeOK
  <2>5. /\ queued' \subseteq Jobs /\ delivered' \subseteq Jobs /\ stranded' \subseteq Jobs
        /\ faults' \in [Faults -> Nat]
    BY <1>a, <2>1, <2>2 DEF TypeOK, PutBack, Fault
  <2>6. JobsAccountedFor'
    <3>1. l \in Holders(j)
      BY DEF Holders
    <3>2. /\ \A q \in Polls : poll'[q].job = IF q = l THEN None ELSE poll[q].job
          /\ \A m \in Loops : loop'[m].job = IF m = l THEN None ELSE loop[m].job
      BY <2>1, <2>3
    <3>3. \/ queued' = queued \union {j} /\ UNCHANGED <<delivered, stranded>>
          \/ delivered' = delivered \union {j} /\ UNCHANGED <<queued, stranded>>
          \/ stranded' = stranded \union {j} /\ UNCHANGED <<queued, delivered>>
      BY <2>1 DEF PutBack
    <3> HIDE DEF j
    <3> QED BY <1>a, <2>2, <3>1, <3>2, <3>3, JobPut
  <2>7. ListInv' /\ HandInv'
    BY <1>a, <2>1, <2>3, <2>4 DEF ListInv, OnlyWaitersInList, HandInv
  <2> QED BY <1>a, <2>1, <2>3, <2>4, <2>5, <2>6, <2>7 DEF Inv, TypeOK
<1>10. ASSUME Close PROVE Inv'
  <2>1. waiters' = <<>> /\ UNCHANGED <<Places, loopRunning, loop, faults>> /\ closed' = TRUE
    BY <1>10 DEF Close
  <2>2. \A p \in Polls : poll'[p] = IF poll[p].phase = "waiting"
                                   THEN [poll[p] EXCEPT !.phase = "answered"] ELSE poll[p]
    BY <1>10 DEF Close
  <2>3. \A p \in Polls : /\ poll'[p].phase # "waiting" /\ poll'[p].job = poll[p].job
                         /\ poll'[p].phase \in {"idle", "returning"} => poll'[p] = poll[p]
    <3> SUFFICES ASSUME NEW p \in Polls
                 PROVE  /\ poll'[p].phase # "waiting" /\ poll'[p].job = poll[p].job
                        /\ poll'[p].phase \in {"idle", "returning"} => poll'[p] = poll[p]
      OBVIOUS
    <3>1. poll[p] \in PollStates
      BY <1>a DEF TypeOK
    <3>2. CASE poll[p].phase = "waiting"
      <4>1. poll'[p] = [poll[p] EXCEPT !.phase = "answered"]
        BY <2>2, <3>2
      <4> QED BY <3>1, <4>1 DEF PollStates
    <3>3. CASE poll[p].phase # "waiting"
      BY <2>2, <3>3
    <3> QED BY <3>2, <3>3
  <2>4. poll' \in [Polls -> PollStates]
    <3>1. \A p \in Polls : [poll[p] EXCEPT !.phase = "answered"] \in PollStates
      BY <1>a DEF TypeOK, PollStates, PollPhases
    <3> QED BY <1>a, <1>10, <3>1 DEF Close, TypeOK
  <2>5. JobsAccountedFor'
    BY <1>a, <2>1, <2>3, JobsStay
  <2>6. ListInv' /\ HandInv'
    BY <1>a, <2>1, <2>3 DEF ListInv, OnlyWaitersInList, HandInv
  <2> QED BY <1>a, <2>1, <2>4, <2>5, <2>6 DEF Inv, TypeOK, LoopInv, OneLoop, Running, Places
<1>11. CASE UNCHANGED vars
  BY <1>a, <1>11 DEF vars, Inv, TypeOK, LoopInv, OneLoop, Running, ListInv, OnlyWaitersInList,
                     HandInv, JobsAccountedFor, Holders
<1>12. CASE Next
  <2>1. ASSUME NEW p \in Polls, Poll(p) \/ PollStep(p) \/ Disconnect(p) PROVE Inv'
    BY <1>1, <1>2, <1>3, <1>4, <2>1 DEF PollStep
  <2>2. ASSUME NEW l \in Loops, LoopStep(l) \/ DequeueError(l) PROVE Inv'
    BY <1>5, <1>6, <1>7, <1>8, <1>9, <2>2 DEF LoopStep
  <2> QED BY <1>10, <1>12, <2>1, <2>2 DEF Next
<1> QED BY <1>11, <1>12

\* The invariant holds in every reachable state.
LEMMA Invariance == Spec => []Inv
BY InvInit, InvNext, PTL DEF Spec

(* Type correctness, for any sets of jobs, polls and loops and any number *)
(* of disconnects, failed dequeues and failed returns.                    *)
THEOREM DispatcherTypes == Spec => []TypeOK
<1>1. Inv => TypeOK
  BY DEF Inv
<1> QED BY <1>1, Invariance, PTL

(* startLoop, runLoop and close never leave two loops, however polls,     *)
(* time-outs and closes fall between their awaits.                        *)
THEOREM SingleLoop == Spec => []OneLoop
<1>1. Inv => OneLoop
  BY DEF Inv, LoopInv
<1> QED BY <1>1, Invariance, PTL

(* A poll that waits is in the list, and a loop runs while the list has   *)
(* polls: the flag and the list are never cleared one without the other.  *)
THEOREM WaitersServed == Spec => []NoWaiterForgotten
<1>1. Inv => NoWaiterForgotten
  BY DEF Inv, LoopInv, ListInv, HandInv, NoWaiterForgotten
<1> QED BY <1>1, Invariance, PTL

(* A poll that timed out, was answered or lost its socket is out of the   *)
(* list before the loop can give it a job.                                *)
THEOREM ListIsCurrent == Spec => []OnlyWaitersInList
<1>1. Inv => OnlyWaitersInList
  BY DEF Inv, ListInv
<1> QED BY <1>1, Invariance, PTL

(* No job is lost by the dispatcher or the poll handler, nor given twice: *)
(* it is in the queue, delivered, stranded or with exactly one holder.    *)
THEOREM JobsConserved == Spec => []JobsAccountedFor
<1>1. Inv => JobsAccountedFor
  BY DEF Inv
<1> QED BY <1>1, Invariance, PTL

-----------------------------------------------------------------------------
(* The HTTP callers: what the steps of a run keep *)

\* The run's job is with BullMQ or a worker.
Alive == job.state \in {"waiting", "active", "delayed"}

\* An attempt belongs to an active job, a job that is over carries no id, and what an
\* attempt has come to decides what may be said of it.
JobInv ==
  /\ job.state = "active" <=> attempt.pc # "off"
  /\ ~Alive => job.for = Nobody
  /\ attempt.pc \in {"off", "before", "executing", "created"} => attempt.verdict = "none"
  /\ attempt.pc \in {"refusing", "refused"} => attempt.verdict = "failed"
  /\ attempt.pc \in {"failing", "reporting"} =>
       attempt.verdict = "failed" \/ (attempt.verdict = "retry" /\ ~AttemptsLeft)
  /\ attempt.pc \in {"ended", "backedUp"} => attempt.verdict \in {"paused", "succeeded", "failed"}
  /\ attempt.pc = "over" => attempt.verdict \in {"none", "failed", "retry"}

\* A run of which nothing is stored has no job, no waitpoint and no resume.
BegunInv ==
  status = "none" /\ hash = "none" =>
    /\ job = NoJob /\ ~told
    /\ \A w \in Waitpoints : row[w] = "absent"
    /\ \A r \in Signals : call[r].pc # "read"

\* Once its caller has been told that it failed, the job is not attempted again.
ToldInv ==
  told => \/ ~Alive
          \/ /\ attempt.pc \in {"failing", "refused", "reporting", "over"}
             /\ attempt.verdict = "retry" => ~AttemptsLeft

\* Before a worker is lost a run has one waitpoint at a time, which the attempt under
\* way has created.
RowsInv ==
  /\ job.stalled => "worker" \in mishaps
  /\ "worker" \notin mishaps =>
       /\ \A v, w \in Waitpoints : Exists(v) /\ Exists(w) => v = w
       /\ Alive /\ (\/ attempt.pc \in {"off", "before", "executing", "refusing", "refused"}
                    \/ attempt.verdict = "retry")
          => \A w \in Waitpoints : ~Exists(w)

\* While a job is alive no waitpoint waits for a caller other than its own, and one
\* that a second delivery of the job may find carries the id of the job.
OwnersInv ==
  Alive => \A w \in Waitpoints :
    /\ row[w] = "PENDING" => serves[w] \in excused \cup {job.for, Nobody}
    /\ Exists(w) /\ ("worker" \notin mishaps \/ job.stalled) =>
         serves[w] = job.for \/ job.for \in excused

\* No end is reported of a run that is under way or has paused.
LastInv ==
  \/ attempt.pc \in {"executing", "created", "ended"}
  \/ attempt.pc = "backedUp" /\ attempt.verdict = "paused"
  => ~Over

\* The caller's answer is under way or its completed row has yet to be looked at ...
Sure(c) == c \in wire \/ \E w \in Waitpoints : serves[w] = c /\ row[w] = "COMPLETED"

\* ... or its waitpoint has its id.
Answered(c) == c \in wire \/ \E w \in Waitpoints : Keeps(w, c)

\* The caller of the job is answered before the attempt is over, or its waitpoint
\* has the id by then.
AnswerInv ==
  \A c \in Callers : c = job.for /\ Waiting(c) =>
    /\ attempt.pc \in {"refused", "reporting"} => Sure(c)
    /\ attempt.pc = "created" \/ attempt.verdict = "paused" => Answered(c)
    /\ attempt.pc = "over" /\ (attempt.verdict = "retry" => ~AttemptsLeft) => Answered(c)

\* A call with an id of its own takes the place of the row's caller, no other does.
LEMMA DisplacedIs ==
  ASSUME NEW r, NEW w
  PROVE  Displaced(r, w) = {serves[w]} \ {Carried(r, w)}
BY DEF Displaced, Carried

\* What a resume does to the row, the job and who is excused.
LEMMA ResumeOutcome ==
  ASSUME SyncTypeOK, NEW r, NEW w \in Waitpoints, Resume(r, w)
  PROVE  /\ Carried(r, w) \in Ids
         /\ row' = [row EXCEPT ![w] = "gone"]
         /\ row' \in [Waitpoints -> {"absent", "PENDING", "COMPLETED", "gone"}]
         /\ job' \in JobStates /\ told' \in BOOLEAN /\ excused' \subseteq Ids
         /\ excused \subseteq excused'
         /\ \/ job.state = "none" /\ job' = JobFor(Carried(r, w), FALSE) /\ told' = FALSE
            \/ /\ job.state # "none" /\ UNCHANGED <<job, told>>
               /\ serves[w] \in excused' /\ Carried(r, w) \in excused'
<1>1. Carried(r, w) \in Ids
  BY DEF Carried, Ids, SyncTypeOK
<1>2. row' \in [Waitpoints -> {"absent", "PENDING", "COMPLETED", "gone"}]
  BY DEF Resume, SyncTypeOK
<1>3. CASE job.state = "none"
  <2>1. job' = JobFor(Carried(r, w), FALSE) /\ told' = FALSE
    BY <1>3 DEF Resume
  <2>2. job' \in JobStates
    BY <1>1, <2>1 DEF JobFor, NoJob, JobStates, Ids
  <2>3. excused' \subseteq Ids /\ excused \subseteq excused'
    BY <1>3, DisplacedIs DEF Resume, PassedBy, SyncTypeOK
  <2> QED BY <1>1, <1>2, <1>3, <2>1, <2>2, <2>3 DEF Resume
<1>4. CASE job.state # "none"
  <2>1. UNCHANGED <<job, told>> /\ excused' = excused \cup {serves[w], Carried(r, w)}
    BY <1>4 DEF Resume
  <2>2. serves[w] \in Ids
    BY DEF SyncTypeOK
  <2> QED BY <1>1, <1>2, <1>4, <2>1, <2>2 DEF Resume, SyncTypeOK
<1> QED BY <1>3, <1>4

\* What a completion does to the row and to whom it serves.
LEMMA CompleteOutcome ==
  ASSUME SyncTypeOK, NEW r, NEW w \in Waitpoints, Complete(r, w)
  PROVE  /\ row' = [row EXCEPT ![w] = "COMPLETED"]
         /\ row' \in [Waitpoints -> {"absent", "PENDING", "COMPLETED", "gone"}]
         /\ serves' = [serves EXCEPT ![w] = Carried(r, w)] /\ serves' \in [Waitpoints -> Ids]
         /\ excused' = excused \cup ({serves[w]} \ {Carried(r, w)}) /\ excused' \subseteq Ids
<1>1. Carried(r, w) \in Ids
  BY DEF Carried, Ids, SyncTypeOK
<1> QED BY <1>1, DisplacedIs DEF Complete, SyncTypeOK

\* A call of HandleSignal names a waitpoint when it is not turned away.
LEMMA SignalOutcome ==
  ASSUME SyncTypeOK, NEW r \in Signals, HandleSignal(r)
  PROVE  /\ call[r].pc = "read"
         /\ UNCHANGED <<wire, attempt, run, mishaps>>
         /\ \/ Refuse(r) /\ UNCHANGED <<row, serves, job, excused, told>>
            \/ /\ Accept(r) /\ call[r].w \in Waitpoints /\ Exists(call[r].w)
               /\ Resume(r, call[r].w) /\ UNCHANGED serves
            \/ /\ Accept(r) /\ call[r].w \in Waitpoints /\ row[call[r].w] = "PENDING"
               /\ Complete(r, call[r].w) /\ UNCHANGED <<job, told>>
<1>1. call[r].w \in Waitpoints
  BY DEF HandleSignal, SyncTypeOK
<1> QED BY <1>1 DEF HandleSignal, Stale, waits, Exists

\* The types hold at the start.
LEMMA TypesInit == SyncInit => SyncTypeOK
<1> SUFFICES ASSUME SyncInit PROVE SyncTypeOK
  OBVIOUS
<1>1. NoJob \in JobStates /\ NoAttempt \in AttemptStates /\ Now("idle") \in CallStates
  BY DEF NoJob, JobStates, NoAttempt, At, AttemptStates, Now, CallStates, Ids, Statuses
<1>2. /\ call \in [{Webhook} \cup Signals -> CallStates]
      /\ \A r \in Signals : call[r].pc # "read"
  BY <1>1 DEF SyncInit, Now
<1>3. promise \in [Callers -> {"none", "pending", "default", "answered"}]
  BY DEF SyncInit
<1>4. /\ row \in [Waitpoints -> {"absent", "PENDING", "COMPLETED", "gone"}]
      /\ serves \in [Waitpoints -> Ids]
  BY DEF SyncInit, Ids
<1> QED BY <1>1, <1>2, <1>3, <1>4 DEF SyncInit, SyncTypeOK, Statuses

\* Every step keeps the types, the handler of a signal with all that it calls.
LEMMA TypesNext == SyncTypeOK /\ [SyncNext]_syncVars => SyncTypeOK'
<1> SUFFICES ASSUME SyncTypeOK, [SyncNext]_syncVars PROVE SyncTypeOK'
  OBVIOUS
<1> USE SyncAssumption DEF SyncTypeOK, CallStates, AttemptStates, Callers, Statuses, At, Now,
                           callers, run, waits, history
<1>1. CASE Register \/ StartFails \/ \E c \in {Webhook, Nobody} : Start(c)
  <2>1. CASE Register
    BY <2>1 DEF Register, Signals
  <2>2. CASE StartFails
    BY <2>2 DEF StartFails, Refuse, Signals
  <2>3. ASSUME NEW c \in {Webhook, Nobody}, Start(c) PROVE SyncTypeOK'
    <3>1. job' \in JobStates
      BY <2>3 DEF Start, JobFor, NoJob, JobStates, Ids
    <3>2. hash' = "QUEUED" /\ (call' = call \/ call' = [call EXCEPT ![Webhook] = Now("accepted")])
      BY <2>3 DEF Start
    <3>3. /\ call' \in [{Webhook} \cup Signals -> CallStates]
          /\ \A r \in Signals : call'[r].pc = "read" => call'[r].w \in Waitpoints
      BY <3>2 DEF Signals
    <3> QED BY <2>3, <3>1, <3>2, <3>3 DEF Start
  <2> QED BY <1>1, <2>1, <2>2, <2>3
<1>2. ASSUME NEW c \in Callers, TimeOut(c) \/ Deliver(c) \/ LoseAnswer(c) PROVE SyncTypeOK'
  <2>1. CASE TimeOut(c)
    BY <2>1 DEF TimeOut
  <2>2. CASE Deliver(c)
    BY <2>2 DEF Deliver
  <2>3. CASE LoseAnswer(c)
    BY <2>3 DEF LoseAnswer, Fails, Ids
  <2> QED BY <1>2, <2>1, <2>2, <2>3
<1>3. ASSUME NEW r \in Signals, NEW w \in Waitpoints, Call(r, w) PROVE SyncTypeOK'
  BY <1>3 DEF Call, Signals
<1>4. ASSUME NEW r \in Signals, HandleSignal(r) PROVE SyncTypeOK'
  <2>1. /\ call' \in [{Webhook} \cup Signals -> CallStates]
        /\ \A q \in Signals : call'[q].pc = "read" => call'[q].w \in Waitpoints
        /\ promise' \in [Callers -> {"none", "pending", "default", "answered"}]
    BY <1>4, SignalOutcome DEF Refuse, Accept
  <2>2. /\ row' \in [Waitpoints -> {"absent", "PENDING", "COMPLETED", "gone"}]
        /\ serves' \in [Waitpoints -> Ids] /\ job' \in JobStates /\ told' \in BOOLEAN
        /\ excused' \subseteq Ids
    <3>1. CASE Refuse(r) /\ UNCHANGED <<row, serves, job, excused, told>>
      BY <3>1
    <3>2. CASE Resume(r, call[r].w) /\ call[r].w \in Waitpoints /\ UNCHANGED serves
      BY <3>2, ResumeOutcome
    <3>3. CASE Complete(r, call[r].w) /\ call[r].w \in Waitpoints /\ UNCHANGED <<job, told>>
      BY <3>3, CompleteOutcome
    <3> QED BY <1>4, <3>1, <3>2, <3>3, SignalOutcome
  <2>3. UNCHANGED <<wire, attempt, hash, status, looking, mishaps>>
    BY <1>4, SignalOutcome
  <2> QED BY <2>1, <2>2, <2>3
<1>5. CASE Look
  <2>1. (\E w \in Waitpoints : Resume(Nobody, w)) \/ UNCHANGED <<row, job, excused, told>>
    BY <1>5 DEF Look
  <2>2. /\ row' \in [Waitpoints -> {"absent", "PENDING", "COMPLETED", "gone"}]
        /\ job' \in JobStates /\ told' \in BOOLEAN /\ excused' \subseteq Ids
    BY <2>1, ResumeOutcome
  <2> QED BY <1>5, <2>2 DEF Look
<1>6. CASE Drain \/ Engine \/ Respond
  <2>1. CASE Drain
    BY <2>1 DEF Drain
  <2>2. CASE CreateWaitpoint
    BY <2>2 DEF CreateWaitpoint, JobStates
  <2>3. CASE Pause \/ Respond
    <3>1. wire' \subseteq Callers /\ attempt' \in AttemptStates
      BY <2>3 DEF Pause, Respond, Publish
    <3> QED BY <2>3, <3>1 DEF Pause, Respond
  <2>4. CASE EndFlow \/ Break
    <3>1. attempt' \in AttemptStates
      BY <2>4 DEF EndFlow, Break
    <3> QED BY <2>4, <3>1 DEF EndFlow, Break
  <2>5. CASE BackUp
    BY <2>5 DEF BackUp
  <2>6. CASE RespondToSyncCaller
    BY <2>6 DEF RespondToSyncCaller, Responded, AnswerVerdict, Publish
  <2> QED BY <1>6, <2>1, <2>2, <2>3, <2>4, <2>5, <2>6 DEF Engine
<1>7. CASE Worker \/ LoseWorker
  <2>1. CASE Take
    BY <2>1 DEF Take, JobStates
  <2>2. CASE FindNotRunnable \/ FailBefore \/ Send
    <3>1. attempt' \in AttemptStates
      BY <2>2 DEF FindNotRunnable, FailBefore, Send
    <3> QED BY <2>2, <3>1 DEF FindNotRunnable, FailBefore, Send
  <2>3. CASE Report
    BY <2>3 DEF Report, Publish
  <2>4. CASE UploadEnd
    <3>1. attempt' \in AttemptStates
      BY <2>4 DEF UploadEnd
    <3> QED BY <2>4, <3>1 DEF UploadEnd, Fails
  <2>5. CASE Settle
    <3>1. NoJob \in JobStates /\ FailedJob \in JobStates
      BY DEF NoJob, FailedJob, JobStates, Ids
    <3>2. [job EXCEPT !.state = "delayed", !.tries = @ + 1] \in JobStates
      <4>1. job \in JobStates /\ job.tries + 1 \in Nat
        BY DEF JobStates
      <4> QED BY <4>1 DEF JobStates
    <3> QED BY <2>5, <3>1, <3>2 DEF Settle, NoAttempt
  <2>6. CASE BackoffOver
    BY <2>6 DEF BackoffOver, JobStates
  <2>7. CASE LoseWorker
    <3>1. job' \in JobStates
      BY <2>7 DEF LoseWorker, JobStates
    <3> QED BY <2>7, <3>1 DEF LoseWorker, Fails, NoAttempt
  <2> QED BY <1>7, <2>1, <2>2, <2>3, <2>4, <2>5, <2>6, <2>7 DEF Worker
<1>8. CASE UNCHANGED syncVars
  BY <1>8 DEF syncVars
<1> QED BY <1>1, <1>2, <1>3, <1>4, <1>5, <1>6, <1>7, <1>8 DEF SyncNext

-----------------------------------------------------------------------------
(* What a step changes *)

\* Steps that leave the job, its attempt and the waitpoints alone.
Bystander ==
  \/ Register \/ StartFails \/ Drain \/ Respond
  \/ \E c \in Callers : TimeOut(c) \/ Deliver(c) \/ LoseAnswer(c)
  \/ \E r \in Signals, w \in Waitpoints : Call(r, w)

\* Steps of an attempt that leave the job and the waitpoints alone.
AttemptStep ==
  \/ FindNotRunnable \/ FailBefore \/ Send \/ Pause \/ EndFlow \/ BackUp
  \/ RespondToSyncCaller \/ Break \/ Report \/ UploadEnd

\* Steps in which a waitpoint's signal is handled.
Signal == Look \/ \E r \in Signals : HandleSignal(r)

\* They may only answer callers, or have them give up.
LEMMA BystanderOutcome ==
  ASSUME SyncTypeOK, Bystander
  PROVE  /\ UNCHANGED <<job, attempt, row, serves, told>>
         /\ Over' = Over /\ excused \subseteq excused'
         /\ "worker" \in mishaps' <=> "worker" \in mishaps
         /\ \A c \in Callers : Waiting(c)' => Waiting(c) /\ (c \in wire => c \in wire')
<1> USE DEF callers, run, waits, history, Waiting, Pending
<1>1. CASE Register
  BY <1>1 DEF Register, Over, SyncTypeOK, Now
<1>2. CASE StartFails
  BY <1>2 DEF StartFails, Refuse, Over, SyncTypeOK, Now
<1>3. CASE Drain
  BY <1>3 DEF Drain, Over
<1>4. CASE Respond
  BY <1>4 DEF Respond, Publish, Over
<1>5. ASSUME NEW c \in Callers, TimeOut(c) \/ Deliver(c)
      PROVE  /\ UNCHANGED <<job, attempt, row, serves, told, hash, status, call, excused, mishaps>>
             /\ promise'[c] # "pending" /\ \A d \in Callers \ {c} : promise'[d] = promise[d]
             /\ wire' = wire \ {c}
  BY <1>5 DEF TimeOut, Deliver, SyncTypeOK
<1>6. ASSUME NEW c \in Callers, LoseAnswer(c)
      PROVE  /\ UNCHANGED <<job, attempt, row, serves, told, hash, status, call, promise>>
             /\ excused' = excused \cup {c} /\ wire' = wire \ {c}
             /\ mishaps' = mishaps \cup {"answer"}
  BY <1>6 DEF LoseAnswer, Fails
<1>7. ASSUME NEW r \in Signals, NEW w \in Waitpoints, Call(r, w)
      PROVE  /\ UNCHANGED <<job, attempt, row, serves, told, hash, status, wire, excused, mishaps>>
             /\ call'[r].pc = "read" /\ \A c \in Callers \ {r} : call'[c] = call[c] /\ promise'[c] = promise[c]
  BY <1>7 DEF Call, SyncTypeOK, Callers
<1> QED BY <1>1, <1>2, <1>3, <1>4, <1>5, <1>6, <1>7 DEF Bystander, Over

\* The steps of an attempt take no answer off the wire.
LEMMA AttemptOutcome ==
  ASSUME SyncTypeOK, AttemptStep
  PROVE  /\ UNCHANGED <<job, row, serves, call, promise, excused>> /\ wire \subseteq wire'
         /\ "worker" \in mishaps' <=> "worker" \in mishaps
BY DEF AttemptStep, FindNotRunnable, FailBefore, Send, Pause, EndFlow, BackUp, RespondToSyncCaller,
       AnswerVerdict, Break, Report, UploadEnd, Publish, Fails, callers, waits, history

\* What a signal changes: nothing of the run, or it resumes it, or completes a row.
LEMMA SignalIs ==
  ASSUME SyncTypeOK, Signal
  PROVE  /\ UNCHANGED <<attempt, wire, hash, status, mishaps>> /\ excused \subseteq excused'
         /\ \/ UNCHANGED <<row, serves, job, excused, told>>
               /\ \A c \in Callers : Waiting(c)' => Waiting(c)
            \/ \E r, w : /\ w \in Waitpoints /\ Exists(w) /\ Resume(r, w) /\ UNCHANGED serves
                         /\ \A c \in Callers : Waiting(c)' => Waiting(c) \/ c = Carried(r, w)
            \/ \E r, w : /\ w \in Waitpoints /\ row[w] = "PENDING" /\ Complete(r, w)
                         /\ UNCHANGED <<job, told>>
                         /\ \A c \in Callers : Waiting(c)' => Waiting(c) \/ c = Carried(r, w)
<1>1. CASE Look
  <2>1. UNCHANGED <<call, promise, attempt, wire, hash, status, serves, mishaps>>
    BY <1>1 DEF Look, callers
  <2>2. CASE UNCHANGED <<row, job, excused, told>>
    BY <2>1, <2>2 DEF Waiting, Pending
  <2>3. ASSUME NEW w \in Waitpoints, row[w] = "COMPLETED", Resume(Nobody, w)
        PROVE  excused \subseteq excused' /\ \A c \in Callers : Waiting(c)' => Waiting(c)
    BY <2>1, <2>3, ResumeOutcome DEF Waiting, Pending
  <2> QED BY <1>1, <2>1, <2>2, <2>3 DEF Look, Exists
<1>2. ASSUME NEW r \in Signals, HandleSignal(r)
      PROVE  /\ UNCHANGED <<attempt, wire, hash, status, mishaps>> /\ excused \subseteq excused'
             /\ \/ UNCHANGED <<row, serves, job, excused, told>>
                   /\ \A c \in Callers : Waiting(c)' => Waiting(c)
                \/ \E q, w : /\ w \in Waitpoints /\ Exists(w) /\ Resume(q, w) /\ UNCHANGED serves
                             /\ \A c \in Callers : Waiting(c)' => Waiting(c) \/ c = Carried(q, w)
                \/ \E q, w : /\ w \in Waitpoints /\ row[w] = "PENDING" /\ Complete(q, w)
                             /\ UNCHANGED <<job, told>>
                             /\ \A c \in Callers : Waiting(c)' => Waiting(c) \/ c = Carried(q, w)
  <2>1. UNCHANGED <<attempt, wire, hash, status, mishaps>>
    BY <1>2, SignalOutcome DEF run
  <2>2. CASE Refuse(r) /\ UNCHANGED <<row, serves, job, excused, told>>
    <3>1. \A c \in Callers : Waiting(c)' => Waiting(c)
      BY <2>2 DEF Refuse, Waiting, Pending, Now, SyncTypeOK
    <3> QED BY <2>1, <2>2, <3>1
  <2>3. ASSUME Accept(r), NEW w
        PROVE \A c \in Callers : c \in excused' \/ (Waiting(c)' /\ excused \subseteq excused'
                                                    => Waiting(c) \/ c = Carried(r, w))
    BY <2>3 DEF Accept, Waiting, Pending, Carried, Now, SyncTypeOK, Callers, Signals
  <2>4. CASE /\ Accept(r) /\ call[r].w \in Waitpoints /\ Exists(call[r].w)
             /\ Resume(r, call[r].w) /\ UNCHANGED serves
    <3>1. excused \subseteq excused'
      BY <2>4, ResumeOutcome
    <3>2. \A c \in Callers : Waiting(c)' => Waiting(c) \/ c = Carried(r, call[r].w)
      BY <2>3, <2>4, <3>1 DEF Waiting
    <3> QED BY <2>1, <2>4, <3>1, <3>2
  <2>5. CASE /\ Accept(r) /\ call[r].w \in Waitpoints /\ row[call[r].w] = "PENDING"
             /\ Complete(r, call[r].w) /\ UNCHANGED <<job, told>>
    <3>1. excused \subseteq excused'
      BY <2>5, CompleteOutcome
    <3>2. \A c \in Callers : Waiting(c)' => Waiting(c) \/ c = Carried(r, call[r].w)
      BY <2>3, <2>5, <3>1 DEF Waiting
    <3> QED BY <2>1, <2>5, <3>1, <3>2
  <2> QED BY <1>2, <2>2, <2>4, <2>5, SignalOutcome
<1> QED BY <1>1, <1>2 DEF Signal

\* A step is one of these.
LEMMA NextIs ==
  ASSUME [SyncNext]_syncVars
  PROVE  \/ Bystander \/ (\E c \in {Webhook, Nobody} : Start(c)) \/ Signal \/ CreateWaitpoint
         \/ AttemptStep \/ Take \/ Settle \/ BackoffOver \/ LoseWorker \/ UNCHANGED syncVars
BY DEF SyncNext, Engine, Worker, Bystander, Signal, AttemptStep

-----------------------------------------------------------------------------
(* The job and its attempt *)

\* An attempt comes and goes with its job, and the job lets go of the id at its end.
LEMMA JobNext ==
  ASSUME SyncTypeOK, JobInv, [SyncNext]_syncVars
  PROVE  JobInv'
<1> USE SyncAssumption DEF JobInv, AttemptsLeft, Alive
<1>1. CASE Bystander \/ UNCHANGED syncVars
  BY <1>1, BystanderOutcome DEF syncVars
<1>2. ASSUME NEW c \in {Webhook, Nobody}, Start(c) PROVE JobInv'
  BY <1>2 DEF Start, JobFor, NoJob, SyncTypeOK
<1>3. CASE Signal
  <2>1. UNCHANGED attempt /\ (job' = job \/ \E c : job.state = "none" /\ job' = JobFor(c, FALSE))
    BY <1>3, SignalIs, ResumeOutcome
  <2> QED BY <2>1 DEF JobFor, NoJob
<1>4. CASE CreateWaitpoint
  BY <1>4 DEF CreateWaitpoint, At
<1>5. CASE AttemptStep
  <2>1. UNCHANGED job
    BY <1>5, AttemptOutcome
  <2> USE <2>1 DEF At, NoAttempt, SyncTypeOK, AttemptStates
  <2>2. CASE FindNotRunnable \/ FailBefore \/ Send
    BY <2>2 DEF FindNotRunnable, FailBefore, Send, RetriesQuickly
  <2>3. CASE Pause \/ EndFlow
    BY <2>3 DEF Pause, EndFlow
  <2>4. CASE BackUp \/ RespondToSyncCaller
    BY <2>4 DEF BackUp, RespondToSyncCaller, Responded
  <2>5. CASE Break
    BY <2>5 DEF Break, Responded
  <2>6. CASE Report
    BY <2>6 DEF Report
  <2>7. CASE UploadEnd
    BY <2>7 DEF UploadEnd
  <2> QED BY <1>5, <2>2, <2>3, <2>4, <2>5, <2>6, <2>7 DEF AttemptStep
<1>6. CASE Take
  BY <1>6 DEF Take, At, SyncTypeOK, JobStates
<1>7. CASE Settle
  <2>1. attempt'.pc = "off" /\ attempt'.verdict = "none"
    BY <1>7 DEF Settle, NoAttempt, At
  <2>2. job'.state # "active" /\ (job'.state = "delayed" \/ job'.for = Nobody)
    <3>1. /\ NoJob.state = "none" /\ NoJob.for = Nobody
          /\ FailedJob.state = "failed" /\ FailedJob.for = Nobody
      BY DEF NoJob, FailedJob
    <3>2. [job EXCEPT !.state = "delayed", !.tries = @ + 1].state = "delayed"
      BY DEF SyncTypeOK, JobStates
    <3> QED BY <1>7, <3>1, <3>2 DEF Settle
  <2> QED BY <2>1, <2>2
<1>8. CASE BackoffOver
  BY <1>8 DEF BackoffOver, SyncTypeOK, JobStates
<1>9. CASE LoseWorker
  BY <1>9 DEF LoseWorker, NoAttempt, At, SyncTypeOK, JobStates, AttemptStates
<1> QED BY <1>1, <1>2, <1>3, <1>4, <1>5, <1>6, <1>7, <1>8, <1>9, NextIs

\* A signal that resumes the run, or completes a waitpoint, finds one.
LEMMA BegunNext ==
  ASSUME SyncTypeOK, JobInv, BegunInv, [SyncNext]_syncVars
  PROVE  BegunInv'
<1>1. CASE status = "none" /\ hash = "none"
  <2> USE <1>1
  <2>1. /\ job = NoJob /\ ~told /\ attempt.pc = "off"
        /\ \A w \in Waitpoints : row[w] = "absent"
        /\ \A r \in Signals : call[r].pc # "read"
    BY DEF BegunInv, JobInv, NoJob
  <2>2. CASE Bystander
    <3>1. UNCHANGED <<job, row, told>>
      BY <2>2, BystanderOutcome
    <3>2. \A r \in Signals : call'[r].pc # "read"
      BY <2>1, <2>2 DEF Bystander, Register, StartFails, Drain, Respond, TimeOut, Deliver, LoseAnswer,
                        Call, Refuse, Now, callers, SyncTypeOK
    <3> QED BY <2>1, <3>1, <3>2 DEF BegunInv
  <2>3. ASSUME NEW c \in {Webhook, Nobody}, Start(c) PROVE BegunInv'
    BY <2>3 DEF Start, BegunInv
  <2>4. CASE UNCHANGED syncVars
    BY <2>1, <2>4 DEF syncVars, BegunInv
  <2>5. CASE Signal
    <3>1. CASE Look
      <4>1. UNCHANGED <<row, job, told, call>>
        BY <2>1, <3>1 DEF Look, callers
      <4> QED BY <2>1, <4>1 DEF BegunInv
    <3>2. \A r \in Signals : ~HandleSignal(r)
      BY <2>1 DEF HandleSignal
    <3> QED BY <2>5, <3>1, <3>2 DEF Signal
  <2>6. ~CreateWaitpoint /\ ~AttemptStep /\ ~Settle
    BY <2>1 DEF CreateWaitpoint, AttemptStep, FindNotRunnable, FailBefore, Send, Pause, EndFlow,
                BackUp, RespondToSyncCaller, Break, Responded, At, Report, UploadEnd, Settle
  <2>7. ~Take /\ ~BackoffOver
    BY <2>1 DEF Take, BackoffOver, NoJob
  <2>8. ~LoseWorker
    BY <2>1 DEF LoseWorker, JobInv, NoAttempt, At, SyncTypeOK, AttemptStates
  <2> QED BY <2>2, <2>3, <2>4, <2>5, <2>6, <2>7, <2>8, NextIs
<1>2. CASE ~(status = "none" /\ hash = "none")
  <2>1. hash' # "none" \/ (status' = status /\ hash' = hash) \/ (hash # "none" /\ status' = hash)
    <3>1. CASE Bystander
      BY <3>1 DEF Bystander, Register, StartFails, Drain, Respond, TimeOut, Deliver, LoseAnswer,
                  Call, run
    <3>2. CASE AttemptStep
      BY <3>2 DEF AttemptStep, FindNotRunnable, FailBefore, Send, Pause, EndFlow, BackUp,
                  RespondToSyncCaller, Break, Report, UploadEnd, run
    <3>3. CASE Signal
      BY <3>3, SignalIs
    <3> QED BY <3>1, <3>2, <3>3, NextIs DEF Start, CreateWaitpoint, Take, Settle, BackoffOver,
                                            LoseWorker, run, syncVars
  <2> QED BY <1>2, <2>1 DEF BegunInv
<1> QED BY <1>1, <1>2

\* A failure is reported of an attempt that is the last, or by one that is undone: a
\* worker lost, a refusal whose upload throws.
LEMMA ToldNext ==
  ASSUME SyncTypeOK, JobInv, BegunInv, ToldInv, [SyncNext]_syncVars
  PROVE  ToldInv'
<1> USE DEF ToldInv, AttemptsLeft, Alive
<1>1. CASE Bystander \/ UNCHANGED syncVars
  BY <1>1, BystanderOutcome DEF syncVars
<1>2. ASSUME NEW c \in {Webhook, Nobody}, Start(c) PROVE ToldInv'
  BY <1>2 DEF Start, BegunInv, history
<1>3. CASE Signal
  <2>1. UNCHANGED attempt /\ ((job' = job /\ told' = told) \/ ~told')
    BY <1>3, SignalIs, ResumeOutcome
  <2> QED BY <2>1
<1>4. CASE CreateWaitpoint
  BY <1>4 DEF CreateWaitpoint, JobInv, history
<1>5. CASE AttemptStep
  <2>1. UNCHANGED job
    BY <1>5, AttemptOutcome
  <2> USE <2>1 DEF JobInv, SyncTypeOK, AttemptStates, At
  <2>2. CASE FindNotRunnable \/ FailBefore \/ Send \/ Pause \/ EndFlow \/ BackUp
    BY <2>2 DEF FindNotRunnable, FailBefore, Send, Pause, EndFlow, BackUp, history
  <2>3. CASE RespondToSyncCaller
    BY <2>3 DEF RespondToSyncCaller, Responded
  <2>4. CASE Break
    BY <2>4 DEF Break, Responded, history
  <2>5. CASE Report
    BY <2>5 DEF Report
  <2>6. CASE UploadEnd
    <3>1. /\ attempt'.pc = "over" /\ (told' => told)
          /\ attempt'.verdict = attempt.verdict \/ ~told'
      <4>1. CASE /\ attempt' = [attempt EXCEPT !.pc = "over"] /\ UNCHANGED told
        BY <4>1
      <4>2. CASE /\ attempt' = At("over", IF attempt.pc = "refused" THEN "retry" ELSE attempt.verdict)
                 /\ told' = (told /\ attempt.pc = "reporting")
        <5>1. CASE attempt.pc = "reporting"
          BY <4>2, <5>1 DEF At
        <5>2. CASE attempt.pc # "reporting"
          BY <4>2, <5>2 DEF At
        <5> QED BY <5>1, <5>2
      <4> QED BY <2>6, <4>1, <4>2 DEF UploadEnd
    <3> QED BY <2>6, <3>1 DEF UploadEnd
  <2> QED BY <1>5, <2>2, <2>3, <2>4, <2>5, <2>6 DEF AttemptStep
<1>6. CASE Take \/ BackoffOver
  BY <1>6 DEF Take, BackoffOver, history, JobInv
<1>7. CASE Settle
  <2>1. attempt.pc = "over" /\ job.state = "active" /\ told' = told
    BY <1>7 DEF Settle, JobInv, history
  <2>2. CASE told
    <3>1. attempt.verdict = "retry" => ~AttemptsLeft
      BY <2>1, <2>2
    <3>2. job'.state \in {"none", "failed"}
      BY <1>7, <3>1 DEF Settle, NoJob, FailedJob
    <3> QED BY <3>2
  <2> QED BY <2>1, <2>2
<1>8. CASE LoseWorker
  BY <1>8 DEF LoseWorker
<1> QED BY <1>1, <1>2, <1>3, <1>4, <1>5, <1>6, <1>7, <1>8, NextIs

\* The end of a run is reported after the engine is through, or when it has broken.
LEMMA LastNext ==
  ASSUME SyncTypeOK, JobInv, LastInv, [SyncNext]_syncVars
  PROVE  LastInv'
<1> USE DEF LastInv
<1>1. CASE Bystander
  BY <1>1, BystanderOutcome
<1>2. CASE UNCHANGED syncVars
  BY <1>2 DEF syncVars, Over
<1>3. CASE Signal
  BY <1>3, SignalIs DEF Over
<1>4. CASE CreateWaitpoint
  BY <1>4 DEF CreateWaitpoint, Over, run, At
<1>5. CASE AttemptStep
  <2> USE DEF Over, run, At, SyncTypeOK, AttemptStates
  <2>1. CASE FindNotRunnable \/ FailBefore \/ Pause \/ EndFlow
    BY <2>1 DEF FindNotRunnable, FailBefore, Pause, EndFlow
  <2>2. CASE Send \/ BackUp
    BY <2>2 DEF Send, BackUp
  <2>3. CASE RespondToSyncCaller \/ Break
    BY <2>3 DEF RespondToSyncCaller, Break, Responded
  <2>4. CASE Report \/ UploadEnd
    BY <2>4 DEF Report, UploadEnd
  <2> QED BY <1>5, <2>1, <2>2, <2>3, <2>4 DEF AttemptStep
<1>6. CASE (\E c \in {Webhook, Nobody} : Start(c)) \/ Take \/ Settle \/ BackoffOver \/ LoseWorker
  <2>1. CASE \E c \in {Webhook, Nobody} : Start(c)
    BY <2>1 DEF Start, JobInv
  <2>2. CASE Take \/ Settle \/ BackoffOver \/ LoseWorker
    BY <2>2 DEF Take, Settle, BackoffOver, LoseWorker, JobInv, NoAttempt, At
  <2> QED BY <1>6, <2>1, <2>2
<1> QED BY <1>1, <1>2, <1>3, <1>4, <1>5, <1>6, NextIs

-----------------------------------------------------------------------------
(* The waitpoints *)

\* An attempt that starts after a resume finds no waitpoint left, and none is created
\* while another stands, but for a second delivery of the job.
LEMMA RowsNext ==
  ASSUME SyncTypeOK, JobInv, BegunInv, RowsInv, [SyncNext]_syncVars
  PROVE  RowsInv'
<1> USE DEF RowsInv, Alive, Exists
<1>1. CASE Bystander
  BY <1>1, BystanderOutcome
<1>2. CASE UNCHANGED syncVars
  BY <1>2 DEF syncVars
<1>3. ASSUME NEW c \in {Webhook, Nobody}, Start(c) PROVE RowsInv'
  BY <1>3 DEF Start, JobFor, NoJob, BegunInv, waits, history
<1>4. CASE Signal
  <2>1. UNCHANGED <<attempt, mishaps>>
    BY <1>4, SignalIs
  <2>2. CASE UNCHANGED <<row, job>>
    BY <2>1, <2>2
  <2>3. ASSUME NEW r, NEW w \in Waitpoints, Exists(w), Resume(r, w) PROVE RowsInv'
    <3>1. row' = [row EXCEPT ![w] = "gone"]
      BY <2>3, ResumeOutcome
    <3>2. \A v \in Waitpoints : row'[v] = IF v = w THEN "gone" ELSE row[v]
      BY <3>1 DEF SyncTypeOK
    <3>3. CASE UNCHANGED job
      BY <2>1, <3>2, <3>3
    <3>4. CASE job' = JobFor(Carried(r, w), FALSE)
      BY <2>1, <2>3, <3>2, <3>4 DEF JobFor, NoJob
    <3> QED BY <2>3, <3>3, <3>4, ResumeOutcome
  <2>4. ASSUME NEW r, NEW w \in Waitpoints, row[w] = "PENDING", Complete(r, w), UNCHANGED job
        PROVE  RowsInv'
    <3>1. \A v \in Waitpoints : row'[v] = IF v = w THEN "COMPLETED" ELSE row[v]
      BY <2>4, CompleteOutcome DEF SyncTypeOK
    <3> QED BY <2>1, <2>4, <3>1
  <2> QED BY <1>4, <2>2, <2>3, <2>4, SignalIs
<1>5. CASE CreateWaitpoint
  <2>1. job.state = "active" /\ attempt.pc = "executing" /\ UNCHANGED <<job, mishaps>>
        /\ attempt'.pc = "created" /\ attempt'.verdict = "none"
    BY <1>5 DEF CreateWaitpoint, JobInv, history, At
  <2>2. CASE "worker" \in mishaps
    BY <2>1, <2>2
  <2>3. CASE "worker" \notin mishaps
    <3>1. \A w \in Waitpoints : ~Exists(w)
      BY <2>1, <2>3
    <3>2. PICK w \in Waitpoints : row' = [row EXCEPT ![w] = "PENDING"]
      BY <1>5, <2>3 DEF CreateWaitpoint
    <3>3. \A v \in Waitpoints : Exists(v)' => v = w
      BY <3>1, <3>2 DEF SyncTypeOK
    <3> QED BY <2>1, <3>3
  <2> QED BY <2>2, <2>3
<1>6. CASE AttemptStep
  <2>1. UNCHANGED <<job, row>> /\ ("worker" \in mishaps' <=> "worker" \in mishaps)
    BY <1>6, AttemptOutcome
  <2> DEFINE Early(a) == \/ a.pc \in {"off", "before", "executing", "refusing", "refused"}
                         \/ a.verdict = "retry"
  <2>2. Early(attempt') => Early(attempt)
    <3> USE DEF At, JobInv, SyncTypeOK, AttemptStates
    <3>1. CASE FindNotRunnable \/ FailBefore \/ Send
      BY <3>1 DEF FindNotRunnable, FailBefore, Send
    <3>2. CASE Pause \/ EndFlow \/ BackUp
      BY <3>2 DEF Pause, EndFlow, BackUp
    <3>3. CASE RespondToSyncCaller \/ Break
      BY <3>3 DEF RespondToSyncCaller, Break, Responded
    <3>4. CASE Report
      BY <3>4 DEF Report
    <3>5. CASE UploadEnd
      BY <3>5 DEF UploadEnd
    <3> QED BY <1>6, <3>1, <3>2, <3>3, <3>4, <3>5 DEF AttemptStep
  <2> QED BY <2>1, <2>2
<1>7. CASE Take \/ BackoffOver
  <2>1. UNCHANGED <<row, mishaps>> /\ job'.stalled = job.stalled /\ Alive /\ attempt.pc = "off"
    BY <1>7 DEF Take, BackoffOver, waits, history, JobInv, SyncTypeOK, JobStates
  <2> QED BY <2>1
<1>8. CASE Settle
  <2>1. UNCHANGED <<row, mishaps>> /\ job.state = "active"
    BY <1>8 DEF Settle, waits, history, JobInv
  <2>2. CASE job' = NoJob \/ job' = FailedJob
    BY <2>1, <2>2 DEF NoJob, FailedJob
  <2>3. CASE attempt.verdict = "retry" /\ job' = [job EXCEPT !.state = "delayed", !.tries = @ + 1]
    <3>1. job'.stalled = job.stalled
      BY <2>3 DEF SyncTypeOK, JobStates
    <3> QED BY <2>1, <2>3, <3>1
  <2> QED BY <1>8, <2>2, <2>3 DEF Settle
<1>9. CASE LoseWorker
  BY <1>9 DEF LoseWorker, Fails
<1> QED BY <1>1, <1>2, <1>3, <1>4, <1>5, <1>6, <1>7, <1>8, <1>9, NextIs

\* A resume starts a job for the caller its waitpoint had, and excuses the others.
LEMMA OwnersNext ==
  ASSUME SyncTypeOK, JobInv, BegunInv, RowsInv, OwnersInv, [SyncNext]_syncVars
  PROVE  OwnersInv'
<1> USE DEF OwnersInv, Alive, Exists
<1>1. CASE Bystander
  BY <1>1, BystanderOutcome
<1>2. CASE UNCHANGED syncVars
  BY <1>2 DEF syncVars
<1>3. ASSUME NEW c \in {Webhook, Nobody}, Start(c) PROVE OwnersInv'
  <2>1. \A w \in Waitpoints : row'[w] = "absent"
    BY <1>3 DEF Start, BegunInv, waits
  <2> QED BY <2>1
<1>4. CASE Signal
  <2>1. mishaps' = mishaps /\ excused \subseteq excused'
    BY <1>4, SignalIs
  <2>2. CASE UNCHANGED <<row, serves, job>>
    BY <2>1, <2>2
  <2>3. ASSUME NEW r, NEW w \in Waitpoints, Exists(w), Resume(r, w), UNCHANGED serves PROVE OwnersInv'
    <3>1. \A v \in Waitpoints : row'[v] = IF v = w THEN "gone" ELSE row[v]
      BY <2>3, ResumeOutcome DEF SyncTypeOK
    <3>2. CASE UNCHANGED job
      BY <2>1, <2>3, <3>1, <3>2
    <3>3. CASE job.state = "none" /\ job' = JobFor(Carried(r, w), FALSE)
      <4>1. job'.for = Carried(r, w) /\ ~job'.stalled
        BY <3>3 DEF JobFor, NoJob
      <4>2. PassedBy(r, w) \subseteq excused'
        BY <2>3, <3>3 DEF Resume
      <4>3. \A v \in Waitpoints : row'[v] = "PENDING" => serves[v] \in excused' \cup {job'.for}
        BY <3>1, <4>1, <4>2 DEF PassedBy
      <4>4. "worker" \notin mishaps => \A v \in Waitpoints : ~Exists(v)'
        BY <2>3, <3>1 DEF RowsInv
      <4> QED BY <2>1, <2>3, <4>1, <4>3, <4>4
    <3> QED BY <2>3, <3>2, <3>3, ResumeOutcome
  <2>4. ASSUME NEW r, NEW w \in Waitpoints, row[w] = "PENDING", Complete(r, w), UNCHANGED job
        PROVE  OwnersInv'
    <3>1. \A v \in Waitpoints : /\ row'[v] = IF v = w THEN "COMPLETED" ELSE row[v]
                                /\ serves'[v] = IF v = w THEN Carried(r, w) ELSE serves[v]
      BY <2>4, CompleteOutcome DEF SyncTypeOK
    <3>2. serves[w] = Carried(r, w) \/ serves[w] \in excused'
      BY <2>4, CompleteOutcome
    <3> QED BY <2>1, <2>4, <3>1, <3>2
  <2> QED BY <1>4, <2>2, <2>3, <2>4, SignalIs
<1>5. CASE CreateWaitpoint
  <2>1. UNCHANGED <<job, excused, mishaps>> /\ job.state = "active"
    BY <1>5 DEF CreateWaitpoint, history, JobInv
  <2>2. CASE UNCHANGED waits
    BY <2>1, <2>2 DEF waits
  <2>3. ASSUME NEW w \in Waitpoints, row' = [row EXCEPT ![w] = "PENDING"],
               serves' = [serves EXCEPT ![w] = job.for]
        PROVE  OwnersInv'
    <3>1. \A v \in Waitpoints : /\ row'[v] = IF v = w THEN "PENDING" ELSE row[v]
                                /\ serves'[v] = IF v = w THEN job.for ELSE serves[v]
      BY <2>3 DEF SyncTypeOK
    <3> QED BY <2>1, <3>1
  <2> QED BY <1>5, <2>2, <2>3 DEF CreateWaitpoint
<1>6. CASE AttemptStep
  BY <1>6, AttemptOutcome
<1>7. CASE Take \/ BackoffOver \/ LoseWorker
  <2>1. /\ UNCHANGED <<row, serves, excused>> /\ job'.for = job.for
        /\ job.state \in {"waiting", "delayed", "active"}
    BY <1>7 DEF Take, BackoffOver, LoseWorker, waits, history, JobInv, SyncTypeOK, JobStates,
                AttemptStates, NoAttempt, At
  <2>2. "worker" \notin mishaps' \/ job'.stalled => "worker" \notin mishaps \/ job.stalled
    BY <1>7 DEF Take, BackoffOver, LoseWorker, Fails, history, SyncTypeOK, JobStates
  <2> QED BY <2>1, <2>2
<1>8. CASE Settle
  <2>1. UNCHANGED <<row, serves, excused, mishaps>> /\ job.state = "active"
    BY <1>8 DEF Settle, waits, history, JobInv
  <2>2. CASE job' = NoJob \/ job' = FailedJob
    BY <2>2 DEF NoJob, FailedJob
  <2>3. CASE job' = [job EXCEPT !.state = "delayed", !.tries = @ + 1]
    <3>1. job'.stalled = job.stalled /\ job'.for = job.for
      BY <2>3 DEF SyncTypeOK, JobStates
    <3> QED BY <2>1, <3>1
  <2> QED BY <1>8, <2>2, <2>3 DEF Settle
<1> QED BY <1>1, <1>2, <1>3, <1>4, <1>5, <1>6, <1>7, <1>8, NextIs

-----------------------------------------------------------------------------
(* The answers *)

\* Together they are inductive.
AnswersInv ==
  /\ SyncTypeOK /\ JobInv /\ BegunInv /\ ToldInv /\ RowsInv /\ OwnersInv /\ LastInv
  /\ AnswerInv /\ NobodyIsForgotten

\* A resume leaves the answer of those who are not excused on its way.
LEMMA ResumeKeeps ==
  ASSUME SyncTypeOK, NEW r, NEW w \in Waitpoints, Resume(r, w), UNCHANGED <<serves, hash, status>>,
         NEW c \in Callers, c \notin excused'
  PROVE  /\ \A v \in Waitpoints : Keeps(v, c) => Keeps(v, c)' \/ (job.state = "none" /\ c = Carried(r, w))
         /\ \A v \in Waitpoints : serves[v] = c /\ row[v] = "COMPLETED" =>
              row'[v] = "COMPLETED" \/ (job.state = "none" /\ c = Carried(r, w))
<1>1. \A v \in Waitpoints : row'[v] = IF v = w THEN "gone" ELSE row[v]
  BY ResumeOutcome DEF SyncTypeOK
<1>2. serves[w] = c => job.state = "none" /\ c = Carried(r, w)
  <2>1. job.state = "none" => Displaced(r, w) \subseteq excused'
    BY DEF Resume
  <2> QED BY <2>1, ResumeOutcome, DisplacedIs
<1> QED BY <1>1, <1>2 DEF Keeps, Over

\* So does a completion, which may put one caller in the place of another.
LEMMA CompleteKeeps ==
  ASSUME SyncTypeOK, NEW r, NEW w \in Waitpoints, Complete(r, w), UNCHANGED <<hash, status>>,
         NEW c \in Callers, c \notin excused'
  PROVE  /\ c = Carried(r, w) => serves'[w] = c /\ row'[w] = "COMPLETED"
         /\ \A v \in Waitpoints : Keeps(v, c) => Keeps(v, c)'
         /\ \A v \in Waitpoints : serves[v] = c /\ row[v] = "COMPLETED" =>
              serves'[v] = c /\ row'[v] = "COMPLETED"
<1>1. \A v \in Waitpoints : /\ row'[v] = IF v = w THEN "COMPLETED" ELSE row[v]
                            /\ serves'[v] = IF v = w THEN Carried(r, w) ELSE serves[v]
  BY CompleteOutcome DEF SyncTypeOK
<1>2. serves[w] = c => c = Carried(r, w)
  BY CompleteOutcome
<1> QED BY <1>1, <1>2 DEF Keeps, Over

\* A signal hands the id on: to the job it starts, or to the row it completes.
LEMMA SignalsKeepAnswers ==
  ASSUME AnswersInv, Signal
  PROVE  AnswerInv' /\ NobodyIsForgotten'
<1> USE SyncAssumption
<1>a. SyncTypeOK /\ JobInv /\ AnswerInv /\ NobodyIsForgotten
  BY DEF AnswersInv
<1>b. UNCHANGED <<attempt, wire, hash, status>>
  BY <1>a, SignalIs
<1>1. CASE UNCHANGED <<row, serves, job>> /\ \A c \in Callers : Waiting(c)' => Waiting(c)
  <2>1. \A c \in Callers : (Answered(c)' <=> Answered(c)) /\ (Sure(c)' <=> Sure(c))
    BY <1>b, <1>1 DEF Answered, Sure, Keeps, Over
  <2> QED BY <1>a, <1>b, <1>1, <2>1 DEF AnswerInv, AttemptsLeft, NobodyIsForgotten, Answered
<1>2. ASSUME NEW r, NEW w \in Waitpoints, Resume(r, w), UNCHANGED serves,
             \A c \in Callers : Waiting(c)' => Waiting(c) \/ c = Carried(r, w)
      PROVE  AnswerInv' /\ NobodyIsForgotten'
  <2>1. CASE job.state = "none"
    <3>1. attempt.pc = "off" /\ attempt.verdict = "none" /\ job.for = Nobody /\ job'.for = Carried(r, w)
      <4>1. job.for = Nobody /\ attempt.pc = "off"
        BY <1>a, <2>1 DEF JobInv, Alive, SyncTypeOK, AttemptStates
      <4>2. attempt.verdict = "none"
        BY <1>a, <4>1 DEF JobInv
      <4>3. job' = JobFor(Carried(r, w), FALSE)
        BY <1>2, <2>1 DEF Resume
      <4>4. job'.for = Carried(r, w)
        BY <4>3 DEF JobFor, NoJob
      <4> QED BY <4>1, <4>2, <4>4
    <3>2. AnswerInv'
      BY <1>b, <3>1 DEF AnswerInv
    <3>3. ASSUME NEW c \in Callers, Waiting(c)', c # Carried(r, w) PROVE Answered(c)'
      <4>1. Answered(c) /\ c \notin excused'
        BY <1>a, <1>2, <3>1, <3>3 DEF NobodyIsForgotten, Answered, Waiting, Callers
      <4> QED BY <1>a, <1>b, <1>2, <3>3, <4>1, ResumeKeeps DEF Answered
    <3> QED BY <3>1, <3>2, <3>3 DEF NobodyIsForgotten, Answered
  <2>2. CASE job.state # "none"
    <3>1. UNCHANGED job /\ Carried(r, w) \in excused'
      BY <1>a, <1>2, <2>2, ResumeOutcome
    <3>2. ASSUME NEW c \in Callers, Waiting(c)'
          PROVE  Waiting(c) /\ (Answered(c) => Answered(c)') /\ (Sure(c) => Sure(c)')
      <4>1. c \notin excused' /\ Waiting(c)
        BY <1>2, <3>1, <3>2 DEF Waiting
      <4>2. Answered(c) => Answered(c)'
        BY <1>a, <1>b, <1>2, <2>2, <4>1, ResumeKeeps DEF Answered
      <4>3. Sure(c) => Sure(c)'
        BY <1>a, <1>b, <1>2, <2>2, <4>1, ResumeKeeps DEF Sure
      <4> QED BY <4>1, <4>2, <4>3
    <3> QED BY <1>a, <1>b, <3>1, <3>2 DEF AnswerInv, AttemptsLeft, NobodyIsForgotten, Answered
  <2> QED BY <2>1, <2>2
<1>3. ASSUME NEW r, NEW w \in Waitpoints, Complete(r, w), UNCHANGED job,
             \A c \in Callers : Waiting(c)' => Waiting(c) \/ c = Carried(r, w)
      PROVE  AnswerInv' /\ NobodyIsForgotten'
  <2>1. ASSUME NEW c \in Callers, Waiting(c)'
        PROVE  \/ Answered(c)' /\ Sure(c)'
               \/ Waiting(c) /\ (Answered(c) => Answered(c)') /\ (Sure(c) => Sure(c)')
    <3>1. c \notin excused'
      BY <2>1 DEF Waiting
    <3>2. CASE c = Carried(r, w)
      <4>1. serves'[w] = c /\ row'[w] = "COMPLETED"
        BY <1>a, <1>b, <1>3, <3>1, <3>2, CompleteKeeps
      <4> QED BY <4>1 DEF Answered, Sure, Keeps
    <3>3. CASE c # Carried(r, w)
      <4>1. Waiting(c)
        BY <1>3, <2>1, <3>3
      <4>2. Answered(c) => Answered(c)'
        BY <1>a, <1>b, <1>3, <3>1, CompleteKeeps DEF Answered
      <4>3. Sure(c) => Sure(c)'
        BY <1>a, <1>b, <1>3, <3>1, CompleteKeeps DEF Sure
      <4> QED BY <4>1, <4>2, <4>3
    <3> QED BY <3>2, <3>3
  <2> QED BY <1>a, <1>b, <1>3, <2>1 DEF AnswerInv, AttemptsLeft, NobodyIsForgotten, Answered
<1> QED BY <1>a, <1>1, <1>2, <1>3, SignalIs

\* An attempt answers before it is over, or has left the id in a waitpoint.
LEMMA AttemptKeepsAnswers ==
  ASSUME AnswersInv, AttemptStep
  PROVE  AnswerInv' /\ NobodyIsForgotten'
<1> USE SyncAssumption
<1>a. SyncTypeOK /\ JobInv /\ OwnersInv /\ LastInv /\ AnswerInv /\ NobodyIsForgotten
  BY DEF AnswersInv
<1>b. UNCHANGED <<job, row, serves, call, promise, excused>> /\ wire \subseteq wire'
  BY <1>a, AttemptOutcome
<1>c. \A c \in Callers : Waiting(c)' <=> Waiting(c)
  BY <1>b DEF Waiting, Pending
<1>d. Alive
  <2>1. attempt.pc # "off"
    BY DEF AttemptStep, FindNotRunnable, FailBefore, Send, Pause, EndFlow, BackUp, RespondToSyncCaller,
           Break, Responded, At, Report, UploadEnd
  <2> QED BY <1>a, <2>1 DEF JobInv, Alive
<1>1. NobodyIsForgotten'
  <2> SUFFICES ASSUME NEW c \in Callers, Waiting(c)', c # job.for PROVE Answered(c)'
    BY <1>b DEF NobodyIsForgotten, Answered
  <2>1. Waiting(c) /\ Answered(c) /\ c \notin excused /\ c # Nobody
    BY <1>a, <1>c DEF NobodyIsForgotten, Answered, Waiting, Callers
  <2>2. ASSUME NEW w \in Waitpoints, Keeps(w, c) PROVE Keeps(w, c)'
    <3>1. row[w] # "PENDING"
      BY <1>a, <1>d, <2>1, <2>2 DEF OwnersInv, Keeps
    <3> QED BY <1>b, <2>2, <3>1 DEF Keeps
  <2> QED BY <1>b, <2>1, <2>2 DEF Answered
<1>2. AnswerInv'
  <2> SUFFICES ASSUME NEW c \in Callers, c = job.for, Waiting(c)
               PROVE /\ attempt'.pc \in {"refused", "reporting"} => Sure(c)'
                     /\ attempt'.pc = "created" \/ attempt'.verdict = "paused" => Answered(c)'
                     /\ attempt'.pc = "over" /\ (attempt'.verdict = "retry" => ~AttemptsLeft) => Answered(c)'
    BY <1>b, <1>c DEF AnswerInv, AttemptsLeft
  <2>a. /\ attempt.pc \in {"refused", "reporting"} => Sure(c)
        /\ attempt.pc = "created" \/ attempt.verdict = "paused" => Answered(c)
    BY <1>a DEF AnswerInv
  <2>b. Sure(c) => Sure(c)' /\ Answered(c)'
    BY <1>b DEF Sure, Answered, Keeps
  <2>c. ~Over' /\ Answered(c) => Answered(c)'
    BY <1>b DEF Answered, Keeps
  <2>d. UNCHANGED <<hash, status>> /\ Answered(c) => Answered(c)'
    BY <1>b DEF Answered, Keeps, Over
  <2>e. Publish => Sure(c)' /\ Answered(c)'
    BY DEF Publish, Waiting, Sure, Answered
  <2> USE DEF At
  <2>1. CASE FindNotRunnable \/ Send \/ EndFlow \/ Break
    BY <2>1 DEF FindNotRunnable, Send, EndFlow, Break
  <2>2. CASE FailBefore
    BY <2>2 DEF FailBefore, RetriesQuickly
  <2>3. CASE Pause
    BY <2>3, <2>a, <2>d DEF Pause, run
  <2>4. CASE BackUp
    <3>1. attempt'.pc = "backedUp" /\ attempt'.verdict = attempt.verdict
      BY <1>a, <2>4 DEF BackUp, SyncTypeOK, AttemptStates
    <3>2. CASE attempt.verdict = "paused"
      <4>1. ~Over'
        BY <2>4, <3>2 DEF BackUp, Over
      <4> QED BY <2>a, <2>c, <3>1, <3>2, <4>1
    <3> QED BY <3>1, <3>2
  <2>5. CASE RespondToSyncCaller
    <3>1. attempt.pc = "backedUp" /\ attempt' = At("over", "none") /\ AnswerVerdict
          /\ UNCHANGED <<hash, status>>
      BY <2>5 DEF RespondToSyncCaller, Responded, run
    <3>2. Answered(c)'
      BY <1>a, <2>a, <2>d, <2>e, <3>1 DEF AnswerVerdict, JobInv
    <3> QED BY <3>1, <3>2
  <2>6. CASE Report
    <3>1. attempt'.pc \in {"refused", "reporting"} /\ attempt'.verdict \in {"failed", "retry"} /\ Publish
      BY <1>a, <2>6 DEF Report, JobInv, SyncTypeOK, AttemptStates
    <3> QED BY <2>e, <3>1
  <2>7. CASE UploadEnd
    <3>1. attempt.pc \in {"refused", "reporting"} /\ attempt'.pc = "over"
      BY <1>a, <2>7 DEF UploadEnd, SyncTypeOK, AttemptStates
    <3> QED BY <2>a, <2>b, <3>1
  <2> QED BY <2>1, <2>2, <2>3, <2>4, <2>5, <2>6, <2>7 DEF AttemptStep
<1> QED BY <1>1, <1>2

\* A job that is settled leaves no caller behind.
LEMMA AnswersNext == AnswersInv /\ [SyncNext]_syncVars => AnswerInv' /\ NobodyIsForgotten'
<1> SUFFICES ASSUME AnswersInv, [SyncNext]_syncVars PROVE AnswerInv' /\ NobodyIsForgotten'
  OBVIOUS
<1> USE SyncAssumption
<1>a. SyncTypeOK /\ JobInv /\ BegunInv /\ OwnersInv /\ LastInv /\ AnswerInv /\ NobodyIsForgotten
  BY DEF AnswersInv
<1>1. CASE Bystander
  <2>1. /\ UNCHANGED <<job, attempt, row, serves>> /\ Over' = Over
        /\ \A c \in Callers : Waiting(c)' => Waiting(c) /\ (c \in wire => c \in wire')
    BY <1>a, <1>1, BystanderOutcome
  <2>2. \A c \in Callers : Waiting(c)' => Waiting(c) /\ (Answered(c) => Answered(c)') /\ (Sure(c) => Sure(c)')
    BY <2>1 DEF Answered, Sure, Keeps
  <2> QED BY <1>a, <2>1, <2>2 DEF AnswerInv, AttemptsLeft, NobodyIsForgotten, Answered
<1>2. CASE UNCHANGED syncVars
  BY <1>a, <1>2 DEF syncVars, AnswerInv, AttemptsLeft, NobodyIsForgotten, Answered, Sure, Keeps, Over,
                    Waiting, Pending
<1>3. ASSUME NEW c \in {Webhook, Nobody}, Start(c) PROVE AnswerInv' /\ NobodyIsForgotten'
  <2>1. /\ job'.for = c /\ attempt'.pc = "off" /\ attempt'.verdict = "none" /\ wire' = wire
        /\ promise' = promise /\ excused' = excused
    BY <1>a, <1>3 DEF Start, JobFor, NoJob, JobInv, history
  <2>2. AnswerInv'
    BY <2>1 DEF AnswerInv
  <2>3. ASSUME NEW d \in Callers, Waiting(d)', d # c PROVE d \in wire
    <3>1. Waiting(d)
      BY <1>a, <1>3, <2>1, <2>3 DEF Start, Waiting, Pending, SyncTypeOK, Callers, Signals
    <3>2. job.for # d /\ \A w \in Waitpoints : row[w] = "absent"
      BY <1>a, <1>3 DEF Start, BegunInv, NoJob, Callers
    <3> QED BY <1>a, <3>1, <3>2 DEF NobodyIsForgotten, Keeps
  <2> QED BY <2>1, <2>2, <2>3 DEF NobodyIsForgotten
<1>4. CASE Signal
  BY <1>4, SignalsKeepAnswers
<1>5. CASE CreateWaitpoint
  <2>1. /\ UNCHANGED <<job, wire, hash, status, call, promise, excused>> /\ job.state = "active"
        /\ attempt.pc = "executing" /\ attempt'.pc = "created" /\ attempt'.verdict = "none"
    BY <1>a, <1>5 DEF CreateWaitpoint, JobInv, callers, run, history, At
  <2>2. ~Over /\ ~Over'
    BY <1>a, <2>1 DEF LastInv, Over
  <2>3. ASSUME NEW v \in Waitpoints, NEW c \in Callers, Keeps(v, c) PROVE Keeps(v, c)'
    <3>1. row'[v] = row[v] /\ serves'[v] = serves[v]
      BY <1>a, <1>5, <2>3 DEF CreateWaitpoint, Keeps, waits, SyncTypeOK
    <3> QED BY <2>2, <2>3, <3>1 DEF Keeps
  <2>4. ASSUME NEW c \in Callers, Waiting(c), c = job.for PROVE Answered(c)'
    <3>1. ASSUME NEW w \in Waitpoints, row' = [row EXCEPT ![w] = "PENDING"],
                 serves' = [serves EXCEPT ![w] = job.for]
          PROVE  Keeps(w, c)'
      BY <1>a, <2>2, <2>4, <3>1 DEF Keeps, SyncTypeOK
    <3>2. ASSUME NEW w \in Waitpoints, job.stalled, Exists(w) PROVE Keeps(w, c)
      <4>1. serves[w] = c
        BY <1>a, <2>1, <2>4, <3>2 DEF OwnersInv, Alive, Waiting
      <4> QED BY <2>2, <3>2, <4>1 DEF Keeps, Exists
    <3> QED BY <1>5, <2>3, <3>1, <3>2 DEF CreateWaitpoint, Answered
  <2>5. \A c \in Callers : Waiting(c)' <=> Waiting(c)
    BY <2>1 DEF Waiting, Pending
  <2> QED BY <1>a, <2>1, <2>3, <2>4, <2>5 DEF AnswerInv, NobodyIsForgotten, Answered
<1>6. CASE AttemptStep
  BY <1>6, AttemptKeepsAnswers
<1>7. CASE Take \/ Settle \/ BackoffOver \/ LoseWorker
  <2>1. /\ UNCHANGED <<wire, hash, status, call, promise, excused, row, serves>>
        /\ attempt'.pc \in {"off", "before", "refusing"} /\ attempt'.verdict \in {"none", "failed"}
    BY <1>a, <1>7 DEF Take, Settle, BackoffOver, LoseWorker, JobInv, callers, run, waits, history, NoAttempt, At
  <2>2. AnswerInv'
    BY <2>1 DEF AnswerInv
  <2>3. \A c \in Callers : (Waiting(c)' <=> Waiting(c)) /\ (Answered(c)' <=> Answered(c))
    BY <2>1 DEF Waiting, Pending, Answered, Keeps, Over
  <2>4. CASE job'.for = job.for
    BY <1>a, <2>2, <2>3, <2>4 DEF NobodyIsForgotten, Answered
  <2>5. CASE Settle /\ attempt.pc = "over" /\ (attempt.verdict = "retry" => ~AttemptsLeft)
    <3>1. \A c \in Callers : c = job.for /\ Waiting(c) => Answered(c)
      BY <1>a, <2>5 DEF AnswerInv
    <3> QED BY <1>a, <2>2, <2>3, <3>1 DEF NobodyIsForgotten, Answered
  <2>6. CASE Settle
    <3>1. attempt.pc = "over" /\ (attempt.verdict = "retry" /\ AttemptsLeft => job'.for = job.for)
      <4>1. [job EXCEPT !.state = "delayed", !.tries = @ + 1].for = job.for
        BY <1>a DEF SyncTypeOK, JobStates
      <4> QED BY <2>6, <4>1 DEF Settle
    <3> QED BY <2>4, <2>5, <2>6, <3>1
  <2>7. CASE Take \/ BackoffOver \/ LoseWorker
    <3>1. job'.for = job.for
      BY <1>a, <2>7 DEF Take, BackoffOver, LoseWorker, SyncTypeOK, JobStates
    <3> QED BY <2>4, <3>1
  <2> QED BY <1>7, <2>6, <2>7
<1> QED BY <1>1, <1>2, <1>3, <1>4, <1>5, <1>6, <1>7, NextIs

\* Nobody calls before the start.
LEMMA AnswersInvInit == SyncInit => AnswersInv
<1> SUFFICES ASSUME SyncInit PROVE AnswersInv
  OBVIOUS
<1>1. SyncTypeOK
  BY TypesInit
<1>2. JobInv /\ ToldInv /\ LastInv /\ BegunInv
  BY DEF SyncInit, JobInv, ToldInv, LastInv, BegunInv, Alive, NoJob, NoAttempt, At, Over, Now
<1>3. RowsInv /\ OwnersInv
  BY DEF SyncInit, RowsInv, OwnersInv, Alive, Exists, NoJob
<1>4. AnswerInv /\ NobodyIsForgotten
  <2>1. \A c \in Callers : ~Waiting(c)
    BY DEF SyncInit, Waiting, Callers, Signals, Now, Pending
  <2> QED BY <2>1 DEF AnswerInv, NobodyIsForgotten
<1> QED BY <1>1, <1>2, <1>3, <1>4 DEF AnswersInv

\* The invariant holds in every reachable state.
LEMMA AnswersInvariance == SyncSpec => []AnswersInv
<1>1. AnswersInv /\ [SyncNext]_syncVars => AnswersInv'
  <2> SUFFICES ASSUME AnswersInv, [SyncNext]_syncVars PROVE AnswersInv'
    OBVIOUS
  <2>1. SyncTypeOK /\ JobInv /\ BegunInv /\ ToldInv /\ RowsInv /\ OwnersInv /\ LastInv
    BY DEF AnswersInv
  <2> QED BY <2>1, TypesNext, JobNext, BegunNext, ToldNext, RowsNext, OwnersNext, LastNext, AnswersNext
          DEF AnswersInv
<1> QED BY <1>1, AnswersInvInit, PTL DEF SyncSpec

\* Any number of resumers, waitpoints and attempts, and whatever faults: the variables
\* of the callers and their run keep their types.
THEOREM SyncTypes == SyncSpec => []SyncTypeOK
<1>1. AnswersInv => SyncTypeOK
  BY DEF AnswersInv
<1> QED BY <1>1, AnswersInvariance, PTL

\* A caller that was accepted and waits has its answer under way, or its id is in the
\* run's job or in a waitpoint: unless it is excused.
THEOREM CallersAreRemembered == SyncSpec => []NobodyIsForgotten
<1>1. AnswersInv => NobodyIsForgotten
  BY DEF AnswersInv
<1> QED BY <1>1, AnswersInvariance, PTL

\* No flow is executed for a caller that has been told it failed.
THEOREM FailureIsTheLastWord == SyncSpec => FailureIsFinal
<1> DEFINE Silent == attempt'.pc = "executing" /\ attempt.pc = "before" => ~told
<1>1. AnswersInv /\ [SyncNext]_syncVars => [Silent]_syncVars
  <2> SUFFICES ASSUME AnswersInv, attempt.pc = "before" PROVE ~told
    OBVIOUS
  <2>1. Alive
    BY DEF AnswersInv, JobInv, Alive
  <2> QED BY <2>1 DEF AnswersInv, ToldInv
<1> QED BY <1>1, AnswersInvariance, PTL DEF SyncSpec, FailureIsFinal
=============================================================================
