-------------------------- MODULE QueueDispatcher --------------------------
(***************************************************************************)
(* The dispatcher of one queue in one API process                          *)
(* (job-queue/queue-dispatcher.ts) and the poll RPC in front of it         *)
(* (rpc/worker-rpc-service.ts): workers park a poll, one loop takes jobs   *)
(* from the queue and hands each to the poll that has waited longest.      *)
(*                                                                         *)
(* JavaScript runs one callback at a time, so whatever happens between two *)
(* awaits is one step.  A poll stands for one call of the RPC; its id is   *)
(* used again by a later call once it has returned.                        *)
(***************************************************************************)
EXTENDS Naturals, SequencesExt

CONSTANTS
  Jobs,             \* jobs of the queue
  Polls,            \* calls of the poll RPC that may be open at a time
  Loops,            \* ids for the loops a dispatcher could have running
  None,             \* no job
  MaxDisconnects,   \* bound: sockets that close, or workers that stop polling
  MaxErrors,        \* bound: dequeues that throw
  MaxFailedReturns  \* bound: jobs that cannot be put back into the queue

ASSUME DispatcherAssumption ==
  /\ None \notin Jobs /\ Loops # {} /\ Polls \intersect Loops = {}
  /\ MaxDisconnects \in Nat /\ MaxErrors \in Nat /\ MaxFailedReturns \in Nat

VARIABLES
  queued,       \* jobs in the queue
  delivered,    \* jobs that were sent to the worker that asked
  stranded,     \* jobs left active with nobody to run them
  waiters,      \* the polls that wait, longest first
  poll,         \* what each call of the poll RPC is doing
  loopRunning,  \* the dispatcher's flag
  loop,         \* what each loop is doing
  closed,       \* close was called
  faults        \* how often each bounded fault has happened

vars == <<queued, delivered, stranded, waiters, poll, loopRunning, loop, closed, faults>>

PollPhases == {"idle", "waiting", "answered", "returning"}
LoopPhases == {"off", "asking", "carrying", "returning", "sleeping"}
PollStates == [phase : PollPhases, job : Jobs \union {None}, gone : BOOLEAN]
LoopStates == [phase : LoopPhases, job : Jobs \union {None}]
Idle == [phase |-> "idle", job |-> None, gone |-> FALSE]
Off == [phase |-> "off", job |-> None]
Faults == {"disconnect", "error", "return"}
Bound(f) == CASE f = "disconnect" -> MaxDisconnects [] f = "error" -> MaxErrors
              [] f = "return" -> MaxFailedReturns
Fault(f) == faults[f] < Bound(f) /\ faults' = [faults EXCEPT ![f] = @ + 1]

Running(l) == loop[l].phase # "off"

Init ==
  /\ queued = Jobs /\ delivered = {} /\ stranded = {}
  /\ waiters = <<>> /\ poll = [p \in Polls |-> Idle]
  /\ loopRunning = FALSE /\ loop = [l \in Loops |-> Off]
  /\ closed = FALSE /\ faults = [f \in Faults |-> 0]

SetLoop(l, phase, j) == loop' = [loop EXCEPT ![l] = [phase |-> phase, job |-> j]]
SetPoll(p, phase, j) ==
  poll' = [poll EXCEPT ![p] = [phase |-> phase, job |-> j, gone |-> @.gone]]
Dispatcher == <<waiters, loopRunning, loop>>
Places == <<queued, delivered, stranded>>

\* --------------------------------------------------------------- poll side

(* startLoop.  The loop's body runs up to its first await at once, and the *)
(* poll that called it is waiting, so it starts by asking for a job.       *)
StartLoop ==
  IF loopRunning THEN UNCHANGED <<loopRunning, loop>>
  ELSE /\ loopRunning' = TRUE
       /\ \E l \in Loops : ~Running(l) /\ SetLoop(l, "asking", None)

\* A worker polls on a live socket: an aborted signal is answered at once.
Poll(p) ==
  /\ poll[p].phase = "idle"
  /\ SetPoll(p, "waiting", None)
  /\ waiters' = Append(waiters, p)
  /\ StartLoop
  /\ UNCHANGED <<Places, closed, faults>>

\* dropWaiter: out of the list, and answered with null.
DropWaiter(p) ==
  /\ SetPoll(p, "answered", None)
  /\ \E i \in 1 .. Len(waiters) : waiters[i] = p /\ waiters' = RemoveAt(waiters, i)

\* Mutant: a poll is timed out only once the loop has ended.
TimeoutAfterLoop(p) ==
  /\ poll[p].phase = "waiting" /\ ~loopRunning
  /\ DropWaiter(p)
  /\ UNCHANGED <<Places, loopRunning, loop, closed, faults>>

\* WAITER_TIMEOUT_MS passed.
Timeout(p) ==
  /\ poll[p].phase = "waiting"
  /\ DropWaiter(p)
  /\ UNCHANGED <<Places, loopRunning, loop, closed, faults>>

(* The socket closes or the worker stops polling.  A waiting poll leaves   *)
(* the list at once; one that has its answer has yet to look at the signal.*)
Disconnect(p) ==
  /\ poll[p].phase \in {"waiting", "answered"} /\ ~poll[p].gone
  /\ Fault("disconnect")
  /\ IF poll[p].phase = "waiting"
     THEN /\ \E i \in 1 .. Len(waiters) : waiters[i] = p /\ waiters' = RemoveAt(waiters, i)
          /\ poll' = [poll EXCEPT ![p] = [phase |-> "answered", job |-> None, gone |-> TRUE]]
     ELSE poll' = [poll EXCEPT ![p].gone = TRUE] /\ UNCHANGED waiters
  /\ UNCHANGED <<Places, loopRunning, loop, closed>>

\* Mutant: the job is acknowledged without a look at the signal (#589).
ReplyBlindly(p) ==
  /\ poll[p].phase = "answered"
  /\ poll' = [poll EXCEPT ![p] = Idle]
  /\ IF poll[p].gone
     THEN UNCHANGED delivered
     ELSE delivered' = delivered \union ({poll[p].job} \ {None})
  /\ UNCHANGED <<queued, stranded, Dispatcher, closed, faults>>

(* The handler goes on after jobBroker.poll: a poll that ended returns its *)
(* job to the queue, any other is acknowledged with what it got.           *)
Reply(p) ==
  /\ poll[p].phase = "answered"
  /\ IF poll[p].gone /\ poll[p].job # None
     THEN SetPoll(p, "returning", poll[p].job) /\ UNCHANGED delivered
     ELSE /\ poll' = [poll EXCEPT ![p] = Idle]
          /\ delivered' = delivered \union ({poll[p].job} \ {None})
  /\ UNCHANGED <<queued, stranded, Dispatcher, closed, faults>>

\* A job goes back to the queue, or the attempt fails and it stays active.
PutBack(j) ==
  \/ queued' = queued \union {j} /\ UNCHANGED <<delivered, stranded, faults>>
  \/ Fault("return") /\ stranded' = stranded \union {j} /\ UNCHANGED <<queued, delivered>>

\* returnToQueue of the handler.
ReturnReply(p) ==
  /\ poll[p].phase = "returning"
  /\ PutBack(poll[p].job)
  /\ poll' = [poll EXCEPT ![p] = Idle]
  /\ UNCHANGED <<Dispatcher, closed>>

\* --------------------------------------------------------------- loop side

\* Mutant: the loop ends without clearing the flag.
EndSilently(l) ==
  /\ UNCHANGED loopRunning
  /\ IF waiters # <<>> THEN SetLoop(l, "asking", None) ELSE SetLoop(l, "off", None)

\* The top of the while loop: on with the next dequeue, or out.
Again(l) ==
  IF waiters # <<>> THEN SetLoop(l, "asking", None) /\ UNCHANGED loopRunning
                    ELSE SetLoop(l, "off", None) /\ loopRunning' = FALSE

\* dequeue takes a job from the queue; the loop has not seen it yet.
TakeJob(l, j) ==
  /\ loop[l].phase = "asking" /\ j \in queued
  /\ queued' = queued \ {j}
  /\ SetLoop(l, "carrying", j)
  /\ UNCHANGED <<delivered, stranded, waiters, poll, loopRunning, closed, faults>>

\* dequeue returns null after its drain delay.
Nothing(l) ==
  /\ loop[l].phase = "asking" /\ queued = {}
  /\ Again(l)
  /\ UNCHANGED <<Places, waiters, poll, closed, faults>>

\* dequeue throws: the loop sleeps before it goes on.
DequeueError(l) ==
  /\ loop[l].phase = "asking"
  /\ Fault("error") /\ SetLoop(l, "sleeping", None)
  /\ UNCHANGED <<Places, waiters, poll, loopRunning, closed>>

WakeUp(l) ==
  /\ loop[l].phase = "sleeping"
  /\ Again(l)
  /\ UNCHANGED <<Places, waiters, poll, closed, faults>>

\* waiters.shift() and resolve(job).
HandOut(l) ==
  /\ loop[l].phase = "carrying" /\ waiters # <<>>
  /\ SetPoll(Head(waiters), "answered", loop[l].job)
  /\ waiters' = Tail(waiters)
  /\ IF Len(waiters) > 1
     THEN SetLoop(l, "asking", None) /\ UNCHANGED loopRunning
     ELSE SetLoop(l, "off", None) /\ loopRunning' = FALSE
  /\ UNCHANGED <<Places, closed, faults>>

\* Nobody waits any more: onOrphanedJob.
Orphan(l) ==
  /\ loop[l].phase = "carrying" /\ waiters = <<>>
  /\ SetLoop(l, "returning", loop[l].job)
  /\ UNCHANGED <<Places, waiters, poll, loopRunning, closed, faults>>

ReturnOrphan(l) ==
  /\ loop[l].phase = "returning"
  /\ PutBack(loop[l].job) /\ Again(l)
  /\ UNCHANGED <<waiters, poll, closed>>

\* Mutant: close clears the flag although a loop is still under way.
CloseAndReset ==
  /\ ~closed /\ closed' = TRUE
  /\ waiters' = <<>>
  /\ poll' = [p \in Polls |->
       IF poll[p].phase = "waiting" THEN [poll[p] EXCEPT !.phase = "answered"] ELSE poll[p]]
  /\ loopRunning' = FALSE
  /\ UNCHANGED <<Places, loop, faults>>

(* close: every waiter is answered with null; the loop that is under way   *)
(* finds the list empty and ends by itself, or meets a poll parked since.  *)
Close ==
  /\ ~closed /\ closed' = TRUE
  /\ waiters' = <<>>
  /\ poll' = [p \in Polls |->
       IF poll[p].phase = "waiting" THEN [poll[p] EXCEPT !.phase = "answered"] ELSE poll[p]]
  /\ UNCHANGED <<Places, loopRunning, loop, faults>>

LoopStep(l) ==
  \/ \E j \in Jobs : TakeJob(l, j)
  \/ Nothing(l) \/ WakeUp(l) \/ HandOut(l) \/ Orphan(l) \/ ReturnOrphan(l)
PollStep(p) == Timeout(p) \/ Reply(p) \/ ReturnReply(p)

Next ==
  \/ \E p \in Polls : Poll(p) \/ PollStep(p) \/ Disconnect(p)
  \/ \E l \in Loops : LoopStep(l) \/ DequeueError(l)
  \/ Close

Spec == Init /\ [][Next]_vars

(* Fairness: a worker whose poll returned polls again; promises, timers    *)
(* and awaited calls go on.  A poll waits for 50 seconds and a dequeue     *)
(* takes at most 15, so the polls cannot time out before the loop gets its *)
(* job again and again: what the loop does while one waits is strongly     *)
(* fair.                                                                   *)
Fairness ==
  /\ WF_vars(\E p \in Polls : Poll(p))
  /\ \A p \in Polls : WF_vars(PollStep(p))
  /\ \A l \in Loops : /\ WF_vars(LoopStep(l)) /\ SF_vars(HandOut(l))
                      /\ SF_vars(waiters # <<>> /\ \E j \in Jobs : TakeJob(l, j))

FairSpec == Spec /\ Fairness

\* -------------------------------------------------------------- properties

\* Type correctness of the dispatcher's state.
TypeOK ==
  /\ queued \subseteq Jobs /\ delivered \subseteq Jobs /\ stranded \subseteq Jobs
  /\ waiters \in Seq(Polls)
  /\ poll \in [Polls -> PollStates]
  /\ loopRunning \in BOOLEAN /\ loop \in [Loops -> LoopStates]
  /\ closed \in BOOLEAN /\ faults \in [Faults -> Nat]

(* A dispatcher never has two loops: they would take two jobs for one      *)
(* waiter, and the order of the queue would be lost.                       *)
OneLoop == \A l, m \in Loops : Running(l) /\ Running(m) => l = m

(* A poll that waits is looked after: it is in the list once, and a loop   *)
(* is running that will look at the list again.                            *)
NoWaiterForgotten ==
  /\ \A p \in Polls : poll[p].phase = "waiting" =>
       \E i \in 1 .. Len(waiters) : waiters[i] = p
  /\ waiters # <<>> => \E l \in Loops : Running(l)

(* The list holds only polls that still wait, each once, so no job goes to *)
(* a poll that has timed out, was answered or whose socket is gone (#589). *)
OnlyWaitersInList ==
  \A i, k \in 1 .. Len(waiters) :
    /\ poll[waiters[i]].phase = "waiting"
    /\ waiters[i] = waiters[k] => i = k

(* No job is lost or run twice: each is in the queue, delivered, stranded  *)
(* by a failed return, or in the hands of exactly one poll or loop.        *)
Holders(j) == {p \in Polls : poll[p].job = j} \union {l \in Loops : loop[l].job = j}
JobsAccountedFor ==
  /\ queued \intersect delivered = {}
  /\ stranded \intersect (queued \union delivered) = {}
  /\ \A j \in Jobs : IF j \in queued \union delivered \union stranded
                     THEN Holders(j) = {}
                     ELSE \E h \in Polls \union Loops : Holders(j) = {h}

(* Each job reaches a worker that is still there, unless its return to the *)
(* queue failed and it waits for the stalled scan; and no poll waits for   *)
(* ever: it gets a job or null.                                            *)
EveryoneIsServed ==
  /\ <>(delivered \union stranded = Jobs)
  /\ \A p \in Polls : poll[p].phase = "waiting" ~> poll[p].phase # "waiting"
=============================================================================
