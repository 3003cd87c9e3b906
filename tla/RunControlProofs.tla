------------------------- MODULE RunControlProofs -------------------------
(***************************************************************************)
(* Proofs about RunControl: type correctness, that a run which says QUEUED *)
(* has a job or someone at work on it, whose add a retry's may lose to,    *)
(* and that a run stored as CANCELED is left alone.                        *)
(***************************************************************************)
EXTENDS RunControl, TLAPS

\* Nothing happens to a run before its start.
StartInv ==
  start = "idle" =>
    /\ row = "absent" /\ hash = "none" /\ ~HasJob /\ ~waiting
    /\ \A k \in Retries : retry[k].pc = "idle"
    /\ \A c \in Cancels : cancel[c] = "idle"
    /\ \A s \in Resumes : resume[s] = "idle"

\* What is stored, or will be once the uploads are drained, is QUEUED.
Queued == hash = "QUEUED" \/ (hash = "none" /\ row = "QUEUED")

\* Someone who can only go on to add the job, or to say that the run is cancelled.
Committed ==
  \/ \E k \in Retries : retry[k].pc \in {"update", "add"}
  \/ \E c \in Cancels : cancel[c] = "upload"

\* The job will be run, or handed out again.
WillRun ==
  \/ job.state \in {"waiting", "delayed"}
  \/ attempt = "taken"
  \/ attempt = "retryable" /\ ~LastAttempt

\* A caller that merely looks is not counted on, and neither is the start once
\* another's job has the id.
QueuedInv ==
  Queued => abandoned \/ ignored \/ StalledOut \/ (Starting /\ ~HasJob) \/ Committed \/ WillRun

\* A job under the id that a retry found free is a newer one.
NewerInv ==
  \A k \in Retries :
    /\ retry[k].pc \in {"update", "add"} /\ HasJob => k \in newer
    /\ retry[k].pc = "ignored" => k \in newer

\* Nobody is left who could add a job without queueing the run first.
CanceledInv ==
  row = "CANCELED" /\ ~crossed =>
    /\ ~HasJob /\ start \notin {"idle", "uploaded"}
    /\ \A k \in Retries : retry[k].pc # "add"
    /\ \A s \in Resumes : resume[s] # "read"

Inv == TypeOK /\ StartInv /\ QueuedInv /\ NewerInv /\ CanceledInv

PCs == Looking \cup {"idle", "update", "add", "ignored", "over"}
RetryTyped == retry \in [Retries -> [pc : PCs, ended : BOOLEAN]]

\* What a step of a retry does to the calls.
LEMMA RetryToMoves ==
  ASSUME RetryTyped, NEW k \in Retries, NEW p \in PCs, RetryTo(k, p)
  PROVE  /\ RetryTyped'
         /\ retry'[k].pc = p
         /\ \A j \in Retries : j # k => retry'[j] = retry[j]
  BY DEF RetryTyped, RetryTo

\* A start finds nothing of the run.
LEMMA StartKeeps ==
  ASSUME Inv, Start
  PROVE  Inv'
<1> USE ControlAssumption DEF Inv, TypeOK, NoJob, InFlight, HasJob
<1>1. TypeOK'
  BY DEF Start, callers, history, Statuses, Cancellable, Terminal
<1>2. StartInv'
  BY DEF Start, callers, history, StartInv
<1>3. QueuedInv'
  BY DEF Start, callers, history, QueuedInv, Queued, Starting, Committed, WillRun, LastAttempt, StalledOut,
     StalledTooOften, StartInv
<1>4. NewerInv'
  BY DEF Start, callers, history, NewerInv, Retrying, Looking
<1>5. CanceledInv'
  BY DEF Start, callers, history, CanceledInv, StartInv, Retrying, Resuming, Starting
<1> QED BY <1>1, <1>2, <1>3, <1>4, <1>5 DEF Inv

\* The start's add, or another's job in its place, will run.
LEMMA StartAddKeeps ==
  ASSUME Inv, StartAdd
  PROVE  Inv'
<1> USE ControlAssumption DEF Inv, TypeOK, NoJob, InFlight, HasJob
<1>1. TypeOK'
  <2>1. /\ job' \in [state : InFlight \cup {"none", "delayed", "failed"}, attempts : Nat,
                     stalls : Nat, quick : BOOLEAN]
        /\ newer' \subseteq Retries
        /\ job.state = "active" <=> job'.state = "active"
    <3>1. CASE HasJob
      <4>1. job' = job /\ newer' = newer
        BY <3>1 DEF StartAdd, AddIfFree
      <4> QED BY <4>1
    <3>2. ASSUME ~HasJob, NEW quick \in BOOLEAN, AddJob(quick)
          PROVE  /\ job' \in [state : {"waiting"}, attempts : Nat, stalls : Nat,
                               quick : BOOLEAN]
                 /\ newer' \subseteq Retries
      BY <3>2 DEF AddJob
    <3> QED BY <3>1, <3>2 DEF StartAdd, AddIfFree
  <2> QED BY <2>1, ZenonT(30) DEF StartAdd, callers, history
<1>2. StartInv'
  BY DEF StartAdd, AddIfFree, AddJob, callers, history, StartInv
<1>3. QueuedInv'
  BY DEF StartAdd, AddIfFree, AddJob, callers, history, QueuedInv, Queued, Starting, Committed, WillRun, LastAttempt, StalledOut,
     StalledTooOften
<1>4. NewerInv'
  BY DEF StartAdd, AddIfFree, AddJob, callers, history, NewerInv, Retrying, Looking
<1>5. CanceledInv'
  BY DEF StartAdd, AddIfFree, AddJob, callers, history, CanceledInv, StartInv, Retrying, Resuming, Starting
<1> QED BY <1>1, <1>2, <1>3, <1>4, <1>5 DEF Inv

\* A drain stores what was uploaded.
LEMMA DrainKeeps ==
  ASSUME Inv, Drain
  PROVE  Inv'
<1> USE ControlAssumption DEF Inv, TypeOK, NoJob, InFlight, HasJob
<1>1. TypeOK'
  BY ZenonT(30) DEF Drain, callers, Coming, Statuses, Cancellable, Terminal
<1>2. StartInv'
  BY DEF Drain, callers, Coming, StartInv
<1>3. QueuedInv'
  BY DEF Drain, callers, Coming, QueuedInv, Queued, Starting, Committed, WillRun, LastAttempt, StalledOut,
     StalledTooOften
<1>4. NewerInv'
  BY DEF Drain, callers, Coming, NewerInv, Retrying, Looking
<1>5. CanceledInv'
  BY DEF Drain, callers, Coming, CanceledInv, StartInv, Retrying, Resuming, Starting
<1> QED BY <1>1, <1>2, <1>3, <1>4, <1>5 DEF Inv

\* A job taken will be sent to an engine.
LEMMA TakeKeeps ==
  ASSUME Inv, Take
  PROVE  Inv'
<1> USE ControlAssumption DEF Inv, TypeOK, NoJob, InFlight, HasJob
<1>1. TypeOK'
  BY DEF Take, callers, history, Statuses, Cancellable, Terminal
<1>2. StartInv'
  BY DEF Take, callers, history, StartInv
<1>3. QueuedInv'
  BY DEF Take, callers, history, QueuedInv, Queued, Starting, Committed, WillRun, LastAttempt, StalledOut,
     StalledTooOften
<1>4. NewerInv'
  BY DEF Take, callers, history, NewerInv, Retrying, Looking
<1>5. CanceledInv'
  BY DEF Take, callers, history, CanceledInv, StartInv, Retrying, Resuming, Starting
<1> QED BY <1>1, <1>2, <1>3, <1>4, <1>5 DEF Inv

\* A job that stalled too often is failed without a word.
LEMMA FailStalledKeeps ==
  ASSUME Inv, FailStalled
  PROVE  Inv'
<1> USE ControlAssumption DEF Inv, TypeOK, NoJob, InFlight, HasJob
<1>1. TypeOK'
  <2>1. job.state = "waiting" /\ job' = [job EXCEPT !.state = "failed"] /\ attempt = "off"
    BY DEF FailStalled
  <2>2. job'.state = "failed" /\ job' \in
          [state : InFlight \cup {"none", "delayed", "failed"}, attempts : Nat, stalls : Nat,
           quick : BOOLEAN]
    BY <2>1
  <2> QED BY <2>1, <2>2 DEF FailStalled, callers, history
<1>2. StartInv'
  BY DEF FailStalled, callers, history, StartInv
<1>3. QueuedInv'
  BY DEF FailStalled, callers, history, QueuedInv, Queued, Starting, Committed, WillRun, LastAttempt, StalledOut,
     StalledTooOften
<1>4. NewerInv'
  BY DEF FailStalled, callers, history, NewerInv, Retrying, Looking
<1>5. CanceledInv'
  BY DEF FailStalled, callers, history, CanceledInv, StartInv, Retrying, Resuming, Starting
<1> QED BY <1>1, <1>2, <1>3, <1>4, <1>5 DEF Inv

\* A backoff ends.
LEMMA BackoffOverKeeps ==
  ASSUME Inv, BackoffOver
  PROVE  Inv'
<1> USE ControlAssumption DEF Inv, TypeOK, NoJob, InFlight, HasJob
<1>1. TypeOK'
  BY DEF BackoffOver, callers, history, Statuses, Cancellable, Terminal
<1>2. StartInv'
  BY DEF BackoffOver, callers, history, StartInv
<1>3. QueuedInv'
  BY DEF BackoffOver, callers, history, QueuedInv, Queued, Starting, Committed, WillRun, LastAttempt, StalledOut,
     StalledTooOften
<1>4. NewerInv'
  BY DEF BackoffOver, callers, history, NewerInv, Retrying, Looking
<1>5. CanceledInv'
  BY DEF BackoffOver, callers, history, CanceledInv, StartInv, Retrying, Resuming, Starting
<1> QED BY <1>1, <1>2, <1>3, <1>4, <1>5 DEF Inv

\* A job settled for good leaves a run that says something else, or a caller.
LEMMA SettleKeeps ==
  ASSUME Inv, Settle
  PROVE  Inv'
<1> USE ControlAssumption DEF Inv, TypeOK, NoJob, InFlight, HasJob
<1>1. TypeOK'
  <2>1. attempt # "off" /\ job.state = "active" /\ attempt' = "off"
    BY DEF Settle
  <2>2. CASE attempt = "complete"
    <3>1. job' = NoJob
      BY <2>2 DEF Settle
    <3> QED BY <2>1, <3>1 DEF Settle, callers, history
  <2>3. CASE attempt = "retryable" /\ ~LastAttempt
    <3> DEFINE a == [job EXCEPT !.state = "delayed"]
    <3>1. job' = [a EXCEPT !.attempts = job.attempts + 1]
      <4>1. job' = [job EXCEPT !.state = "delayed", !.attempts = job.attempts + 1]
        BY <2>3 DEF Settle
      <4> QED BY <4>1
    <3>2. a.state = "delayed" /\ a \in
            [state : InFlight \cup {"none", "delayed", "failed"}, attempts : Nat, stalls : Nat,
             quick : BOOLEAN]
      OBVIOUS
    <3> HIDE DEF a
    <3>3. job'.state = "delayed" /\ job' \in
            [state : InFlight \cup {"none", "delayed", "failed"}, attempts : Nat, stalls : Nat,
             quick : BOOLEAN]
      BY <3>1, <3>2
    <3> QED BY <2>1, <3>3 DEF Settle, callers, history
  <2>4. CASE attempt # "complete" /\ ~(attempt = "retryable" /\ ~LastAttempt)
    <3>1. job' = [job EXCEPT !.state = "failed"]
      BY <2>4 DEF Settle
    <3>2. job'.state = "failed" /\ job' \in
            [state : InFlight \cup {"none", "delayed", "failed"}, attempts : Nat, stalls : Nat,
             quick : BOOLEAN]
      BY <3>1
    <3> QED BY <2>1, <3>2 DEF Settle, callers, history
  <2> QED BY <2>2, <2>3, <2>4
<1>2. StartInv'
  BY DEF Settle, callers, history, StartInv
<1>3. QueuedInv'
  BY DEF Settle, callers, history, QueuedInv, Queued, Starting, Committed, WillRun, LastAttempt, StalledOut,
     StalledTooOften
<1>4. NewerInv'
  BY DEF Settle, callers, history, NewerInv, Retrying, Looking
<1>5. CanceledInv'
  BY DEF Settle, callers, history, CanceledInv, StartInv, Retrying, Resuming, Starting
<1> QED BY <1>1, <1>2, <1>3, <1>4, <1>5 DEF Inv

\* An engine says RUNNING.
LEMMA SendKeeps ==
  ASSUME Inv, Send
  PROVE  Inv'
<1> USE ControlAssumption DEF Inv, TypeOK, NoJob, InFlight, HasJob
<1>1. TypeOK'
  BY DEF Send, callers, history, Statuses, Cancellable, Terminal
<1>2. StartInv'
  BY DEF Send, callers, history, StartInv
<1>3. QueuedInv'
  BY DEF Send, callers, history, QueuedInv, Queued, Starting, Committed, WillRun, LastAttempt, StalledOut,
     StalledTooOften
<1>4. NewerInv'
  BY DEF Send, callers, history, NewerInv, Retrying, Looking
<1>5. CanceledInv'
  BY DEF Send, callers, history, CanceledInv, StartInv, Retrying, Resuming, Starting
<1> QED BY <1>1, <1>2, <1>3, <1>4, <1>5 DEF Inv

\* An engine reports the run's end, or its pause.
LEMMA FinishKeeps ==
  ASSUME Inv, Finish
  PROVE  Inv'
<1> USE ControlAssumption DEF Inv, TypeOK, NoJob, InFlight, HasJob
<1>1. TypeOK'
  BY ZenonT(30) DEF Finish, callers, history, Statuses, Cancellable, Terminal
<1>2. StartInv'
  BY DEF Finish, callers, history, StartInv
<1>3. QueuedInv'
  BY DEF Finish, callers, history, QueuedInv, Queued, Starting, Committed, WillRun, LastAttempt, StalledOut,
     StalledTooOften
<1>4. NewerInv'
  BY DEF Finish, callers, history, NewerInv, Retrying, Looking
<1>5. CanceledInv'
  BY DEF Finish, callers, history, CanceledInv, StartInv, Retrying, Resuming, Starting
<1> QED BY <1>1, <1>2, <1>3, <1>4, <1>5 DEF Inv

\* A failure that is not reported is retried.
LEMMA FailBeforeKeeps ==
  ASSUME Inv, FailBefore
  PROVE  Inv'
<1> USE ControlAssumption DEF Inv, TypeOK, NoJob, InFlight, HasJob
<1>1. TypeOK'
  <2>1. hash' \in Statuses \cup {"none"} /\ faults' \in 0 .. MaxFaults
    BY DEF FailBefore, Reported, ReportLost, Statuses, Terminal
  <2>2. abandoned' \in BOOLEAN
    BY ZenonT(30) DEF FailBefore, Reported, ReportLost
  <2>3. attempt' = "retryable" /\ job.state = "active"
    BY DEF FailBefore
  <2> QED BY <2>1, <2>2, <2>3 DEF FailBefore, callers
<1>2. StartInv'
  BY DEF FailBefore, callers, Reported, ReportLost, RetriesQuickly, StartInv
<1>3. QueuedInv'
  BY DEF FailBefore, callers, Reported, ReportLost, RetriesQuickly, QueuedInv, Queued, Starting, Committed, WillRun, LastAttempt, StalledOut,
     StalledTooOften
<1>4. NewerInv'
  BY DEF FailBefore, callers, Reported, ReportLost, RetriesQuickly, NewerInv, Retrying, Looking
<1>5. CanceledInv'
  BY DEF FailBefore, callers, Reported, ReportLost, RetriesQuickly, CanceledInv, StartInv, Retrying, Resuming, Starting
<1> QED BY <1>1, <1>2, <1>3, <1>4, <1>5 DEF Inv

\* A failure that is not retried is reported, or its report lost.
LEMMA EndRunKeeps ==
  ASSUME Inv, EndRun
  PROVE  Inv'
<1> USE ControlAssumption DEF Inv, TypeOK, NoJob, InFlight, HasJob
<1>1. TypeOK'
  <2>1. hash' \in Statuses \cup {"none"} /\ faults' \in 0 .. MaxFaults
    BY DEF EndRun, Reported, ReportLost, Statuses, Terminal
  <2>2. abandoned' \in BOOLEAN
    BY ZenonT(30) DEF EndRun, Reported, ReportLost
  <2>3. attempt' \in {"final", "complete", "retryable"} /\ job.state = "active"
    BY DEF EndRun
  <2> QED BY <2>1, <2>2, <2>3 DEF EndRun, callers
<1>2. StartInv'
  BY DEF EndRun, callers, Reported, ReportLost, StartInv
<1>3. QueuedInv'
  BY DEF EndRun, callers, Reported, ReportLost, QueuedInv, Queued, Starting, Committed, WillRun, LastAttempt, StalledOut,
     StalledTooOften
<1>4. NewerInv'
  BY DEF EndRun, callers, Reported, ReportLost, NewerInv, Retrying, Looking
<1>5. CanceledInv'
  BY DEF EndRun, callers, Reported, ReportLost, CanceledInv, StartInv, Retrying, Resuming, Starting
<1> QED BY <1>1, <1>2, <1>3, <1>4, <1>5 DEF Inv

\* A job whose worker is lost goes back to the queue.
LEMMA LoseWorkerKeeps ==
  ASSUME Inv, LoseWorker
  PROVE  Inv'
<1> USE ControlAssumption DEF Inv, TypeOK, NoJob, InFlight, HasJob
<1>1. TypeOK'
  <2> DEFINE w == [job EXCEPT !.state = "waiting"]
  <2>1. job' = [w EXCEPT !.stalls = w.stalls + 1] /\ attempt' = "off"
    BY DEF LoseWorker
  <2>2. w.state = "waiting" /\ w \in
          [state : InFlight \cup {"none", "delayed", "failed"}, attempts : Nat, stalls : Nat,
           quick : BOOLEAN]
    OBVIOUS
  <2> HIDE DEF w
  <2>3. job'.state = "waiting" /\ job' \in
          [state : InFlight \cup {"none", "delayed", "failed"}, attempts : Nat, stalls : Nat,
           quick : BOOLEAN]
    BY <2>1, <2>2
  <2>4. faults' \in 0 .. MaxFaults
    BY DEF LoseWorker
  <2> QED BY <2>1, <2>3, <2>4 DEF LoseWorker, callers, history
<1>2. StartInv'
  BY DEF LoseWorker, callers, history, StartInv
<1>3. QueuedInv'
  BY DEF LoseWorker, callers, history, QueuedInv, Queued, Starting, Committed, WillRun, LastAttempt, StalledOut,
     StalledTooOften
<1>4. NewerInv'
  BY DEF LoseWorker, callers, history, NewerInv, Retrying, Looking
<1>5. CanceledInv'
  BY DEF LoseWorker, callers, history, CanceledInv, StartInv, Retrying, Resuming, Starting
<1> QED BY <1>1, <1>2, <1>3, <1>4, <1>5 DEF Inv

\* A caller lost is told of by abandoned.
LEMMA LoseCallerKeeps ==
  ASSUME Inv, LoseCaller
  PROVE  Inv'
<1> USE ControlAssumption DEF Inv, TypeOK, NoJob, InFlight, HasJob
<1>1. TypeOK'
  BY RetryToMoves DEF LoseCaller, Cancelling, CancelTo, Retrying, Statuses, Cancellable, Terminal, RetryTyped, PCs, Looking
<1>2. StartInv'
  BY RetryToMoves DEF LoseCaller, Cancelling, CancelTo, Retrying, StartInv, RetryTyped, PCs, Looking
<1>3. QueuedInv'
  BY RetryToMoves DEF LoseCaller, Cancelling, CancelTo, Retrying, QueuedInv, Queued, Starting, Committed, WillRun, LastAttempt, StalledOut,
     StalledTooOften, RetryTyped, PCs, Looking
<1>4. NewerInv'
  BY RetryToMoves DEF LoseCaller, Cancelling, CancelTo, Retrying, NewerInv, RetryTyped, PCs, Looking
<1>5. CanceledInv'
  BY RetryToMoves DEF LoseCaller, Cancelling, CancelTo, Retrying, CanceledInv, StartInv, Resuming, Starting, RetryTyped, PCs, Looking
<1> QED BY <1>1, <1>2, <1>3, <1>4, <1>5 DEF Inv

\* A retry's read changes nothing else.
LEMMA RetryReadKeeps ==
  ASSUME Inv, NEW k \in Retries, RetryRead(k)
  PROVE  Inv'
<1> USE ControlAssumption DEF Inv, TypeOK, NoJob, InFlight, HasJob
<1>1. TypeOK'
  BY DEF RetryRead, Untouched, history, Statuses, Cancellable, Terminal, Looking
<1>2. StartInv'
  BY DEF RetryRead, Untouched, history, StartInv, Looking, Terminal
<1>3. QueuedInv'
  BY DEF RetryRead, Untouched, history, QueuedInv, Queued, Starting, Committed, WillRun, LastAttempt, StalledOut,
     StalledTooOften, Looking, Terminal
<1>4. NewerInv'
  BY DEF RetryRead, Untouched, history, NewerInv, Retrying, Looking, Terminal
<1>5. CanceledInv'
  BY DEF RetryRead, Untouched, history, CanceledInv, StartInv, Retrying, Resuming, Starting, Looking, Terminal
<1> QED BY <1>1, <1>2, <1>3, <1>4, <1>5 DEF Inv

\* An id found free has no job.
LEMMA RetryFindKeeps ==
  ASSUME Inv, NEW k \in Retries, RetryFind(k)
  PROVE  Inv'
<1> USE ControlAssumption DEF Inv, TypeOK, NoJob, InFlight, HasJob
<1>1. TypeOK'
  BY RetryToMoves DEF RetryFind, Looks, Untouched, history, Statuses, Cancellable, Terminal, RetryTyped, PCs, Looking
<1>2. StartInv'
  BY RetryToMoves DEF RetryFind, Looks, Untouched, history, StartInv, RetryTyped, PCs, Looking
<1>3. QueuedInv'
  BY RetryToMoves DEF RetryFind, Looks, Untouched, history, QueuedInv, Queued, Starting, Committed, WillRun, LastAttempt, StalledOut,
     StalledTooOften, RetryTyped, PCs, Looking
<1>4. NewerInv'
  BY RetryToMoves DEF RetryFind, Looks, Untouched, history, NewerInv, Retrying, RetryTyped, PCs, Looking
<1>5. CanceledInv'
  BY RetryToMoves DEF RetryFind, Looks, Untouched, history, CanceledInv, StartInv, Retrying, Resuming, Starting, RetryTyped, PCs, Looking
<1> QED BY <1>1, <1>2, <1>3, <1>4, <1>5 DEF Inv

\* A look at the state commits to nothing.
LEMMA RetryStateKeeps ==
  ASSUME Inv, NEW k \in Retries, RetryState(k)
  PROVE  Inv'
<1> USE ControlAssumption DEF Inv, TypeOK, NoJob, InFlight, HasJob
<1>1. TypeOK'
  BY RetryToMoves DEF RetryState, LeavesJob, Untouched, history, Statuses, Cancellable, Terminal, RetryTyped, PCs, Looking
<1>2. StartInv'
  BY RetryToMoves DEF RetryState, LeavesJob, Untouched, history, StartInv, RetryTyped, PCs, Looking
<1>3. QueuedInv'
  BY RetryToMoves DEF RetryState, LeavesJob, Untouched, history, QueuedInv, Queued, Starting, Committed, WillRun, LastAttempt, StalledOut,
     StalledTooOften, RetryTyped, PCs, Looking
<1>4. NewerInv'
  BY RetryToMoves DEF RetryState, LeavesJob, Untouched, history, NewerInv, Retrying, RetryTyped, PCs, Looking
<1>5. CanceledInv'
  BY RetryToMoves DEF RetryState, LeavesJob, Untouched, history, CanceledInv, StartInv, Retrying, Resuming, Starting, RetryTyped, PCs, Looking
<1> QED BY <1>1, <1>2, <1>3, <1>4, <1>5 DEF Inv

\* An id found free the second time has no job.
LEMMA RetryFindAgainKeeps ==
  ASSUME Inv, NEW k \in Retries, RetryFindAgain(k)
  PROVE  Inv'
<1> USE ControlAssumption DEF Inv, TypeOK, NoJob, InFlight, HasJob
<1>1. TypeOK'
  BY RetryToMoves DEF RetryFindAgain, GoOn, Looks, Untouched, history, Statuses, Cancellable, Terminal, RetryTyped, PCs, Looking
<1>2. StartInv'
  BY RetryToMoves DEF RetryFindAgain, GoOn, Looks, Untouched, history, StartInv, RetryTyped, PCs, Looking
<1>3. QueuedInv'
  BY RetryToMoves DEF RetryFindAgain, GoOn, Looks, Untouched, history, QueuedInv, Queued, Starting, Committed, WillRun, LastAttempt, StalledOut,
     StalledTooOften, RetryTyped, PCs, Looking
<1>4. NewerInv'
  BY RetryToMoves DEF RetryFindAgain, GoOn, Looks, Untouched, history, NewerInv, Retrying, RetryTyped, PCs, Looking
<1>5. CanceledInv'
  BY RetryToMoves DEF RetryFindAgain, GoOn, Looks, Untouched, history, CanceledInv, StartInv, Retrying, Resuming, Starting, RetryTyped, PCs, Looking
<1> QED BY <1>1, <1>2, <1>3, <1>4, <1>5 DEF Inv

\* Who removes a job goes on to the row.
LEMMA RetryRemoveKeeps ==
  ASSUME Inv, NEW k \in Retries, RetryRemove(k)
  PROVE  Inv'
<1> USE ControlAssumption DEF Inv, TypeOK, NoJob, InFlight, HasJob
<1>1. TypeOK'
  <2>1. retry' \in [Retries -> [pc : PCs, ended : BOOLEAN]]
    BY RetryToMoves DEF RetryRemove, GoOn, RetryTyped, PCs, Looking
  <2>2. CASE job.state \in {"none", "active"}
    <3>1. job' = job /\ newer' = newer
      BY <2>2 DEF RetryRemove
    <3> QED BY <2>1, <3>1 DEF RetryRemove, Untouched, history, PCs, Looking
  <2>3. CASE job.state \notin {"none", "active"}
    <3>1. job' = NoJob /\ newer' \subseteq Retries
      BY <2>3 DEF RetryRemove, GoOn, Looks, RemoveJob
    <3>2. attempt = "off"
      BY <2>3
    <3> QED BY <2>1, <3>1, <3>2 DEF RetryRemove, Untouched, history, PCs, Looking
  <2> QED BY <2>2, <2>3
<1>2. StartInv'
  BY RetryToMoves DEF RetryRemove, GoOn, Looks, RemoveJob, Untouched, history, StartInv, RetryTyped, PCs, Looking
<1>3. QueuedInv'
  BY RetryToMoves DEF RetryRemove, GoOn, Looks, RemoveJob, Untouched, history, QueuedInv, Queued, Starting, Committed, WillRun, LastAttempt, StalledOut,
     StalledTooOften, RetryTyped, PCs, Looking
<1>4. NewerInv'
  BY RetryToMoves DEF RetryRemove, GoOn, Looks, RemoveJob, Untouched, history, NewerInv, Retrying, RetryTyped, PCs, Looking
<1>5. CanceledInv'
  BY RetryToMoves DEF RetryRemove, GoOn, Looks, RemoveJob, Untouched, history, CanceledInv, StartInv, Retrying, Resuming, Starting, RetryTyped, PCs, Looking
<1> QED BY <1>1, <1>2, <1>3, <1>4, <1>5 DEF Inv

\* Who queues the row goes on to the add.
LEMMA RetryUpdateKeeps ==
  ASSUME Inv, NEW k \in Retries, RetryUpdate(k)
  PROVE  Inv'
<1> USE ControlAssumption DEF Inv, TypeOK, NoJob, InFlight, HasJob
<1>1. TypeOK'
  BY RetryToMoves DEF RetryUpdate, history, Statuses, Cancellable, Terminal, RetryTyped, PCs, Looking
<1>2. StartInv'
  BY RetryToMoves DEF RetryUpdate, history, StartInv, RetryTyped, PCs, Looking
<1>3. QueuedInv'
  BY RetryToMoves DEF RetryUpdate, history, QueuedInv, Queued, Starting, Committed, WillRun, LastAttempt, StalledOut,
     StalledTooOften, RetryTyped, PCs, Looking
<1>4. NewerInv'
  BY RetryToMoves DEF RetryUpdate, history, NewerInv, Retrying, RetryTyped, PCs, Looking
<1>5. CanceledInv'
  BY RetryToMoves DEF RetryUpdate, history, CanceledInv, StartInv, Retrying, Resuming, Starting, RetryTyped, PCs, Looking
<1> QED BY <1>1, <1>2, <1>3, <1>4, <1>5 DEF Inv

\* The add succeeds, or is told of by ignored.
LEMMA RetryAddKeeps ==
  ASSUME Inv, NEW k \in Retries, RetryAdd(k)
  PROVE  Inv'
<1> USE ControlAssumption DEF Inv, TypeOK, NoJob, InFlight, HasJob
<1>1. TypeOK'
  <2>1. retry' \in [Retries -> [pc : PCs, ended : BOOLEAN]]
    BY RetryToMoves DEF RetryAdd, RetryTyped, PCs, Looking
  <2>2. ignored' \in BOOLEAN
    BY ZenonT(30) DEF RetryAdd
  <2>3. /\ job' \in [state : InFlight \cup {"none", "delayed", "failed"}, attempts : Nat,
                     stalls : Nat, quick : BOOLEAN]
        /\ newer' \subseteq Retries
        /\ job.state = "active" <=> job'.state = "active"
    <3>1. CASE ~HasJob
      <4>1. AddJob(TRUE)
        BY <3>1 DEF RetryAdd, AddIfFree
      <4> QED BY <3>1, <4>1 DEF AddJob
    <3>2. CASE HasJob
      <4>1. job' = job /\ newer' = newer
        BY <3>2 DEF RetryAdd, AddIfFree
      <4> QED BY <4>1
    <3> QED BY <3>1, <3>2
  <2> QED BY <2>1, <2>2, <2>3 DEF RetryAdd, PCs, Looking
<1>2. StartInv'
  BY RetryToMoves DEF RetryAdd, AddIfFree, AddJob, StartInv, RetryTyped, PCs, Looking
<1>3. QueuedInv'
  <2>1. CASE HasJob
    BY <2>1, ZenonT(30) DEF RetryAdd, QueuedInv
  <2>2. CASE ~HasJob
    <3>1. job'.state = "waiting"
      BY <2>2 DEF RetryAdd, AddIfFree, AddJob
    <3> QED BY <3>1 DEF QueuedInv, WillRun
  <2> QED BY <2>1, <2>2
<1>4. NewerInv'
  BY RetryToMoves DEF RetryAdd, AddIfFree, AddJob, NewerInv, Retrying, RetryTyped, PCs, Looking
<1>5. CanceledInv'
  BY RetryToMoves DEF RetryAdd, AddIfFree, AddJob, CanceledInv, StartInv, Retrying, Resuming, Starting, RetryTyped, PCs, Looking
<1> QED BY <1>1, <1>2, <1>3, <1>4, <1>5 DEF Inv

\* Only a run that was started is cancelled.
LEMMA CancelLookKeeps ==
  ASSUME Inv, NEW c \in Cancels, CancelLook(c)
  PROVE  Inv'
<1> USE ControlAssumption DEF Inv, TypeOK, NoJob, InFlight, HasJob
<1>1. TypeOK'
  BY DEF CancelLook, CancelTo, Untouched, history, Statuses, Cancellable, Terminal
<1>2. StartInv'
  BY DEF CancelLook, CancelTo, Untouched, history, StartInv, Cancellable
<1>3. QueuedInv'
  BY DEF CancelLook, CancelTo, Untouched, history, QueuedInv, Queued, Starting, Committed, WillRun, LastAttempt, StalledOut,
     StalledTooOften
<1>4. NewerInv'
  BY DEF CancelLook, CancelTo, Untouched, history, NewerInv, Retrying, Looking
<1>5. CanceledInv'
  BY DEF CancelLook, CancelTo, Untouched, history, CanceledInv, StartInv, Retrying, Resuming, Starting
<1> QED BY <1>1, <1>2, <1>3, <1>4, <1>5 DEF Inv

\* A cancel that finds no job goes on to its upload.
LEMMA CancelFindKeeps ==
  ASSUME Inv, NEW c \in Cancels, CancelFind(c)
  PROVE  Inv'
<1> USE ControlAssumption DEF Inv, TypeOK, NoJob, InFlight, HasJob
<1>1. TypeOK'
  BY DEF CancelFind, CancelTo, Untouched, history, Statuses, Cancellable, Terminal
<1>2. StartInv'
  BY DEF CancelFind, CancelTo, Untouched, history, StartInv
<1>3. QueuedInv'
  BY DEF CancelFind, CancelTo, Untouched, history, QueuedInv, Queued, Starting, Committed, WillRun, LastAttempt, StalledOut,
     StalledTooOften
<1>4. NewerInv'
  BY DEF CancelFind, CancelTo, Untouched, history, NewerInv, Retrying, Looking
<1>5. CanceledInv'
  BY DEF CancelFind, CancelTo, Untouched, history, CanceledInv, StartInv, Retrying, Resuming, Starting
<1> QED BY <1>1, <1>2, <1>3, <1>4, <1>5 DEF Inv

\* So does one that removed it.
LEMMA CancelRemoveKeeps ==
  ASSUME Inv, NEW c \in Cancels, CancelRemove(c)
  PROVE  Inv'
<1> USE ControlAssumption DEF Inv, TypeOK, NoJob, InFlight, HasJob
<1>1. TypeOK'
  <2>1. cancel' \in [Cancels -> {"idle", "find", "remove", "upload", "over"}]
    BY DEF CancelRemove, CancelTo
  <2>2. CASE job.state \in {"none", "active"}
    BY <2>1, <2>2 DEF CancelRemove, Untouched, history
  <2>3. CASE job.state \notin {"none", "active"}
    <3>1. job' = NoJob /\ attempt = "off"
      BY <2>3 DEF CancelRemove, RemoveJob
    <3> QED BY <2>1, <3>1 DEF CancelRemove, Untouched, history
  <2> QED BY <2>2, <2>3
<1>2. StartInv'
  BY DEF CancelRemove, CancelTo, RemoveJob, Untouched, history, StartInv
<1>3. QueuedInv'
  BY DEF CancelRemove, CancelTo, RemoveJob, Untouched, history, QueuedInv, Queued, Starting, Committed, WillRun, LastAttempt, StalledOut,
     StalledTooOften
<1>4. NewerInv'
  BY DEF CancelRemove, CancelTo, RemoveJob, Untouched, history, NewerInv, Retrying, Looking
<1>5. CanceledInv'
  BY DEF CancelRemove, CancelTo, RemoveJob, Untouched, history, CanceledInv, StartInv, Retrying, Resuming, Starting
<1> QED BY <1>1, <1>2, <1>3, <1>4, <1>5 DEF Inv

\* A run that will be CANCELED is not queued.
LEMMA CancelUploadKeeps ==
  ASSUME Inv, NEW c \in Cancels, CancelUpload(c)
  PROVE  Inv'
<1> USE ControlAssumption DEF Inv, TypeOK, NoJob, InFlight, HasJob
<1>1. TypeOK'
  BY DEF CancelUpload, CancelTo, history, Statuses, Cancellable, Terminal
<1>2. StartInv'
  BY DEF CancelUpload, CancelTo, history, StartInv
<1>3. QueuedInv'
  BY DEF CancelUpload, CancelTo, history, QueuedInv, Queued, Starting, Committed, WillRun, LastAttempt, StalledOut,
     StalledTooOften
<1>4. NewerInv'
  BY DEF CancelUpload, CancelTo, history, NewerInv, Retrying, Looking
<1>5. CanceledInv'
  BY DEF CancelUpload, CancelTo, history, CanceledInv, StartInv, Retrying, Resuming, Starting
<1> QED BY <1>1, <1>2, <1>3, <1>4, <1>5 DEF Inv

\* A resume begins on a PAUSED row only.
LEMMA ResumeReadKeeps ==
  ASSUME Inv, NEW s \in Resumes, ResumeRead(s)
  PROVE  Inv'
<1> USE ControlAssumption DEF Inv, TypeOK, NoJob, InFlight, HasJob
<1>1. TypeOK'
  BY DEF ResumeRead, Untouched, history, Resumable, Statuses, Cancellable, Terminal
<1>2. StartInv'
  BY DEF ResumeRead, Untouched, history, Resumable, StartInv
<1>3. QueuedInv'
  BY DEF ResumeRead, Untouched, history, Resumable, QueuedInv, Queued, Starting, Committed, WillRun, LastAttempt, StalledOut,
     StalledTooOften
<1>4. NewerInv'
  BY DEF ResumeRead, Untouched, history, Resumable, NewerInv, Retrying, Looking
<1>5. CanceledInv'
  BY DEF ResumeRead, Untouched, history, Resumable, CanceledInv, StartInv, Retrying, Resuming, Starting
<1> QED BY <1>1, <1>2, <1>3, <1>4, <1>5 DEF Inv

\* A resume's job is newer than any id seen free.
LEMMA ResumeAddKeeps ==
  ASSUME Inv, NEW s \in Resumes, ResumeAdd(s)
  PROVE  Inv'
<1> USE ControlAssumption DEF Inv, TypeOK, NoJob, InFlight, HasJob
<1>1. TypeOK'
  <2>1. resume' \in [Resumes -> {"idle", "read", "done"}]
    BY DEF ResumeAdd
  <2>2. /\ job' \in [state : InFlight \cup {"none", "delayed", "failed"}, attempts : Nat,
                     stalls : Nat, quick : BOOLEAN]
        /\ newer' \subseteq Retries
        /\ job.state = "active" <=> job'.state = "active"
    <3>1. CASE waiting /\ ~HasJob
      <4>1. AddJob(TRUE)
        BY <3>1 DEF ResumeAdd, AddIfFree
      <4> QED BY <3>1, <4>1 DEF AddJob
    <3>2. CASE ~(waiting /\ ~HasJob)
      <4>1. job' = job /\ newer' = newer
        BY <3>2 DEF ResumeAdd, AddIfFree
      <4> QED BY <4>1
    <3> QED BY <3>1, <3>2
  <2> QED BY <2>1, <2>2, ZenonT(30) DEF ResumeAdd, history
<1>2. StartInv'
  BY DEF ResumeAdd, AddIfFree, AddJob, history, StartInv
<1>3. QueuedInv'
  BY DEF ResumeAdd, AddIfFree, AddJob, history, QueuedInv, Queued, Starting, Committed, WillRun, LastAttempt, StalledOut,
     StalledTooOften
<1>4. NewerInv'
  BY DEF ResumeAdd, AddIfFree, AddJob, history, NewerInv, Retrying, Looking
<1>5. CanceledInv'
  BY DEF ResumeAdd, AddIfFree, AddJob, history, CanceledInv, StartInv, Retrying, Resuming, Starting
<1> QED BY <1>1, <1>2, <1>3, <1>4, <1>5 DEF Inv

-----------------------------------------------------------------------------
LEMMA Invariance == Spec => []Inv
<1>1. Init => Inv
  <2> SUFFICES ASSUME Init PROVE Inv
    OBVIOUS
  <2>1. TypeOK
    <3>1. retry \in [Retries -> [pc : {"idle"}, ended : BOOLEAN]]
      BY DEF Init
    <3>2. /\ job \in [state : {"none"}, attempts : Nat, stalls : Nat,
             quick : BOOLEAN]
          /\ attempt = "off"
      BY DEF Init, NoJob
    <3>3. /\ cancel \in [Cancels -> {"idle"}] /\ resume \in [Resumes -> {"idle"}]
          /\ faults \in 0 .. MaxFaults /\ newer \subseteq Retries
      BY ControlAssumption DEF Init
    <3>4. /\ waiting \in BOOLEAN /\ ignored \in BOOLEAN /\ abandoned \in BOOLEAN
          /\ crossed \in BOOLEAN
      BY DEF Init
    <3> QED BY <3>1, <3>2, <3>3, <3>4 DEF Init, TypeOK
  <2>2. StartInv
    BY DEF Init, StartInv, NoJob, HasJob
  <2>3. QueuedInv
    BY DEF Init, QueuedInv, Queued
  <2>4. NewerInv
    BY DEF Init, NewerInv
  <2>5. CanceledInv
    BY DEF Init, CanceledInv
  <2> QED BY <2>1, <2>2, <2>3, <2>4, <2>5 DEF Inv
<1>2. Inv /\ [Next]_vars => Inv'
  <2> SUFFICES ASSUME Inv, [Next]_vars
               PROVE  Inv'
    OBVIOUS
  <2>1. CASE Start \/ StartAdd \/ Drain \/ Work \/ LoseWorker \/ LoseCaller
    BY <2>1, StartKeeps, StartAddKeeps, DrainKeeps, TakeKeeps, FailStalledKeeps,
       BackoffOverKeeps, SettleKeeps,
       SendKeeps, FinishKeeps, FailBeforeKeeps, EndRunKeeps, LoseWorkerKeeps, LoseCallerKeeps
       DEF Work
  <2>2. ASSUME NEW k \in Retries, RetryRead(k) \/ RetryStep(k)
        PROVE  Inv'
    BY <2>2, RetryReadKeeps, RetryFindKeeps, RetryStateKeeps, RetryFindAgainKeeps,
       RetryRemoveKeeps, RetryUpdateKeeps, RetryAddKeeps DEF RetryStep
  <2>3. ASSUME NEW c \in Cancels, CancelLook(c) \/ CancelStep(c)
        PROVE  Inv'
    BY <2>3, CancelLookKeeps, CancelFindKeeps, CancelRemoveKeeps, CancelUploadKeeps
       DEF CancelStep
  <2>4. ASSUME NEW s \in Resumes, ResumeRead(s) \/ ResumeAdd(s)
        PROVE  Inv'
    BY <2>4, ResumeReadKeeps, ResumeAddKeeps
  <2>5. CASE UNCHANGED vars
    BY <2>5 DEF vars, callers, history, Inv, TypeOK, StartInv, HasJob, QueuedInv, Queued,
       Starting, Committed, WillRun, LastAttempt, StalledOut, StalledTooOften, NewerInv, CanceledInv
  <2> QED BY <2>1, <2>2, <2>3, <2>4, <2>5 DEF Next
<1> QED BY <1>1, <1>2, PTL DEF Spec

(* The variables keep their types, and a job is active exactly while it   *)
(* is attempted.                                                          *)
THEOREM TypeCorrect == Spec => []TypeOK
<1>1. Inv => TypeOK
  BY DEF Inv
<1> QED BY <1>1, Invariance, PTL

(* Whoever makes the run QUEUED, or takes the job of a queued run away,   *)
(* goes on to give it one or to say that it is cancelled.                 *)
THEOREM QueuedIsServed == Spec => []QueuedRunHasAJob
<1>1. Inv => QueuedRunHasAJob
  BY DEF Inv, TypeOK, QueuedInv, Queued, Committed, WillRun, QueuedRunHasAJob, Busy, Coming,
     Retrying, Cancelling
<1> QED BY <1>1, Invariance, PTL

(* A retry's add meets a job only if that job was added since the retry   *)
(* found the id free, or freed it.                                        *)
THEOREM IgnoredForANewcomer == Spec => []IgnoredOnlyForANewcomer
<1>1. Inv => IgnoredOnlyForANewcomer
  BY DEF Inv, NewerInv, IgnoredOnlyForANewcomer
<1> QED BY <1>1, Invariance, PTL

(* A run stored as CANCELED with nobody on the way gets no job again      *)
(* before someone has queued it afresh.                                   *)
THEOREM CanceledIsLeftAlone == Spec => []CanceledRunIsNotRun
<1>1. Inv => CanceledRunIsNotRun
  BY DEF Inv, TypeOK, CanceledInv, CanceledRunIsNotRun
<1> QED BY <1>1, Invariance, PTL
=============================================================================
