--------------------------- MODULE JoinWaitpoint ---------------------------
(***************************************************************************)
(* One join waitpoint of a run: the row a callFlowForEach step pauses on,  *)
(* its slots, the children dispatched to answer them, and the single       *)
(* resume it owes its run.                                                 *)
(*                                                                         *)
(* A transaction of the code is one step here, and what the code does      *)
(* between two transactions (verify then claim, complete then resume) is   *)
(* two steps, so that everything else may happen in between.               *)
(***************************************************************************)
EXTENDS Integers, FiniteSets

CONSTANTS
  Slots,        \* the slots of the join, one per item of the step
  Children,     \* child runs; a webhook that is retried makes another one
  Policy,       \* the join's failurePolicy
  Quorum,       \* successes a QUORUM join waits for
  HasTimeout,   \* whether the join was created with timeoutSeconds
  MaxReplays,   \* bound: times the parent's step runs again from its start
  MaxCrashes,   \* bound: server processes lost between a commit and its sequel
  NoChild,      \* a slot no child has claimed
  NoSlot        \* the slot of a child not dispatched yet

Policies == {"ALL_SETTLED", "FAIL_FAST", "QUORUM"}

\* What waitpoint-controller.ts#assertValidJoin lets through.
ASSUME JoinAssumption ==
  /\ Slots # {} /\ IsFiniteSet(Slots)
  /\ Policy \in Policies
  /\ Quorum \in 1..Cardinality(Slots)
  /\ HasTimeout \in BOOLEAN
  /\ MaxReplays \in Nat /\ MaxCrashes \in Nat
  /\ NoChild \notin Children /\ NoSlot \notin Slots

VARIABLES
  wp,           \* the waitpoint row: its status, or that there is none
  slot,         \* status of each slot row
  claim,        \* childRunId of each slot row
  child,        \* the child runs: phase, the slot URL they carry, attached
  step,         \* the parent's step: what it does, and the slots left to send
  owedError,    \* slots whose dispatch failed and whose error is still to post
  timer,        \* the JOIN_WAITPOINT_TIMEOUT job
  result,       \* the stored resumePayload: a verdict and the answers it counts
  run,          \* the parent's stored status, and its PAUSED upload's drain
  signals,      \* calls of resumeFromWaitpoint: not begun, or PAUSED read
  resumes,      \* RESUME jobs enqueued for this waitpoint
  replays, crashes

vars == <<wp, slot, claim, child, step, owedError, timer, result, run, signals,
          resumes, replays, crashes>>
rows == <<wp, slot, claim, result, signals>>
resuming == <<run, resumes>>
bounds == <<replays, crashes>>

Answers == {"SUCCEEDED", "FAILED"}
SlotStatus == Answers \cup {"PENDING", "TIMED_OUT"}
NoResult == [status |-> "none", answers |-> [s \in Slots |-> "PENDING"]]
Phases == {"unused", "dispatched", "verified", "claimed", "running",
           "succeeded", "failed", "reported", "lost"}

Count(slots, st) == Cardinality({s \in Slots : slots[s] = st})

-----------------------------------------------------------------------------
(* joinPolicy.decide: the verdict from the per-status counts alone *)

Succeeds(succeeded, failed, unanswered) ==
  \/ Policy = "ALL_SETTLED" /\ unanswered = 0
  \/ Policy = "FAIL_FAST" /\ failed = 0 /\ unanswered = 0
  \/ Policy = "QUORUM" /\ succeeded >= Quorum

\* Mutant: a quorum out of reach is still waited for.
ErrsIfFailFast(succeeded, failed, unanswered) == Policy = "FAIL_FAST" /\ failed > 0

\* Mutant: a quorum still within reach is given up.
ErrsEarly(succeeded, failed, unanswered) ==
  \/ Policy = "FAIL_FAST" /\ failed > 0
  \/ Policy = "QUORUM" /\ succeeded < Quorum /\ succeeded + unanswered <= Quorum

Errs(succeeded, failed, unanswered) ==
  \/ Policy = "FAIL_FAST" /\ failed > 0
  \/ Policy = "QUORUM" /\ succeeded < Quorum /\ succeeded + unanswered < Quorum

\* An expired join counts every unanswered slot as timed out.
Decide(slots, expired) ==
  LET pending    == Count(slots, "PENDING")
      timedOut   == Count(slots, "TIMED_OUT") + (IF expired THEN pending ELSE 0)
      unanswered == IF expired THEN 0 ELSE pending
      succeeded  == Count(slots, "SUCCEEDED")
      failed     == Count(slots, "FAILED") + timedOut
  IN IF Succeeds(succeeded, failed, unanswered) THEN "success"
     ELSE IF Errs(succeeded, failed, unanswered) THEN "error"
     ELSE "undecided"

\* The rows a transaction may complete: lockPendingJoin finds no other.
PendingJoin == wp = "PENDING"

TimedOut(slots) == [s \in Slots |-> IF slots[s] = "PENDING" THEN "TIMED_OUT"
                                    ELSE slots[s]]

Complete(final, verdict) ==
  /\ slot' = final
  /\ wp' = "COMPLETED"
  /\ result' = [status |-> verdict, answers |-> final]
  /\ signals' = [signals EXCEPT !.owed = @ + 1]

LeavePending(slots) == slot' = slots /\ UNCHANGED <<wp, result, signals>>

\* completeIfDecided, on the slots as the transaction has written them.
CompleteIfDecided(slots, expired) ==
  IF Decide(slots, expired) = "undecided" THEN LeavePending(slots)
  ELSE Complete(IF expired THEN TimedOut(slots) ELSE slots, Decide(slots, expired))

\* The slot rows fillSlot's UPDATE matches.
Fillable(s, c, onlyForClaimant) ==
  slot[s] = "PENDING" /\ (onlyForClaimant => claim[s] = c)

\* fillSlot: first answer wins, and an answer nothing matches is dropped.
FillSlot(s, answer, c, onlyForClaimant) ==
  IF PendingJoin /\ Fillable(s, c, onlyForClaimant)
  THEN /\ claim' = IF c = NoChild THEN claim ELSE [claim EXCEPT ![s] = c]
       /\ CompleteIfDecided([slot EXCEPT ![s] = answer], FALSE)
  ELSE UNCHANGED rows

-----------------------------------------------------------------------------
(* The parent's step *)

\* The waitpoint and its slots are there, whatever they hold.
RowsExist == wp \in {"PENDING", "COMPLETED"}

\* Slots the step is told to dispatch: not answered, and with no child yet.
Undispatched ==
  IF wp = "PENDING"
  THEN {s \in Slots : slot[s] = "PENDING" /\ claim[s] = NoChild}
  ELSE {}

\* createForPause: the row and its slots, in one transaction.
CreateForPause ==
  /\ wp = "absent" /\ step.pc = "creating"
  /\ wp' = "PENDING"
  /\ step' = [step EXCEPT !.pc = "arming"]
  /\ UNCHANGED <<slot, claim, result, signals, child, owedError, timer, resuming,
                 bounds>>

\* Its timeout job is scheduled after the commit, by the call that inserted it.
ArmTimer ==
  /\ step.pc = "arming"
  /\ timer' = IF HasTimeout THEN "armed" ELSE timer
  /\ step' = [pc |-> "dispatching", todo |-> Slots]
  /\ UNCHANGED <<rows, child, owedError, resuming, bounds>>

\* The call fails, or its process dies, in between; the step asks again.
CrashBeforeArming ==
  /\ step.pc = "arming" /\ crashes < MaxCrashes
  /\ crashes' = crashes + 1
  /\ step' = [step EXCEPT !.pc = "creating"]
  /\ UNCHANGED <<rows, child, owedError, timer, resuming, replays>>

\* A step that runs again gets its own join back, and schedules nothing.
CreateAgain ==
  /\ RowsExist /\ step.pc = "creating"
  /\ step' = [pc |-> "dispatching", todo |-> Undispatched]
  /\ UNCHANGED <<rows, child, owedError, timer, resuming, bounds>>

\* The worker running the parent dies and the run starts over.
Replay ==
  /\ step.pc = "dispatching" /\ replays < MaxReplays
  /\ replays' = replays + 1
  /\ step' = [pc |-> "creating", todo |-> {}]
  /\ owedError' = {}
  /\ UNCHANGED <<rows, child, timer, resuming, crashes>>

Unused(c) == child[c].phase = "unused"

Carry(children, c, s) ==
  [children EXCEPT ![c] = [phase |-> "dispatched", slot |-> s, attached |-> FALSE]]

Dispatch(s, c) ==
  /\ step.pc = "dispatching" /\ s \in step.todo /\ Unused(c)
  /\ step' = [step EXCEPT !.todo = @ \ {s}]
  /\ child' = Carry(child, c, s)
  /\ UNCHANGED <<rows, owedError, timer, resuming, bounds>>

\* The dispatch's response is an error or never comes: the child may exist.
DispatchFails(s) ==
  /\ step.pc = "dispatching" /\ s \in step.todo
  /\ step' = [step EXCEPT !.todo = @ \ {s}]
  /\ owedError' = owedError \cup {s}
  /\ \/ UNCHANGED child
     \/ \E c \in Children : Unused(c) /\ child' = Carry(child, c, s)
  /\ UNCHANGED <<rows, timer, resuming, bounds>>

\* answerSlot: the step posts the error itself, and ignores its own failure.
AnswerForFailedDispatch(s) ==
  /\ s \in owedError
  /\ owedError' = owedError \ {s}
  /\ FillSlot(s, "FAILED", NoChild, FALSE) \/ UNCHANGED rows
  /\ UNCHANGED <<child, step, timer, resuming, bounds>>

\* Every slot has been dealt with: the engine reports the run PAUSED.
Pause ==
  /\ step.pc = "dispatching" /\ step.todo = {} /\ owedError = {}
  /\ step' = [step EXCEPT !.pc = "paused"]
  /\ run' = "uploaded"
  /\ UNCHANGED <<rows, child, owedError, timer, resumes, bounds>>

-----------------------------------------------------------------------------
(* A child run, from its creation to its end *)

Move(c, from, to) ==
  child[c].phase = from /\ child' = [child EXCEPT ![c].phase = to]

\* resolveVerifiedParent: the slot is proven against a PENDING join.
VerifyParent(c) ==
  /\ child[c].phase = "dispatched"
  /\ child' = [child EXCEPT
                 ![c].phase = "verified",
                 ![c].attached = wp = "PENDING" /\ slot[child[c].slot] = "PENDING"]
  /\ UNCHANGED <<rows, step, owedError, timer, resuming, bounds>>

\* Mutant: a slot can be claimed over another child's claim.
ClaimableTwice(s) == RowsExist /\ slot[s] = "PENDING"

\* The slot rows claimSlot's UPDATE matches.
Claimable(s) == RowsExist /\ slot[s] = "PENDING" /\ claim[s] = NoChild

\* claimJoinSlot: a child that comes second runs detached from the join.
ClaimSlot(c) ==
  LET s == child[c].slot
      claimed == child[c].attached /\ Claimable(s)
  IN /\ child[c].phase = "verified"
     /\ claim' = IF claimed THEN [claim EXCEPT ![s] = c] ELSE claim
     /\ child' = [child EXCEPT ![c].phase = "claimed", ![c].attached = claimed]
     /\ UNCHANGED <<wp, slot, result, signals, step, owedError, timer, resuming,
                    bounds>>

Persist(c) ==
  /\ Move(c, "claimed", "running")
  /\ UNCHANGED <<rows, step, owedError, timer, resuming, bounds>>

\* The slot rows releaseSlotClaim's UPDATE matches.
Releasable(s, c) == RowsExist /\ slot[s] = "PENDING" /\ claim[s] = c

\* The run is not created: its claim is released, unless that fails too, and
\* the webhook job may be retried, as another run id with the same slot URL.
PersistFails(c) ==
  LET s == child[c].slot
      lost == [child EXCEPT ![c].phase = "lost"]
  IN /\ child[c].phase = "claimed"
     /\ \/ /\ child[c].attached /\ Releasable(s, c)
           /\ claim' = [claim EXCEPT ![s] = NoChild]
        \/ claim' = claim
     /\ \/ child' = lost
        \/ \E d \in Children : Unused(d) /\ child' = Carry(lost, d, s)
     /\ UNCHANGED <<wp, slot, result, signals, step, owedError, timer, resuming,
                    bounds>>

\* A Return Response step posts to the slot URL, any number of times.
Respond(c, answer) ==
  /\ child[c].phase = "running"
  /\ FillSlot(child[c].slot, answer, NoChild, FALSE)
  /\ UNCHANGED <<child, step, owedError, timer, resuming, bounds>>

Finish(c, outcome) ==
  /\ Move(c, "running", outcome)
  /\ UNCHANGED <<rows, step, owedError, timer, resuming, bounds>>

\* Mutant: only a child that failed answers by ending.
OwesAnswerIfFailed(c) == child[c].attached /\ child[c].phase = "failed"

\* A child run whose row names the slot: it was, and stayed, attached.
OwesAnswer(c) == child[c].attached

\* fillSlotForFinishedChild, when the child's terminal status is stored.
FillSlotForFinishedChild(c) ==
  /\ child[c].phase \in {"succeeded", "failed"}
  /\ child' = [child EXCEPT ![c].phase = "reported"]
  /\ IF OwesAnswer(c)
     THEN FillSlot(child[c].slot,
                   IF child[c].phase = "succeeded" THEN "SUCCEEDED" ELSE "FAILED",
                   c, TRUE)
     ELSE UNCHANGED rows
  /\ UNCHANGED <<step, owedError, timer, resuming, bounds>>

-----------------------------------------------------------------------------
(* The timeout, and the resume *)

Expire ==
  /\ timer = "armed"
  /\ timer' = "fired"
  /\ IF PendingJoin
     THEN CompleteIfDecided(slot, TRUE) /\ UNCHANGED claim
     ELSE UNCHANGED rows
  /\ UNCHANGED <<child, step, owedError, resuming, bounds>>

StoredPaused == run \in {"stored", "checked"}

\* The drain of the PAUSED upload: the row first, ...
StorePaused ==
  /\ run = "uploaded"
  /\ run' = "stored"
  /\ UNCHANGED <<rows, child, step, owedError, timer, resumes, bounds>>

\* Mutant: the drain does not look for a join that completed before it.
ResumeNothing ==
  /\ run = "stored"
  /\ run' = "checked"
  /\ UNCHANGED <<rows, child, step, owedError, timer, resumes, bounds>>

\* ... then a join that completed before it, which nothing else would resume.
ResumePreCompleted ==
  /\ run = "stored"
  /\ run' = "checked"
  /\ signals' = IF wp = "COMPLETED" THEN [signals EXCEPT !.owed = @ + 1] ELSE signals
  /\ UNCHANGED <<wp, slot, claim, result, child, step, owedError, timer, resumes,
                 bounds>>

\* resumeFromWaitpoint reads the run; a signal to a run still RUNNING completes
\* waitpoints that are not joins, so it does nothing to this one.
ReadRunStatus ==
  /\ signals.owed > 0
  /\ signals' = [owed |-> signals.owed - 1,
                 paused |-> signals.paused + (IF StoredPaused THEN 1 ELSE 0)]
  /\ UNCHANGED <<wp, slot, claim, result, child, step, owedError, timer, resuming,
                 bounds>>

\* handleResumeSignal under PAUSED: whoever finds the row resumes and deletes it.
HandleResumeSignal ==
  /\ signals.paused > 0
  /\ signals' = [signals EXCEPT !.paused = @ - 1]
  /\ IF RowsExist
     THEN wp' = "deleted" /\ resumes' = resumes + 1
     ELSE UNCHANGED <<wp, resumes>>
  /\ UNCHANGED <<slot, claim, result, child, step, owedError, timer, run, bounds>>

\* The process that completed the join, or that drains the PAUSED upload, is
\* lost (or its call to Redis fails) before it resumes the run.
CrashBeforeResume ==
  /\ crashes < MaxCrashes
  /\ crashes' = crashes + 1
  /\ \/ /\ signals.owed > 0
        /\ signals' = [signals EXCEPT !.owed = @ - 1]
        /\ UNCHANGED run
     \/ run = "stored" /\ run' = "checked" /\ UNCHANGED signals
  /\ UNCHANGED <<wp, slot, claim, result, child, step, owedError, timer, resumes,
                 replays>>

-----------------------------------------------------------------------------
Init ==
  /\ wp = "absent"
  /\ slot = [s \in Slots |-> "PENDING"]
  /\ claim = [s \in Slots |-> NoChild]
  /\ child = [c \in Children |->
                [phase |-> "unused", slot |-> NoSlot, attached |-> FALSE]]
  /\ step = [pc |-> "creating", todo |-> {}]
  /\ owedError = {}
  /\ timer = "none"
  /\ result = NoResult
  /\ run = "running"
  /\ signals = [owed |-> 0, paused |-> 0]
  /\ resumes = 0 /\ replays = 0 /\ crashes = 0

DispatchStep ==
  \E s \in Slots : \/ \E c \in Children : Dispatch(s, c)
                   \/ DispatchFails(s)
                   \/ AnswerForFailedDispatch(s)

ParentStep == CreateForPause \/ ArmTimer \/ CreateAgain \/ DispatchStep \/ Pause

ChildStep(c) ==
  \/ VerifyParent(c) \/ ClaimSlot(c) \/ Persist(c) \/ PersistFails(c)
  \/ \E a \in Answers : Respond(c, a)
  \/ \E o \in {"succeeded", "failed"} : Finish(c, o)
  \/ FillSlotForFinishedChild(c)

ResumeStep ==
  StorePaused \/ ResumePreCompleted \/ ReadRunStatus \/ HandleResumeSignal

Faults == Replay \/ CrashBeforeArming \/ CrashBeforeResume

Next ==
  \/ ParentStep
  \/ \E c \in Children : ChildStep(c)
  \/ Expire \/ ResumeStep
  \/ Faults

Spec == Init /\ [][Next]_vars

\* The step runs under its flow's timeout, a run ends by its own, an armed job
\* fires when due, and an upload or a call to resume is carried through. That a
\* child is ever created, or answers before it ends, nothing promises.
Fairness ==
  /\ WF_vars(ParentStep) /\ WF_vars(Expire) /\ WF_vars(ResumeStep)
  /\ \A c \in Children :
       /\ WF_vars(\E o \in {"succeeded", "failed"} : Finish(c, o))
       /\ WF_vars(FillSlotForFinishedChild(c))

FairSpec == Spec /\ Fairness
-----------------------------------------------------------------------------
(* Properties *)

Quorums == {Q \in SUBSET Slots : Cardinality(Q) >= Quorum}

Contract == INSTANCE JoinContract
              WITH answers <- slot, verdict <- result.status, resumed <- resumes

Created == {"PENDING", "COMPLETED", "deleted"}

\* The types of the rows and of the actors; a child carries a slot once it is
\* dispatched, and a waitpoint row exists whenever a slot has been answered.
TypeOK ==
  /\ wp \in Created \cup {"absent"}
  /\ slot \in [Slots -> SlotStatus]
  /\ claim \in [Slots -> Children \cup {NoChild}]
  /\ child \in [Children -> [phase : Phases, slot : Slots \cup {NoSlot},
                             attached : BOOLEAN]]
  /\ \A c \in Children : Unused(c) <=> child[c].slot = NoSlot
  /\ step \in [pc : {"creating", "arming", "dispatching", "paused"},
               todo : SUBSET Slots]
  /\ owedError \subseteq Slots
  /\ timer \in {"none", "armed", "fired"}
  /\ result \in [status : {"none", "success", "error"}, answers : [Slots -> SlotStatus]]
  /\ run \in {"running", "uploaded", "stored", "checked"}
  /\ signals \in [owed : Nat, paused : Nat]
  /\ resumes \in Nat /\ replays \in 0..MaxReplays /\ crashes \in 0..MaxCrashes

\* A join that is still PENDING is one its policy cannot settle yet: the
\* transaction that writes the deciding answer is the one that completes it.
DecidedAtOnce == wp = "PENDING" => Decide(slot, FALSE) = "undecided"

\* The stored aggregate is the slots as they stand, with the verdict its policy
\* gives on them: no answer is counted, or changed, after the join completed.
ResultCountsTheSlots ==
  wp \in {"COMPLETED", "deleted"} =>
    /\ result.answers = slot
    /\ result.status = Contract!Outcome(slot)
    /\ result.status # "none"

Owns(c) == child[c].attached
           /\ child[c].phase \in {"claimed", "running", "succeeded", "failed"}

\* A slot belongs to one child at a time, whatever replays of the step or
\* retries of a webhook send: a run attached second would fail the slot's item
\* while the first still works on it (claimJoinSlot).
OneChildPerSlot ==
  \A c, d \in Children :
    Owns(c) /\ Owns(d) /\ child[c].slot = child[d].slot => c = d

\* Completing races the PAUSED upload, and each may find that the other has not
\* happened yet; still one of them resumes the run: a completed join of a run
\* that is PAUSED and drained has a signal on its way, unless a process died.
CompletedJoinHasASignal ==
  wp = "COMPLETED" /\ run = "checked" /\ crashes = 0
    => signals.owed + signals.paused > 0

\* The join implements the contract: slots answered once, one verdict, one resume.
ImplementsContract == Contract!Spec

\* A run attached to a slot has answered it by the time its end is reported, with
\* a Return Response or not: "or the join waits forever" (fillSlotForFinishedChild).
AttachedChildAnswers ==
  \A c \in Children :
    child[c].phase = "reported" /\ child[c].attached /\ wp = "PENDING"
      => slot[child[c].slot] # "PENDING"

\* Whatever children and answers are lost, timeoutSeconds bounds the wait, and the
\* join's verdict resumes its run, unless a process died between a commit and its sequel.
JoinResumesItsRun == wp = "PENDING" ~> resumes = 1 \/ crashes > 0
=============================================================================
