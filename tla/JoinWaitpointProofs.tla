------------------------ MODULE JoinWaitpointProofs ------------------------
(***************************************************************************)
(* The safety of JoinWaitpoint, for any slots, children, policy and        *)
(* bounds. The counts of joinPolicy.decide are first related to the slots  *)
(* they count; everything else follows from one inductive invariant.       *)
(***************************************************************************)
EXTENDS JoinWaitpoint, FiniteSetTheorems, TLAPS

USE DEF Answers, SlotStatus

-----------------------------------------------------------------------------
(* Counting *)

\* A count is a number (countSlots).
LEMMA CountType ==
  ASSUME NEW a, NEW st
  PROVE  Count(a, st) \in Nat
<1>1. IsFiniteSet({s \in Slots : a[s] = st})
  BY JoinAssumption, FS_Subset
<1> QED BY <1>1, FS_CardinalityType DEF Count

\* A count is zero when no slot has the status (countSlots).
LEMMA CountZero ==
  ASSUME NEW a, NEW st
  PROVE  Count(a, st) = 0 <=> \A s \in Slots : a[s] # st
<1>1. IsFiniteSet({s \in Slots : a[s] = st})
  BY JoinAssumption, FS_Subset
<1>2. Count(a, st) = 0 <=> {s \in Slots : a[s] = st} = {}
  BY <1>1, FS_EmptySet DEF Count
<1> QED BY <1>2

\* The counts of two statuses add up (countSlots).
LEMMA CountSum ==
  ASSUME NEW a, NEW st1, NEW st2, st1 # st2
  PROVE  Cardinality({s \in Slots : a[s] \in {st1, st2}}) = Count(a, st1) + Count(a, st2)
<1> DEFINE A == {s \in Slots : a[s] = st1}
           B == {s \in Slots : a[s] = st2}
<1>1. IsFiniteSet(A) /\ IsFiniteSet(B)
  BY JoinAssumption, FS_Subset
<1>2. A \cap B = {} /\ A \cup B = {s \in Slots : a[s] \in {st1, st2}}
  OBVIOUS
<1>3. Cardinality(A \cup B) = Cardinality(A) + Cardinality(B) - Cardinality(A \cap B)
  BY <1>1, FS_Union
<1>4. Cardinality(A \cap B) = 0
  BY <1>2, FS_EmptySet
<1>5. Cardinality(A) \in Nat /\ Cardinality(B) \in Nat
  BY <1>1, FS_CardinalityType
<1>6. Cardinality(A) = Count(a, st1) /\ Cardinality(B) = Count(a, st2)
  BY DEF Count
<1> HIDE DEF A, B
<1>7. Cardinality(A \cup B) = Count(a, st1) + Count(a, st2)
  BY <1>3, <1>4, <1>5, <1>6
<1> QED BY <1>2, <1>7

\* Deciding from counts is deciding from the slots (joinPolicy.decide).
LEMMA DecideIsOutcome ==
  ASSUME NEW a \in [Slots -> SlotStatus]
  PROVE  Decide(a, FALSE) = IF Contract!Outcome(a) = "none" THEN "undecided"
                            ELSE Contract!Outcome(a)
<1> DEFINE P == Count(a, "PENDING")
           T == Count(a, "TIMED_OUT")
           S == Count(a, "SUCCEEDED")
           X == Count(a, "FAILED")
<1>0. /\ Policy \in {"ALL_SETTLED", "FAIL_FAST", "QUORUM"}
      /\ Quorum \in Nat
  <2>1. Cardinality(Slots) \in Nat
    BY JoinAssumption, FS_CardinalityType
  <2> QED BY <2>1, JoinAssumption DEF Policies
<1>1. P \in Nat /\ T \in Nat /\ S \in Nat /\ X \in Nat
  BY CountType
<1>2. P = 0 <=> \A s \in Slots : a[s] # "PENDING"
  BY CountZero
<1>3. X + T = 0 <=> \A s \in Slots : a[s] \notin {"FAILED", "TIMED_OUT"}
  <2>1. X = 0 <=> \A s \in Slots : a[s] # "FAILED"
    BY CountZero
  <2>2. T = 0 <=> \A s \in Slots : a[s] # "TIMED_OUT"
    BY CountZero
  <2> QED BY <1>1, <2>1, <2>2
<1>4. Cardinality({s \in Slots : a[s] \notin {"FAILED", "TIMED_OUT"}}) = S + P
  <2>1. {s \in Slots : a[s] \notin {"FAILED", "TIMED_OUT"}}
          = {s \in Slots : a[s] \in {"SUCCEEDED", "PENDING"}}
    OBVIOUS
  <2> QED BY <2>1, CountSum
<1>5. Succeeds(S, X + T, P) <=> Contract!Met(a)
  <2>1. CASE Policy = "ALL_SETTLED"
    BY <1>2, <2>1 DEF Succeeds, Contract!Met, Contract!Unmarked
  <2>2. CASE Policy = "FAIL_FAST"
    <3>1. (\A s \in Slots : a[s] = "SUCCEEDED") <=> X + T = 0 /\ P = 0
      BY <1>2, <1>3
    <3> QED BY <2>2, <3>1 DEF Succeeds, Contract!Met
  <2>3. CASE Policy = "QUORUM"
    <3>1. Succeeds(S, X + T, P) <=> S >= Quorum
      BY <2>3 DEF Succeeds
    <3>2. Contract!Met(a) <=> S >= Quorum
      BY <2>3 DEF Contract!Met, Count, Quorums
    <3> QED BY <3>1, <3>2
  <2> QED BY <1>0, <2>1, <2>2, <2>3
<1>6. ~Succeeds(S, X + T, P) => (Errs(S, X + T, P) <=> Contract!OutOfReach(a))
  <2>1. CASE Policy = "ALL_SETTLED"
    BY <2>1 DEF Errs, Contract!OutOfReach
  <2>2. CASE Policy = "FAIL_FAST"
    <3>1. (\E s \in Slots : a[s] \in {"FAILED", "TIMED_OUT"}) <=> X + T > 0
      BY <1>1, <1>3
    <3> QED BY <2>2, <3>1 DEF Errs, Contract!OutOfReach, Contract!Bad
  <2>3. CASE Policy = "QUORUM"
    <3>1. Errs(S, X + T, P) <=> S < Quorum /\ S + P < Quorum
      BY <2>3 DEF Errs
    <3>2. Contract!OutOfReach(a) <=> S + P < Quorum
      <4>1. Contract!OutOfReach(a)
              <=> ~(Cardinality({s \in Slots : a[s] \notin {"FAILED", "TIMED_OUT"}}) >= Quorum)
        BY <2>3 DEF Contract!OutOfReach, Contract!Bad, Quorums
      <4> QED BY <1>0, <1>1, <1>4, <4>1
    <3> HIDE DEF S, P
    <3> QED BY <1>0, <1>1, <3>1, <3>2
  <2> QED BY <1>0, <2>1, <2>2, <2>3
<1>7. Decide(a, FALSE) = IF Succeeds(S, X + T, P) THEN "success"
                         ELSE IF Errs(S, X + T, P) THEN "error" ELSE "undecided"
  BY <1>1 DEF Decide
<1> QED BY <1>5, <1>6, <1>7 DEF Contract!Outcome

\* An expired join is decided, on its slots with the unanswered ones timed out
\* (completeIfDecided with expired).
LEMMA ExpiredIsOutcome ==
  ASSUME NEW a \in [Slots -> SlotStatus]
  PROVE  /\ TimedOut(a) \in [Slots -> SlotStatus]
         /\ Decide(a, TRUE) = Contract!Outcome(TimedOut(a))
         /\ Decide(a, TRUE) \in {"success", "error"}
<1> DEFINE b == TimedOut(a)
           P == Count(a, "PENDING")
           T == Count(a, "TIMED_OUT")
           S == Count(a, "SUCCEEDED")
           X == Count(a, "FAILED")
<1>1. b \in [Slots -> SlotStatus]
  BY DEF TimedOut
<1>2. P \in Nat /\ T \in Nat /\ S \in Nat /\ X \in Nat
  BY CountType
<1>3. Count(b, "TIMED_OUT") = T + P
  <2>1. {s \in Slots : b[s] = "TIMED_OUT"}
          = {s \in Slots : a[s] \in {"TIMED_OUT", "PENDING"}}
    BY DEF TimedOut
  <2>2. Cardinality({s \in Slots : a[s] \in {"TIMED_OUT", "PENDING"}}) = T + P
    BY CountSum
  <2> QED BY <2>1, <2>2 DEF Count
<1>4. Count(b, "SUCCEEDED") = S
  <2>1. {s \in Slots : b[s] = "SUCCEEDED"} = {s \in Slots : a[s] = "SUCCEEDED"}
    BY DEF TimedOut
  <2> QED BY <2>1 DEF Count
<1>5. Count(b, "FAILED") = X
  <2>1. {s \in Slots : b[s] = "FAILED"} = {s \in Slots : a[s] = "FAILED"}
    BY DEF TimedOut
  <2> QED BY <2>1 DEF Count
<1>6. Count(b, "PENDING") = 0
  <2>1. \A s \in Slots : b[s] # "PENDING"
    BY DEF TimedOut
  <2> QED BY <2>1, CountZero
<1>7. Decide(a, TRUE) = IF Succeeds(S, X + (T + P), 0) THEN "success"
                        ELSE IF Errs(S, X + (T + P), 0) THEN "error" ELSE "undecided"
  BY DEF Decide
<1>8. Decide(b, FALSE) = IF Succeeds(S, X + (T + P), 0) THEN "success"
                         ELSE IF Errs(S, X + (T + P), 0) THEN "error" ELSE "undecided"
  <2> HIDE DEF b, P, T, S, X
  <2>1. (T + P) + 0 = T + P
    BY <1>2
  <2> QED BY <1>3, <1>4, <1>5, <1>6, <2>1 DEF Decide
<1>9. Succeeds(S, X + (T + P), 0) \/ Errs(S, X + (T + P), 0)
  <2>1. Policy \in {"ALL_SETTLED", "FAIL_FAST", "QUORUM"} /\ Quorum \in Nat
    <3>1. Cardinality(Slots) \in Nat
      BY JoinAssumption, FS_CardinalityType
    <3> QED BY <3>1, JoinAssumption DEF Policies
  <2> HIDE DEF P, T, S, X
  <2> QED BY <1>2, <2>1 DEF Succeeds, Errs
<1>10. Decide(b, FALSE) = IF Contract!Outcome(b) = "none" THEN "undecided"
                          ELSE Contract!Outcome(b)
  BY <1>1, DecideIsOutcome
<1> QED BY <1>1, <1>7, <1>8, <1>9, <1>10

\* A join none of whose slots is answered is undecided (assertValidJoin: at
\* least one slot, and a quorum between one and the slots).
LEMMA FreshIsUndecided ==
  Contract!Outcome([s \in Slots |-> "PENDING"]) = "none"
<1> DEFINE a == [s \in Slots |-> "PENDING"]
<1>1. /\ Cardinality(Slots) \in Nat /\ Quorum \in 1..Cardinality(Slots)
      /\ Slots # {} /\ Cardinality({}) = 0
      /\ Policy \in {"ALL_SETTLED", "FAIL_FAST", "QUORUM"}
  BY JoinAssumption, FS_CardinalityType, FS_EmptySet DEF Policies
<1>2. /\ {s \in Slots : a[s] = "SUCCEEDED"} = {}
      /\ {s \in Slots : a[s] \notin {"FAILED", "TIMED_OUT"}} = Slots
      /\ \A s \in Slots : a[s] = "PENDING"
  OBVIOUS
<1>3. {} \notin Quorums /\ Slots \in Quorums
  BY <1>1 DEF Quorums
<1> HIDE DEF a
<1>4. ~Contract!Met(a)
  BY <1>1, <1>2, <1>3 DEF Contract!Met, Contract!Unmarked
<1>5. ~Contract!OutOfReach(a)
  BY <1>1, <1>2, <1>3 DEF Contract!OutOfReach, Contract!Bad
<1> QED BY <1>4, <1>5 DEF Contract!Outcome, a

-----------------------------------------------------------------------------
(* What a transaction writes *)

Outcome(a) == Contract!Outcome(a)

\* The slots become a, and the join completes if they settle its policy.
Settle(a) ==
  /\ a \in [Slots -> SlotStatus]
  /\ slot' = a
  /\ IF Outcome(a) = "none" THEN UNCHANGED <<wp, result, signals>>
     ELSE Complete(a, Outcome(a))

\* Verdicts are two, or none yet (decideOutcome).
LEMMA OutcomeType == \A a : Outcome(a) \in {"none", "success", "error"}
  BY DEF Outcome, Contract!Outcome

\* completeIfDecided settles the slots it was given.
LEMMA CompleteSettles ==
  ASSUME NEW a \in [Slots -> SlotStatus], CompleteIfDecided(a, FALSE)
  PROVE  Settle(a)
<1>1. Decide(a, FALSE) = "undecided" <=> Outcome(a) = "none"
  BY DecideIsOutcome DEF Outcome, Contract!Outcome
<1>2. Outcome(a) # "none" => Decide(a, FALSE) = Outcome(a)
  BY DecideIsOutcome DEF Outcome
<1>3. CASE Outcome(a) = "none"
  BY <1>1, <1>3 DEF CompleteIfDecided, LeavePending, Settle
<1>4. CASE Outcome(a) # "none"
  <2>1. Complete(a, Outcome(a))
    BY <1>1, <1>2, <1>4, Zenon DEF CompleteIfDecided
  <2> QED BY <1>4, <2>1 DEF Settle, Complete
<1> QED BY <1>3, <1>4

\* expire settles the slots with the unanswered ones timed out.
LEMMA ExpireSettles ==
  ASSUME slot \in [Slots -> SlotStatus], CompleteIfDecided(slot, TRUE)
  PROVE  Settle(TimedOut(slot)) /\ Outcome(TimedOut(slot)) # "none"
<1>1. /\ TimedOut(slot) \in [Slots -> SlotStatus]
      /\ Decide(slot, TRUE) = Outcome(TimedOut(slot))
      /\ Decide(slot, TRUE) \in {"success", "error"}
  BY ExpiredIsOutcome DEF Outcome
<1>2. Decide(slot, TRUE) # "undecided" /\ Outcome(TimedOut(slot)) # "none"
  BY <1>1
<1>3. Complete(TimedOut(slot), Outcome(TimedOut(slot)))
  BY <1>1, <1>2, Zenon DEF CompleteIfDecided
<1> QED BY <1>1, <1>2, <1>3 DEF Settle, Complete

\* fillSlot answers an unanswered slot of a PENDING join, or changes nothing;
\* it never moves a claim.
LEMMA FillSettles ==
  ASSUME TypeOK, NEW s \in Slots, NEW x \in Answers,
         NEW c \in Children \cup {NoChild}, NEW b \in BOOLEAN,
         c = NoChild \/ b, FillSlot(s, x, c, b)
  PROVE  /\ claim' = claim
         /\ \/ UNCHANGED rows
            \/ /\ wp = "PENDING" /\ slot[s] = "PENDING"
               /\ Settle([slot EXCEPT ![s] = x])
<1>1. CASE PendingJoin /\ Fillable(s, c, b)
  <2>1. CompleteIfDecided([slot EXCEPT ![s] = x], FALSE)
    BY <1>1 DEF FillSlot
  <2>2. [slot EXCEPT ![s] = x] \in [Slots -> SlotStatus]
    BY DEF TypeOK
  <2>3. claim' = claim
    <3>1. claim' = IF c = NoChild THEN claim ELSE [claim EXCEPT ![s] = c]
      BY <1>1 DEF FillSlot
    <3>2. c # NoChild => claim[s] = c
      BY <1>1 DEF Fillable
    <3>3. claim \in [Slots -> Children \cup {NoChild}]
      BY DEF TypeOK
    <3> QED BY <3>1, <3>2, <3>3
  <2> QED BY <1>1, <2>1, <2>2, <2>3, CompleteSettles DEF PendingJoin, Fillable
<1>2. CASE ~(PendingJoin /\ Fillable(s, c, b))
  BY <1>2 DEF FillSlot, rows
<1> QED BY <1>1, <1>2

\* The rows an action may leave: as they were, or settled.
RowsStep ==
  \/ UNCHANGED <<wp, slot, result, signals>>
  \/ \E s \in Slots, x \in Answers :
       wp = "PENDING" /\ slot[s] = "PENDING" /\ Settle([slot EXCEPT ![s] = x])
  \/ wp = "PENDING" /\ Settle(TimedOut(slot)) /\ Outcome(TimedOut(slot)) # "none"

RowsType ==
  /\ wp \in Created \cup {"absent"}
  /\ slot \in [Slots -> SlotStatus]
  /\ result \in [status : {"none", "success", "error"}, answers : [Slots -> SlotStatus]]
  /\ signals \in [owed : Nat, paused : Nat]

\* Settling keeps the types of the rows.
LEMMA SettleType ==
  ASSUME RowsType, NEW a, Settle(a)
  PROVE  RowsType'
<1>1. Outcome(a) \in {"none", "success", "error"}
  BY OutcomeType
<1>2. CASE Outcome(a) = "none"
  BY <1>2 DEF Settle, RowsType
<1>3. CASE Outcome(a) # "none"
  BY <1>1, <1>3 DEF Settle, Complete, RowsType, Created
<1> QED BY <1>2, <1>3

\* RowsStep keeps the types of the rows.
LEMMA RowsStepType ==
  ASSUME RowsType, RowsStep
  PROVE  RowsType'
  BY SettleType DEF RowsStep, RowsType

\* Every other action leaves the rows, or settles them, and enqueues nothing.
LEMMA NextRows ==
  ASSUME TypeOK, [Next]_vars
  PROVE  \/ RowsStep /\ UNCHANGED resumes
         \/ CreateForPause \/ ResumePreCompleted \/ ReadRunStatus
         \/ HandleResumeSignal \/ CrashBeforeResume
<1>1. ASSUME NEW s \in Slots, AnswerForFailedDispatch(s)
      PROVE  RowsStep /\ UNCHANGED resumes
  <2>1. FillSlot(s, "FAILED", NoChild, FALSE) \/ UNCHANGED rows
    BY <1>1 DEF AnswerForFailedDispatch
  <2>2. "FAILED" \in Answers /\ FALSE \in BOOLEAN /\ NoChild \in Children \cup {NoChild}
    OBVIOUS
  <2> QED BY <1>1, <2>1, <2>2, FillSettles
          DEF AnswerForFailedDispatch, RowsStep, rows, resuming
<1>2. ASSUME NEW c \in Children, NEW x \in Answers, Respond(c, x)
      PROVE  RowsStep /\ UNCHANGED resumes
  <2>1. child[c].slot \in Slots
    BY <1>2 DEF Respond, TypeOK, Unused
  <2>2. FillSlot(child[c].slot, x, NoChild, FALSE)
    BY <1>2 DEF Respond
  <2>3. FALSE \in BOOLEAN /\ NoChild \in Children \cup {NoChild}
    OBVIOUS
  <2> QED BY <1>2, <2>1, <2>2, <2>3, FillSettles DEF Respond, RowsStep, rows, resuming
<1>3. ASSUME NEW c \in Children, FillSlotForFinishedChild(c)
      PROVE  RowsStep /\ UNCHANGED resumes
  <2> DEFINE x == IF child[c].phase = "succeeded" THEN "SUCCEEDED" ELSE "FAILED"
  <2>1. child[c].slot \in Slots /\ x \in Answers /\ TRUE \in BOOLEAN
    BY <1>3 DEF FillSlotForFinishedChild, TypeOK, Unused
  <2>2. CASE OwesAnswer(c)
    <3>1. FillSlot(child[c].slot, x, c, TRUE)
      BY <1>3, <2>2 DEF FillSlotForFinishedChild
    <3> QED BY <1>3, <2>1, <3>1, FillSettles
            DEF FillSlotForFinishedChild, RowsStep, rows, resuming
  <2>3. CASE ~OwesAnswer(c)
    BY <1>3, <2>3 DEF FillSlotForFinishedChild, RowsStep, rows, resuming
  <2> QED BY <2>2, <2>3
<1>4. ASSUME Expire
      PROVE  RowsStep /\ UNCHANGED resumes
  <2>1. slot \in [Slots -> SlotStatus]
    BY DEF TypeOK
  <2>2. CASE PendingJoin
    BY <1>4, <2>1, <2>2, ExpireSettles DEF Expire, RowsStep, PendingJoin, resuming
  <2>3. CASE ~PendingJoin
    BY <1>4, <2>3 DEF Expire, RowsStep, rows, resuming
  <2> QED BY <2>2, <2>3
<1>5. ASSUME \/ ArmTimer \/ CreateAgain \/ Pause \/ StorePaused
             \/ Replay \/ CrashBeforeArming
             \/ \E s \in Slots : (\E c \in Children : Dispatch(s, c)) \/ DispatchFails(s)
             \/ \E c \in Children :
                  \/ VerifyParent(c) \/ ClaimSlot(c) \/ Persist(c) \/ PersistFails(c)
                  \/ \E o \in {"succeeded", "failed"} : Finish(c, o)
             \/ UNCHANGED vars
      PROVE  RowsStep /\ UNCHANGED resumes
  BY <1>5 DEF ArmTimer, CreateAgain, Pause, StorePaused, Replay, CrashBeforeArming,
       Dispatch, DispatchFails, VerifyParent, ClaimSlot, Persist, PersistFails, Finish,
       Move, RowsStep, rows, resuming, vars
<1> QED BY <1>1, <1>2, <1>3, <1>4, <1>5
        DEF Next, ParentStep, DispatchStep, ChildStep, ResumeStep, Faults

-----------------------------------------------------------------------------
(* Types *)

ChildType ==
  /\ child \in [Children -> [phase : Phases, slot : Slots \cup {NoSlot},
                             attached : BOOLEAN]]
  /\ \A c \in Children : Unused(c) <=> child[c].slot = NoSlot

\* A child that is dispatched carries a slot.
LEMMA CarryType ==
  ASSUME ChildType, NEW c \in Children, NEW s \in Slots, child' = Carry(child, c, s)
  PROVE  ChildType'
  BY JoinAssumption DEF ChildType, Carry, Unused, Phases

\* A child that moves on, or is attached or detached, keeps its slot.
LEMMA MoveType ==
  ASSUME ChildType, NEW c \in Children, child[c].phase # "unused",
         NEW p \in Phases \ {"unused"}, NEW b \in BOOLEAN,
         child' = [child EXCEPT ![c].phase = p, ![c].attached = b]
  PROVE  ChildType'
  BY DEF ChildType, Unused

\* TypeOK is kept by every step of the parent, its children and the resume.
LEMMA TypeStep == TypeOK /\ [Next]_vars => TypeOK'
<1> SUFFICES ASSUME TypeOK, [Next]_vars PROVE TypeOK'
  OBVIOUS
<1>1. RowsType /\ ChildType
  BY DEF TypeOK, RowsType, ChildType
<1>2. RowsType' /\ resumes' \in Nat
  <2>1. CASE RowsStep /\ UNCHANGED resumes
    BY <1>1, <2>1, RowsStepType DEF TypeOK
  <2>2. CASE CreateForPause
    BY <1>1, <2>2 DEF CreateForPause, RowsType, Created, TypeOK, resuming
  <2>3. CASE ResumePreCompleted
    BY <1>1, <2>3 DEF ResumePreCompleted, RowsType, TypeOK
  <2>4. CASE ReadRunStatus
    BY <1>1, <2>4 DEF ReadRunStatus, RowsType, TypeOK, resuming
  <2>5. CASE HandleResumeSignal
    BY <1>1, <2>5 DEF HandleResumeSignal, RowsType, Created, TypeOK
  <2>6. CASE CrashBeforeResume
    BY <1>1, <2>6 DEF CrashBeforeResume, RowsType, TypeOK
  <2> QED BY <2>1, <2>2, <2>3, <2>4, <2>5, <2>6, NextRows
<1>3. ChildType'
  <2>1. ASSUME NEW c \in Children, NEW s \in Slots, Dispatch(s, c)
        PROVE  ChildType'
    BY <1>1, <2>1, CarryType DEF Dispatch
  <2>2. ASSUME NEW s \in Slots, DispatchFails(s)
        PROVE  ChildType'
    <3>1. CASE UNCHANGED child
      BY <1>1, <3>1 DEF ChildType, Unused
    <3>2. CASE \E c \in Children : child' = Carry(child, c, s)
      BY <1>1, <3>2, CarryType
    <3> QED BY <2>2, <3>1, <3>2 DEF DispatchFails
  <2>3. ASSUME NEW c \in Children, VerifyParent(c)
        PROVE  ChildType'
    <3>1. child' = [child EXCEPT ![c].phase = "verified",
                      ![c].attached = (wp = "PENDING" /\ slot[child[c].slot] = "PENDING")]
      BY <2>3 DEF VerifyParent
    <3> QED BY <1>1, <2>3, <3>1, MoveType DEF VerifyParent, Phases
  <2>4. ASSUME NEW c \in Children, ClaimSlot(c)
        PROVE  ChildType'
    <3> DEFINE b == child[c].attached /\ Claimable(child[c].slot)
    <3>1. child' = [child EXCEPT ![c].phase = "claimed", ![c].attached = b]
      BY <2>4 DEF ClaimSlot
    <3>2. b \in BOOLEAN
      BY <1>1 DEF ChildType
    <3> HIDE DEF b
    <3> QED BY <1>1, <2>4, <3>1, <3>2, MoveType DEF ClaimSlot, Phases
  <2>5. ASSUME NEW c \in Children, NEW p \in Phases \ {"unused"},
               child[c].phase # "unused", child' = [child EXCEPT ![c].phase = p]
        PROVE  ChildType'
    BY <1>1, <2>5 DEF ChildType, Unused
  <2>6. ASSUME NEW c \in Children, PersistFails(c)
        PROVE  ChildType'
    <3> DEFINE lost == [child EXCEPT ![c].phase = "lost"]
    <3>1. child[c].slot \in Slots
      BY <1>1, <2>6 DEF PersistFails, ChildType, Unused
    <3>2. CASE child' = lost
      BY <2>5, <2>6, <3>2 DEF PersistFails, Phases
    <3>3. ASSUME NEW d \in Children, Unused(d), child' = Carry(lost, d, child[c].slot)
          PROVE  ChildType'
      BY <1>1, <2>6, <3>1, <3>3, JoinAssumption
         DEF PersistFails, ChildType, Carry, Unused, Phases
    <3> QED BY <2>6, <3>2, <3>3 DEF PersistFails
  <2>7. ASSUME NEW c \in Children,
               \/ Persist(c) \/ FillSlotForFinishedChild(c)
               \/ \E o \in {"succeeded", "failed"} : Finish(c, o)
        PROVE  ChildType'
    BY <2>5, <2>7 DEF Persist, FillSlotForFinishedChild, Finish, Move, Phases
  <2>8. ASSUME UNCHANGED child PROVE ChildType'
    BY <1>1, <2>8 DEF ChildType, Unused
  <2> QED BY <2>1, <2>2, <2>3, <2>4, <2>6, <2>7, <2>8
          DEF Next, ParentStep, DispatchStep, ChildStep, ResumeStep, Faults,
              CreateForPause, ArmTimer, CreateAgain, AnswerForFailedDispatch, Pause,
              Respond, Expire, StorePaused, ResumePreCompleted, ReadRunStatus,
              HandleResumeSignal, Replay, CrashBeforeArming, CrashBeforeResume, vars
<1>4. claim' \in [Slots -> Children \cup {NoChild}]
  <2> USE DEF TypeOK
  <2>1. ASSUME NEW c \in Children, ClaimSlot(c) \/ PersistFails(c)
        PROVE  claim' \in [Slots -> Children \cup {NoChild}]
    BY <2>1 DEF ClaimSlot, PersistFails
  <2>2. ASSUME NEW s \in Slots, NEW x, NEW c \in Children \cup {NoChild}, NEW b,
               FillSlot(s, x, c, b)
        PROVE  claim' \in [Slots -> Children \cup {NoChild}]
    BY <2>2 DEF FillSlot, rows
  <2>3. ASSUME NEW c \in Children,
               FillSlotForFinishedChild(c) \/ \E x \in Answers : Respond(c, x)
        PROVE  claim' \in [Slots -> Children \cup {NoChild}]
    <3>1. child[c].slot \in Slots
      BY <2>3 DEF FillSlotForFinishedChild, Respond, Unused
    <3> QED BY <2>2, <2>3, <3>1 DEF FillSlotForFinishedChild, Respond, rows
  <2>4. ASSUME NEW s \in Slots, AnswerForFailedDispatch(s)
        PROVE  claim' \in [Slots -> Children \cup {NoChild}]
    BY <2>2, <2>4 DEF AnswerForFailedDispatch, rows
  <2>5. ASSUME UNCHANGED claim PROVE claim' \in [Slots -> Children \cup {NoChild}]
    BY <2>5
  <2> QED BY <2>1, <2>3, <2>4, <2>5
          DEF Next, ParentStep, DispatchStep, ChildStep, ResumeStep, Faults,
              CreateForPause, ArmTimer, CreateAgain, Dispatch, DispatchFails, Pause,
              VerifyParent, Persist, Finish, Expire, StorePaused, ResumePreCompleted,
              ReadRunStatus, HandleResumeSignal, Replay, CrashBeforeArming,
              CrashBeforeResume, rows, vars
<1>5. /\ step' \in [pc : {"creating", "arming", "dispatching", "paused"},
                    todo : SUBSET Slots]
      /\ owedError' \subseteq Slots
      /\ timer' \in {"none", "armed", "fired"}
      /\ run' \in {"running", "uploaded", "stored", "checked"}
      /\ replays' \in 0..MaxReplays /\ crashes' \in 0..MaxCrashes
  <2> USE DEF TypeOK, resuming, bounds
  <2>1. CASE CreateForPause \/ ArmTimer \/ CreateAgain \/ Pause
    <3>1. CASE CreateForPause
      BY <3>1 DEF CreateForPause
    <3>2. CASE ArmTimer
      BY <3>2 DEF ArmTimer
    <3>3. CASE CreateAgain
      BY <3>3 DEF CreateAgain, Undispatched
    <3>4. CASE Pause
      BY <3>4 DEF Pause
    <3> QED BY <2>1, <3>1, <3>2, <3>3, <3>4
  <2>5. CASE Replay \/ CrashBeforeArming \/ CrashBeforeResume
    <3>1. MaxReplays \in Nat /\ MaxCrashes \in Nat
      BY JoinAssumption
    <3>2. CASE Replay
      BY <3>1, <3>2 DEF Replay
    <3>3. CASE CrashBeforeArming
      BY <3>1, <3>3 DEF CrashBeforeArming
    <3>4. CASE CrashBeforeResume
      BY <3>1, <3>4 DEF CrashBeforeResume
    <3> QED BY <2>5, <3>2, <3>3, <3>4
  <2>2. CASE \E s \in Slots : \/ \E c \in Children : Dispatch(s, c)
                              \/ DispatchFails(s) \/ AnswerForFailedDispatch(s)
    <3>1. PICK s \in Slots : \/ \E c \in Children : Dispatch(s, c)
                             \/ DispatchFails(s) \/ AnswerForFailedDispatch(s)
      BY <2>2
    <3>2. CASE \E c \in Children : Dispatch(s, c)
      BY <3>2 DEF Dispatch
    <3>3. CASE DispatchFails(s)
      BY <3>3 DEF DispatchFails
    <3>4. CASE AnswerForFailedDispatch(s)
      BY <3>4 DEF AnswerForFailedDispatch
    <3> QED BY <3>1, <3>2, <3>3, <3>4
  <2>3. CASE \E c \in Children : ChildStep(c)
    BY <2>3 DEF ChildStep, VerifyParent, ClaimSlot, Persist, PersistFails, Respond,
         Finish, FillSlotForFinishedChild
  <2>4. CASE Expire \/ ResumeStep \/ UNCHANGED vars
    BY <2>4 DEF Expire, ResumeStep, StorePaused, ResumePreCompleted,
         ReadRunStatus, HandleResumeSignal, vars
  <2> QED BY <2>1, <2>2, <2>3, <2>4, <2>5 DEF Next, ParentStep, DispatchStep, Faults
<1> QED BY <1>2, <1>3, <1>4, <1>5 DEF TypeOK, RowsType, ChildType

\* Every reachable state is well typed.
THEOREM TypeCorrect == Spec => []TypeOK
<1>1. Init => TypeOK
  BY JoinAssumption DEF Init, TypeOK, NoResult, Unused, Phases, Created
<1>2. TypeOK /\ [Next]_vars => TypeOK'
  BY TypeStep
<1> QED BY <1>1, <1>2, PTL DEF Spec

-----------------------------------------------------------------------------
(* The verdict, the aggregate and the one resume *)

\* What the row says of the slots and of the resume, whatever its status.
VerdictInv ==
  /\ wp = "absent" => slot = [s \in Slots |-> "PENDING"]
  /\ wp \in {"absent", "PENDING"} =>
       /\ result.status = "none" /\ resumes = 0
       /\ signals.owed = 0 /\ signals.paused = 0
  /\ wp = "PENDING" => Outcome(slot) = "none"
  /\ ResultCountsTheSlots
  /\ wp = "COMPLETED" => resumes = 0
  /\ wp = "deleted" => resumes = 1

\* Settling a PENDING join keeps the verdict and the slots in agreement.
LEMMA SettleVerdict ==
  ASSUME RowsType, VerdictInv, wp = "PENDING", NEW a, Settle(a), UNCHANGED resumes
  PROVE  VerdictInv'
<1>1. CASE Outcome(a) = "none"
  BY <1>1 DEF Settle, VerdictInv, ResultCountsTheSlots
<1>2. CASE Outcome(a) # "none"
  <2>1. /\ wp' = "COMPLETED" /\ slot' = a
        /\ result' = [status |-> Outcome(a), answers |-> a]
    BY <1>2 DEF Settle, Complete
  <2>2. ResultCountsTheSlots'
    BY <1>2, <2>1 DEF ResultCountsTheSlots, Outcome
  <2> QED BY <2>1, <2>2 DEF VerdictInv
<1> QED BY <1>1, <1>2

\* Every step keeps what the row says of its slots.
LEMMA VerdictStep == TypeOK /\ VerdictInv /\ [Next]_vars => VerdictInv'
<1> SUFFICES ASSUME TypeOK, VerdictInv, [Next]_vars PROVE VerdictInv'
  OBVIOUS
<1>0. RowsType
  BY DEF TypeOK, RowsType
<1>1. CASE RowsStep /\ UNCHANGED resumes
  <2>1. CASE UNCHANGED <<wp, slot, result, signals>>
    BY <1>1, <2>1 DEF VerdictInv, ResultCountsTheSlots
  <2> QED BY <1>0, <1>1, <2>1, SettleVerdict DEF RowsStep
<1>2. CASE CreateForPause
  <2>1. wp' = "PENDING" /\ UNCHANGED <<slot, result, signals, resumes>> /\ wp = "absent"
    BY <1>2 DEF CreateForPause, resuming
  <2>2. Outcome(slot) = "none"
    BY <2>1, FreshIsUndecided DEF VerdictInv, Outcome
  <2> QED BY <2>1, <2>2 DEF VerdictInv, ResultCountsTheSlots
<1>3. CASE ResumePreCompleted
  BY <1>3 DEF ResumePreCompleted, VerdictInv, ResultCountsTheSlots
<1>4. CASE ReadRunStatus
  <2>1. wp \notin {"absent", "PENDING"}
    BY <1>4 DEF ReadRunStatus, VerdictInv
  <2> QED BY <1>4, <2>1 DEF ReadRunStatus, VerdictInv, ResultCountsTheSlots, resuming
<1>5. CASE HandleResumeSignal
  <2>1. wp \in {"COMPLETED", "deleted"}
    BY <1>0, <1>5 DEF HandleResumeSignal, VerdictInv, RowsType, Created
  <2>2. CASE wp = "COMPLETED"
    BY <1>5, <2>2 DEF HandleResumeSignal, RowsExist, VerdictInv, ResultCountsTheSlots
  <2>3. CASE wp = "deleted"
    BY <1>5, <2>3 DEF HandleResumeSignal, RowsExist, VerdictInv, ResultCountsTheSlots
  <2> QED BY <2>1, <2>2, <2>3
<1>6. CASE CrashBeforeResume
  <2>1. wp' = wp /\ slot' = slot /\ result' = result /\ resumes' = resumes
    BY <1>6 DEF CrashBeforeResume
  <2>2. wp \in {"absent", "PENDING"} => signals' = signals
    BY <1>6 DEF CrashBeforeResume, VerdictInv
  <2> QED BY <2>1, <2>2 DEF VerdictInv, ResultCountsTheSlots
<1> QED BY <1>1, <1>2, <1>3, <1>4, <1>5, <1>6, NextRows

\* No waitpoint, no answer, no resume at first.
LEMMA VerdictInit == Init => VerdictInv
  BY DEF Init, VerdictInv, ResultCountsTheSlots, NoResult

\* The inductive invariant of the verdict (completeIfDecided, handleResumeSignal).
LEMMA VerdictInvariant == Spec => [](TypeOK /\ VerdictInv)
<1>1. TypeOK /\ VerdictInv /\ [Next]_vars => TypeOK' /\ VerdictInv'
  BY TypeStep, VerdictStep
<1>2. Init => VerdictInv
  BY VerdictInit
<1> QED BY <1>1, <1>2, TypeCorrect, PTL DEF Spec

\* The aggregate a run resumes with is its slots, under the policy's verdict.
THEOREM AggregateIsTheSlots == Spec => []ResultCountsTheSlots
<1>1. VerdictInv => ResultCountsTheSlots
  BY DEF VerdictInv
<1> QED BY <1>1, VerdictInvariant, PTL

\* A join is decided by the very transaction that makes it decidable.
THEOREM DecidedByTheDecidingAnswer == Spec => []DecidedAtOnce
<1>1. TypeOK /\ VerdictInv => DecidedAtOnce
  <2>1. ASSUME TypeOK, VerdictInv, wp = "PENDING"
        PROVE  Decide(slot, FALSE) = "undecided"
    <3>1. slot \in [Slots -> SlotStatus] /\ Contract!Outcome(slot) = "none"
      BY <2>1 DEF TypeOK, VerdictInv, Outcome
    <3> QED BY <3>1, DecideIsOutcome
  <2> QED BY <2>1 DEF DecidedAtOnce
<1> QED BY <1>1, VerdictInvariant, PTL

-----------------------------------------------------------------------------
(* The contract *)

abstract == <<slot, result.status, resumes>>

\* Every step of the join is a step of its contract, or none.
LEMMA StepRefines ==
  ASSUME TypeOK, VerdictInv, [Next]_vars
  PROVE  Contract!Next \/ UNCHANGED abstract
<1>1. CASE RowsStep /\ UNCHANGED resumes
  <2>1. CASE UNCHANGED <<wp, slot, result, signals>>
    BY <1>1, <2>1 DEF abstract
  <2>2. ASSUME NEW a, wp = "PENDING", Settle(a)
        PROVE  slot' = a /\ result'.status = Outcome(a) /\ result.status = "none"
    BY <2>2 DEF Settle, Complete, VerdictInv
  <2>3. ASSUME NEW s \in Slots, NEW x \in Answers, wp = "PENDING",
               slot[s] = "PENDING", Settle([slot EXCEPT ![s] = x])
        PROVE  Contract!Next
    <3>1. Contract!Answer(s, x)
      BY <1>1, <2>2, <2>3 DEF Contract!Answer, Contract!Unmarked, Outcome
    <3> QED BY <3>1 DEF Contract!Next
  <2>4. ASSUME wp = "PENDING", Settle(TimedOut(slot)), Outcome(TimedOut(slot)) # "none"
        PROVE  Contract!Next
    <3>1. Contract!Expire
      BY <1>1, <2>2, <2>4 DEF Contract!Expire, Contract!Unmarked, Outcome, TimedOut
    <3> QED BY <3>1 DEF Contract!Next
  <2> QED BY <1>1, <2>1, <2>3, <2>4 DEF RowsStep
<1>2. CASE CreateForPause \/ ResumePreCompleted \/ ReadRunStatus \/ CrashBeforeResume
  BY <1>2 DEF CreateForPause, ResumePreCompleted, ReadRunStatus, CrashBeforeResume,
       resuming, abstract
<1>3. CASE HandleResumeSignal
  <2>1. CASE RowsExist
    <3>1. wp = "COMPLETED"
      BY <1>3, <2>1 DEF HandleResumeSignal, RowsExist, VerdictInv
    <3>2. result.status # "none" /\ resumes = 0 /\ resumes' = 1
      BY <1>3, <2>1, <3>1 DEF HandleResumeSignal, VerdictInv, ResultCountsTheSlots
    <3>3. slot' = slot /\ result'.status = result.status
      BY <1>3 DEF HandleResumeSignal
    <3>4. Contract!Resume
      BY <3>2, <3>3 DEF Contract!Resume
    <3> QED BY <3>4 DEF Contract!Next
  <2>2. CASE ~RowsExist
    BY <1>3, <2>2 DEF HandleResumeSignal, abstract
  <2> QED BY <2>1, <2>2
<1> QED BY <1>1, <1>2, <1>3, NextRows

\* The join implements its contract: each slot answered once, by its first
\* answer or the timeout; one verdict, the policy's; at most one resume, after it.
THEOREM JoinImplementsContract == Spec => ImplementsContract
<1>1. Init => Contract!Init
  BY DEF Init, Contract!Init, Contract!Unmarked, NoResult
<1>2. TypeOK /\ VerdictInv /\ [Next]_vars => [Contract!Next]_abstract
  BY StepRefines
<1> QED BY <1>1, <1>2, VerdictInvariant, PTL DEF Spec, Contract!Spec, ImplementsContract, abstract

-----------------------------------------------------------------------------
(* The signal a completed join owes its run *)

\* Until its run's PAUSED upload is drained, the drain itself is the signal.
SignalInv ==
  wp = "COMPLETED" /\ crashes = 0 => signals.owed + signals.paused > 0 \/ run # "checked"

\* A signal is spent only on the resume, or left to a drain still to come.
LEMMA SignalStep == TypeOK /\ SignalInv /\ [Next]_vars => SignalInv'
<1> SUFFICES ASSUME TypeOK, SignalInv, [Next]_vars PROVE SignalInv'
  OBVIOUS
<1>0. /\ signals \in [owed : Nat, paused : Nat] /\ crashes \in Nat
      /\ run \in {"running", "uploaded", "stored", "checked"}
  BY JoinAssumption DEF TypeOK
<1>1. crashes' = 0 => crashes = 0
  <2>1. crashes' \in {crashes, crashes + 1}
    BY DEF Next, ParentStep, DispatchStep, ChildStep, ResumeStep, Faults,
         CreateForPause, ArmTimer, CreateAgain, Dispatch, DispatchFails,
         AnswerForFailedDispatch, Pause, VerifyParent, ClaimSlot, Persist, PersistFails,
         Respond, Finish, FillSlotForFinishedChild, Expire, StorePaused,
         ResumePreCompleted, ReadRunStatus, HandleResumeSignal, Replay,
         CrashBeforeArming, CrashBeforeResume, bounds, vars
  <2> QED BY <1>0, <2>1
<1>2. CASE ResumePreCompleted
  BY <1>0, <1>2 DEF ResumePreCompleted, SignalInv
<1>3. CASE ReadRunStatus
  BY <1>0, <1>1, <1>3 DEF ReadRunStatus, SignalInv, StoredPaused, resuming
<1>4. CASE HandleResumeSignal
  BY <1>1, <1>4 DEF HandleResumeSignal, SignalInv, RowsExist
<1>5. CASE CrashBeforeResume
  BY <1>0, <1>5 DEF CrashBeforeResume, SignalInv
<1>6. CASE CreateForPause
  BY <1>6 DEF CreateForPause, SignalInv
<1>7. ASSUME RowsStep, UNCHANGED resumes, ~ResumePreCompleted, ~CrashBeforeResume
      PROVE  SignalInv'
  <2>1. run' = "checked" => run = "checked"
    BY <1>7 DEF Next, ParentStep, DispatchStep, ChildStep, ResumeStep, Faults,
         CreateForPause, ArmTimer, CreateAgain, Dispatch, DispatchFails,
         AnswerForFailedDispatch, Pause, VerifyParent, ClaimSlot, Persist, PersistFails,
         Respond, Finish, FillSlotForFinishedChild, Expire, StorePaused,
         ReadRunStatus, HandleResumeSignal, Replay, CrashBeforeArming, resuming, vars
  <2>2. CASE UNCHANGED <<wp, slot, result, signals>>
    BY <1>1, <2>1, <2>2 DEF SignalInv
  <2>3. ASSUME NEW a, Settle(a), wp = "PENDING" PROVE SignalInv'
    <3>1. \/ wp' = "PENDING"
          \/ signals'.owed = signals.owed + 1 /\ signals'.paused = signals.paused
      BY <1>0, <2>3 DEF Settle, Complete
    <3> QED BY <1>0, <3>1 DEF SignalInv
  <2> QED BY <1>7, <2>2, <2>3 DEF RowsStep
<1> QED BY <1>2, <1>3, <1>4, <1>5, <1>6, <1>7, NextRows

\* A completed join of a run that is PAUSED and drained has a signal on its way,
\* unless a process died: signal and drain never each leave it to the other.
THEOREM SignalNotLost == Spec => []CompletedJoinHasASignal
<1>1. Init => SignalInv
  BY DEF Init, SignalInv
<1>2. TypeOK /\ SignalInv /\ [Next]_vars => SignalInv'
  BY SignalStep
<1>3. SignalInv => CompletedJoinHasASignal
  BY DEF SignalInv, CompletedJoinHasASignal
<1> QED BY <1>1, <1>2, <1>3, TypeCorrect, PTL DEF Spec

-----------------------------------------------------------------------------
(* Slots and children *)

\* The slot of an attached child names that child.
ClaimInv == \A c \in Children : Owns(c) => claim[child[c].slot] = c

\* A claim is taken when free and given back only by its own child.
LEMMA ClaimStep == TypeOK /\ ClaimInv /\ [Next]_vars => ClaimInv'
<1> SUFFICES ASSUME TypeOK, ClaimInv, [Next]_vars PROVE ClaimInv'
  OBVIOUS
<1>0. /\ child \in [Children -> [phase : Phases, slot : Slots \cup {NoSlot},
                                 attached : BOOLEAN]]
      /\ claim \in [Slots -> Children \cup {NoChild}]
      /\ \A c \in Children : child[c].slot = NoSlot => child[c].phase = "unused"
      /\ NoChild \notin Children
  BY JoinAssumption DEF TypeOK, Unused
<1>1. ASSUME UNCHANGED claim,
             \A d \in Children : Owns(d)' => Owns(d) /\ child'[d].slot = child[d].slot
      PROVE  ClaimInv'
  BY <1>1 DEF ClaimInv
<1>2. ASSUME NEW c \in Children, ClaimSlot(c) PROVE ClaimInv'
  <2> DEFINE s == child[c].slot
  <2>1. s \in Slots
    BY <1>0, <1>2 DEF ClaimSlot
  <2>2. CASE child[c].attached /\ Claimable(s)
    <3>1. claim' = [claim EXCEPT ![s] = c] /\ claim[s] = NoChild
      BY <1>2, <2>2 DEF ClaimSlot, Claimable
    <3>2. child' = [child EXCEPT ![c].phase = "claimed", ![c].attached = TRUE]
      BY <1>2, <2>2 DEF ClaimSlot
    <3>3. ASSUME NEW d \in Children, Owns(d)' PROVE claim'[child'[d].slot] = d
      <4>1. CASE d = c
        BY <1>0, <2>1, <3>1, <3>2, <4>1
      <4>2. CASE d # c
        <5>1. Owns(d) /\ child'[d] = child[d]
          BY <1>0, <3>2, <3>3, <4>2 DEF Owns
        <5>2. claim[child[d].slot] = d /\ child[d].slot # s
          BY <1>0, <3>1, <5>1 DEF ClaimInv
        <5> QED BY <1>0, <3>1, <5>1, <5>2
      <4> QED BY <4>1, <4>2
    <3> QED BY <3>3 DEF ClaimInv
  <2>3. CASE ~(child[c].attached /\ Claimable(s))
    <3>1. claim' = claim
          /\ child' = [child EXCEPT ![c].phase = "claimed", ![c].attached = FALSE]
      BY <1>2, <2>3 DEF ClaimSlot
    <3> QED BY <1>0, <1>1, <3>1 DEF Owns
  <2> QED BY <2>2, <2>3
<1>3. ASSUME NEW c \in Children, PersistFails(c) PROVE ClaimInv'
  <2> DEFINE s == child[c].slot
             lost == [child EXCEPT ![c].phase = "lost"]
  <2>1. ASSUME NEW d \in Children, Owns(d)'
        PROVE  d # c /\ Owns(d) /\ child'[d].slot = child[d].slot
    <3>1. \/ child' = lost
          \/ \E e \in Children : Unused(e) /\ child' = Carry(lost, e, s)
      BY <1>3 DEF PersistFails
    <3> QED BY <1>0, <1>3, <2>1, <3>1 DEF Owns, Carry, Unused, PersistFails
  <2>2. \/ claim' = claim
        \/ claim[s] = c /\ claim' = [claim EXCEPT ![s] = NoChild]
    BY <1>3 DEF PersistFails, Releasable
  <2>3. ASSUME NEW d \in Children, Owns(d)' PROVE claim'[child'[d].slot] = d
    <3>1. claim[child[d].slot] = d /\ d # c /\ child'[d].slot = child[d].slot
      BY <2>1, <2>3 DEF ClaimInv
    <3>2. child[d].slot \in Slots
      BY <1>0, <2>1, <2>3 DEF Owns
    <3> QED BY <1>0, <2>2, <3>1, <3>2
  <2> QED BY <2>3 DEF ClaimInv
<1>4. ASSUME NEW c \in Children,
             \/ VerifyParent(c) \/ Persist(c)
             \/ \E o \in {"succeeded", "failed"} : Finish(c, o)
      PROVE  ClaimInv'
  <2>1. UNCHANGED claim
    BY <1>4 DEF VerifyParent, Persist, Finish, rows
  <2>2. ASSUME NEW d \in Children, Owns(d)'
        PROVE  Owns(d) /\ child'[d].slot = child[d].slot
    <3>1. CASE VerifyParent(c)
      BY <1>0, <2>2, <3>1 DEF VerifyParent, Owns
    <3>2. CASE Persist(c)
      BY <1>0, <2>2, <3>2 DEF Persist, Move, Owns
    <3>3. CASE \E o \in {"succeeded", "failed"} : Finish(c, o)
      BY <1>0, <2>2, <3>3 DEF Finish, Move, Owns
    <3> QED BY <1>4, <3>1, <3>2, <3>3
  <2> QED BY <1>1, <2>1, <2>2
<1>5. ASSUME NEW c \in Children, NEW x \in Answers, Respond(c, x) PROVE ClaimInv'
  <2>1. child[c].slot \in Slots /\ FillSlot(child[c].slot, x, NoChild, FALSE)
    BY <1>0, <1>5 DEF Respond
  <2>2. FALSE \in BOOLEAN /\ NoChild \in Children \cup {NoChild}
    OBVIOUS
  <2>3. claim' = claim
    BY <2>1, <2>2, FillSettles
  <2> QED BY <1>1, <1>5, <2>3 DEF Respond, Owns
<1>6. ASSUME NEW c \in Children, FillSlotForFinishedChild(c) PROVE ClaimInv'
  <2> DEFINE x == IF child[c].phase = "succeeded" THEN "SUCCEEDED" ELSE "FAILED"
  <2>1. child[c].slot \in Slots /\ x \in Answers /\ TRUE \in BOOLEAN
    BY <1>0, <1>6 DEF FillSlotForFinishedChild
  <2>2. OwesAnswer(c) => FillSlot(child[c].slot, x, c, TRUE)
    BY <1>6 DEF FillSlotForFinishedChild
  <2>3. claim' = claim
    BY <1>6, <2>1, <2>2, FillSettles DEF FillSlotForFinishedChild, rows
  <2>4. child' = [child EXCEPT ![c].phase = "reported"]
    BY <1>6 DEF FillSlotForFinishedChild
  <2> QED BY <1>0, <1>1, <2>3, <2>4 DEF Owns
<1>7. ASSUME NEW s \in Slots,
             (\E c \in Children : Dispatch(s, c)) \/ DispatchFails(s)
      PROVE  ClaimInv'
  <2>1. /\ claim' = claim
        /\ \/ child' = child
           \/ \E c \in Children : Unused(c) /\ child' = Carry(child, c, s)
    BY <1>7 DEF Dispatch, DispatchFails, rows
  <2> QED BY <1>0, <1>1, <2>1 DEF Owns, Carry, Unused
<1>8. ASSUME NEW s \in Slots, AnswerForFailedDispatch(s) PROVE ClaimInv'
  <2>1. FALSE \in BOOLEAN /\ NoChild \in Children \cup {NoChild} /\ "FAILED" \in Answers
    OBVIOUS
  <2>2. claim' = claim
    BY <1>8, <2>1, FillSettles DEF AnswerForFailedDispatch, rows
  <2> QED BY <1>1, <1>8, <2>2 DEF AnswerForFailedDispatch, Owns
<1>9. ASSUME UNCHANGED <<child, claim>> PROVE ClaimInv'
  BY <1>1, <1>9 DEF Owns
<1> QED BY <1>2, <1>3, <1>4, <1>5, <1>6, <1>7, <1>8, <1>9
        DEF Next, ParentStep, DispatchStep, ChildStep, ResumeStep, Faults,
            CreateForPause, ArmTimer, CreateAgain, Pause, Expire, StorePaused,
            ResumePreCompleted, ReadRunStatus, HandleResumeSignal, Replay,
            CrashBeforeArming, CrashBeforeResume, rows, vars

\* A slot belongs to one child at a time (claimJoinSlot), through replays of the
\* step, retried sends and releases of a claim.
THEOREM SlotHasOneChild == Spec => []OneChildPerSlot
<1>1. Init => ClaimInv
  BY DEF Init, ClaimInv, Owns
<1>2. TypeOK /\ ClaimInv /\ [Next]_vars => ClaimInv'
  BY ClaimStep
<1>3. ClaimInv => OneChildPerSlot
  BY DEF ClaimInv, OneChildPerSlot
<1> QED BY <1>1, <1>2, <1>3, TypeCorrect, PTL DEF Spec

-----------------------------------------------------------------------------
(* Answers of children that ended *)

\* Before the join is created its step has dispatched nothing.
Fresh == wp = "absent" => step.pc = "creating" /\ \A c \in Children : Unused(c)

\* A join is created once, before the first dispatch.
LEMMA FreshStep == TypeOK /\ Fresh /\ [Next]_vars => Fresh'
<1> SUFFICES ASSUME TypeOK, Fresh, [Next]_vars, wp' = "absent" PROVE Fresh'
  BY DEF Fresh
<1>1. wp = "absent"
  <2>1. CASE RowsStep
    BY <2>1 DEF RowsStep, Settle, Complete
  <2>2. CASE CreateForPause \/ ResumePreCompleted \/ ReadRunStatus \/ CrashBeforeResume
    BY <2>2 DEF CreateForPause, ResumePreCompleted, ReadRunStatus, CrashBeforeResume
  <2>3. CASE HandleResumeSignal
    BY <2>3 DEF HandleResumeSignal
  <2> QED BY <2>1, <2>2, <2>3, NextRows
<1>2. step.pc = "creating" /\ \A c \in Children : Unused(c)
  BY <1>1 DEF Fresh
<1>3. UNCHANGED <<step, child>>
  BY <1>1, <1>2
     DEF Next, ParentStep, DispatchStep, ChildStep, ResumeStep, Faults,
         CreateForPause, ArmTimer, CreateAgain, Dispatch, DispatchFails,
         AnswerForFailedDispatch, Pause, VerifyParent, ClaimSlot, Persist, PersistFails,
         Respond, Finish, FillSlotForFinishedChild, Expire, StorePaused,
         ResumePreCompleted, ReadRunStatus, HandleResumeSignal, Replay,
         CrashBeforeArming, CrashBeforeResume, Move, Unused, RowsExist, vars
<1> QED BY <1>2, <1>3 DEF Fresh, Unused

\* While a join is PENDING its answered slots stay answered.
LEMMA AnswersStay ==
  ASSUME TypeOK, [Next]_vars, wp' = "PENDING", ~CreateForPause
  PROVE  wp = "PENDING" /\ \A s \in Slots : slot'[s] = "PENDING" => slot[s] = "PENDING"
<1>1. slot \in [Slots -> SlotStatus]
  BY DEF TypeOK
<1>2. CASE RowsStep
  <2>1. ASSUME NEW s \in Slots, NEW x \in Answers, wp = "PENDING",
               Settle([slot EXCEPT ![s] = x])
        PROVE  \A r \in Slots : slot'[r] = "PENDING" => slot[r] = "PENDING"
    BY <1>1, <2>1 DEF Settle
  <2>2. ASSUME Settle(TimedOut(slot)), Outcome(TimedOut(slot)) # "none"
        PROVE  FALSE
    BY <2>2 DEF Settle, Complete
  <2> QED BY <1>2, <2>1, <2>2 DEF RowsStep
<1>3. CASE ResumePreCompleted \/ ReadRunStatus \/ CrashBeforeResume
  BY <1>3 DEF ResumePreCompleted, ReadRunStatus, CrashBeforeResume
<1>4. CASE HandleResumeSignal
  BY <1>4 DEF HandleResumeSignal
<1> QED BY <1>2, <1>3, <1>4, NextRows

\* A child is reported, and attached, once: it keeps its slot from then on.
LEMMA ReportedBefore ==
  ASSUME TypeOK, [Next]_vars, NEW c \in Children,
         child'[c].phase = "reported", ~FillSlotForFinishedChild(c)
  PROVE  child'[c] = child[c]
<1>0. child \in [Children -> [phase : Phases, slot : Slots \cup {NoSlot},
                              attached : BOOLEAN]]
  BY DEF TypeOK
<1>1. ASSUME NEW d \in Children, ChildStep(d) PROVE child'[c] = child[c]
  <2>1. CASE VerifyParent(d)
    BY <1>0, <2>1 DEF VerifyParent
  <2>2. CASE ClaimSlot(d)
    BY <1>0, <2>2 DEF ClaimSlot
  <2>3. CASE Persist(d) \/ \E o \in {"succeeded", "failed"} : Finish(d, o)
    BY <1>0, <2>3 DEF Persist, Finish, Move
  <2>4. CASE PersistFails(d)
    BY <1>0, <2>4 DEF PersistFails, Carry
  <2>5. CASE \E a \in Answers : Respond(d, a)
    BY <2>5 DEF Respond
  <2>6. CASE FillSlotForFinishedChild(d)
    BY <1>0, <2>6 DEF FillSlotForFinishedChild
  <2> QED BY <1>1, <2>1, <2>2, <2>3, <2>4, <2>5, <2>6 DEF ChildStep
<1>2. ASSUME NEW s \in Slots,
             \/ \E d \in Children : Dispatch(s, d)
             \/ DispatchFails(s) \/ AnswerForFailedDispatch(s)
      PROVE  child'[c] = child[c]
  <2>1. \/ child' = child
        \/ \E d \in Children : Unused(d) /\ child' = Carry(child, d, s)
    BY <1>2 DEF Dispatch, DispatchFails, AnswerForFailedDispatch
  <2> QED BY <1>0, <2>1 DEF Carry
<1>3. CASE \/ CreateForPause \/ ArmTimer \/ CreateAgain \/ Pause \/ Expire
           \/ ResumeStep \/ Faults \/ UNCHANGED vars
  BY <1>3 DEF CreateForPause, ArmTimer, CreateAgain, Pause, Expire, ResumeStep, Faults,
       StorePaused, ResumePreCompleted, ReadRunStatus, HandleResumeSignal, Replay,
       CrashBeforeArming, CrashBeforeResume, vars
<1> QED BY <1>1, <1>2, <1>3 DEF Next, ParentStep, DispatchStep

\* The claim that fillSlot insists on is there, as ClaimInv says.
LEMMA AnswersStep ==
  TypeOK /\ ClaimInv /\ Fresh /\ AttachedChildAnswers /\ [Next]_vars
    => AttachedChildAnswers'
<1> SUFFICES ASSUME TypeOK, ClaimInv, Fresh, AttachedChildAnswers, [Next]_vars,
                    NEW c \in Children,
                    child'[c].phase = "reported", child'[c].attached, wp' = "PENDING"
             PROVE  slot'[child'[c].slot] # "PENDING"
  BY DEF AttachedChildAnswers
<1>1. /\ child[c] \in [phase : Phases, slot : Slots \cup {NoSlot}, attached : BOOLEAN]
      /\ child[c].slot = NoSlot <=> child[c].phase = "unused"
  BY DEF TypeOK, Unused
<1>2. CASE CreateForPause
  <2>1. child[c].phase = "unused" /\ child' = child
    BY <1>2 DEF CreateForPause, Fresh, Unused
  <2> QED BY <2>1
<1>3. CASE FillSlotForFinishedChild(c)
  <2> DEFINE x == IF child[c].phase = "succeeded" THEN "SUCCEEDED" ELSE "FAILED"
  <2>1. /\ child[c].phase \in {"succeeded", "failed"}
        /\ child' = [child EXCEPT ![c].phase = "reported"]
    BY <1>3 DEF FillSlotForFinishedChild
  <2>2. child[c].attached /\ child'[c].slot = child[c].slot /\ child[c].slot \in Slots
    BY <1>1, <2>1 DEF TypeOK
  <2>3. claim[child[c].slot] = c
    BY <2>1, <2>2 DEF ClaimInv, Owns
  <2>4. FillSlot(child[c].slot, x, c, TRUE)
    BY <1>3, <2>2 DEF FillSlotForFinishedChild, OwesAnswer
  <2>5. ~CreateForPause
    BY <2>1, <2>2, <1>1 DEF CreateForPause, Fresh, Unused
  <2>6. wp = "PENDING" /\ \A s \in Slots : slot'[s] = "PENDING" => slot[s] = "PENDING"
    BY <2>5, AnswersStay
  <2>7. CASE slot[child[c].slot] = "PENDING"
    <3>1. x \in Answers /\ TRUE \in BOOLEAN /\ slot \in [Slots -> SlotStatus]
      BY DEF TypeOK
    <3>2. CompleteIfDecided([slot EXCEPT ![child[c].slot] = x], FALSE)
      BY <2>3, <2>4, <2>6, <2>7 DEF FillSlot, PendingJoin, Fillable
    <3>3. Settle([slot EXCEPT ![child[c].slot] = x])
      BY <3>1, <3>2, CompleteSettles
    <3> QED BY <2>2, <3>1, <3>3 DEF Settle
  <2> QED BY <2>2, <2>6, <2>7
<1>4. CASE ~CreateForPause /\ ~FillSlotForFinishedChild(c)
  <2>1. child'[c] = child[c]
    BY <1>4, ReportedBefore
  <2>2. wp = "PENDING" /\ child[c].slot \in Slots
    BY <1>1, <1>4, <2>1, AnswersStay
  <2> QED BY <1>4, <2>1, <2>2, AnswersStay DEF AttachedChildAnswers
<1> QED BY <1>2, <1>3, <1>4

\* An attached child has answered its slot by the time its end is reported, or the
\* join is over: no slot waits for a child that is gone (fillSlotForFinishedChild).
THEOREM ReportedChildHasAnswered == Spec => []AttachedChildAnswers
<1>1. Init => ClaimInv /\ Fresh /\ AttachedChildAnswers
  BY DEF Init, ClaimInv, Owns, Fresh, Unused, AttachedChildAnswers
<1>2. TypeOK /\ (ClaimInv /\ Fresh /\ AttachedChildAnswers) /\ [Next]_vars
        => (ClaimInv /\ Fresh /\ AttachedChildAnswers)'
  BY ClaimStep, FreshStep, AnswersStep
<1> QED BY <1>1, <1>2, TypeCorrect, PTL DEF Spec
=============================================================================
