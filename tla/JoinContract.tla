---------------------------- MODULE JoinContract ----------------------------
(***************************************************************************)
(* What a join promises the run that waits on it, with no rows, claims,    *)
(* children or signals: each slot is answered once, the first answers that *)
(* settle the failure policy fix the verdict and freeze the answers, and   *)
(* the run is resumed at most once, after that.                            *)
(***************************************************************************)
EXTENDS Integers

CONSTANTS
  Slots, Policy,
  Quorums       \* the sets of slots whose successes satisfy a QUORUM join

VARIABLES answers, verdict, resumed

Unmarked == "PENDING"
Bad == {"FAILED", "TIMED_OUT"}

\* Each failure policy, over the slots rather than over counts.
Met(a) ==
  \/ Policy = "ALL_SETTLED" /\ \A s \in Slots : a[s] # Unmarked
  \/ Policy = "FAIL_FAST" /\ \A s \in Slots : a[s] = "SUCCEEDED"
  \/ Policy = "QUORUM" /\ {s \in Slots : a[s] = "SUCCEEDED"} \in Quorums

OutOfReach(a) ==
  \/ Policy = "FAIL_FAST" /\ \E s \in Slots : a[s] \in Bad
  \/ Policy = "QUORUM" /\ {s \in Slots : a[s] \notin Bad} \notin Quorums

Outcome(a) == IF Met(a) THEN "success" ELSE IF OutOfReach(a) THEN "error" ELSE "none"

Init ==
  /\ answers = [s \in Slots |-> Unmarked]
  /\ verdict = "none"
  /\ resumed = 0

Answer(s, a) ==
  /\ verdict = "none" /\ answers[s] = Unmarked
  /\ answers' = [answers EXCEPT ![s] = a]
  /\ verdict' = Outcome(answers')
  /\ UNCHANGED resumed

Expire ==
  /\ verdict = "none"
  /\ answers' = [s \in Slots |-> IF answers[s] = Unmarked THEN "TIMED_OUT"
                                 ELSE answers[s]]
  /\ verdict' = Outcome(answers')
  /\ verdict' # "none"
  /\ UNCHANGED resumed

Resume ==
  /\ verdict # "none" /\ resumed = 0
  /\ resumed' = 1
  /\ UNCHANGED <<answers, verdict>>

Next ==
  \/ \E s \in Slots, a \in {"SUCCEEDED", "FAILED"} : Answer(s, a)
  \/ Expire \/ Resume

Spec == Init /\ [][Next]_<<answers, verdict, resumed>>
=============================================================================
