------------------------------- MODULE RunRow -------------------------------
(* What the runs-metadata queue promises of a run's stored row: unless it is *)
(* deleted it only ever takes an update later than the one it holds, as long *)
(* as nobody worked on after the run's lock was lost.                        *)
EXTENDS Integers

CONSTANT MaxUploads

VARIABLES accepted, stored, deleted, lapsed

vars == <<accepted, stored, deleted, lapsed>>

\* A run in TESTING has its row when it starts; another has none before an update.
Init == accepted = 0 /\ stored \in {-1, 0} /\ deleted = FALSE /\ lapsed = FALSE

Accept ==
  /\ accepted < MaxUploads
  /\ accepted' = accepted + 1
  /\ UNCHANGED <<stored, deleted, lapsed>>

Store ==
  /\ ~deleted
  /\ \E v \in 1 .. accepted : (v > stored \/ lapsed) /\ stored' = v
  /\ UNCHANGED <<accepted, deleted, lapsed>>

Delete ==
  /\ deleted' = TRUE /\ stored' = -1
  /\ UNCHANGED <<accepted, lapsed>>

\* Two of the queue's jobs may be at the row from now on.
Lapse == lapsed' = TRUE /\ UNCHANGED <<accepted, stored, deleted>>

Next == Accept \/ Store \/ Delete \/ Lapse

Spec == Init /\ [][Next]_vars
=============================================================================
