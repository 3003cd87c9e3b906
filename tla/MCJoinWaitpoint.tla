-------------------------- MODULE MCJoinWaitpoint --------------------------
(* An instance of JoinWaitpoint for TLC.                                   *)
EXTENDS JoinWaitpoint, TLC

CONSTANTS c1, c2, s1, s2, s3

\* A replay or a lost process, not one after the other.
OneFault == replays + crashes <= 1

\* The first child and its slot have the first names, and so on: the symmetry of
\* the sets, taken out in a way that liveness survives.
NamesInOrder ==
  /\ ~Unused(c2) => ~Unused(c1)
  /\ child[c1].slot \in {NoSlot, s1}
  /\ child[c2].slot # s3
=============================================================================
