---------------------------- MODULE MCRunResume ----------------------------
(* Instances of RunResume for TLC.                                         *)
EXTENDS RunResume, TLC

CONSTANTS st1, st2, w1, w2, k1, k2

Symmetry == Permutations(Steps) \cup Permutations(Waitpoints) \cup Permutations(Calls)

\* One fault at a time: several of them are left to the proofs.
OneFault == abandons + stalls + crashes + aborts <= 1

\* The first step to pause, the first row and the first call have the first names:
\* the symmetry of the sets, taken out in a way that liveness survives.
NamesInOrder ==
  /\ stepOf[w1] # st2
  /\ row[w2] # "absent" => row[w1] # "absent"
  /\ call[k2].pc # "idle" => call[k1].pc # "idle"
=============================================================================
