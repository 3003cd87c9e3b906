---------------------------- MODULE MCJobBroker ----------------------------
(* JobBroker on small instances, with the symmetry and the bound of broker_core. *)
EXTENDS JobBroker, TLC

\* The tokens are interchangeable, and so are the runs that differ in nothing.
RunsThatParse == Limited \ Malformed
Interchangeable == Permutations(Tokens) \union Permutations(RunsThatParse)

\* Of the jobs that have left the queue once: two runs with every fault but a lost
\* report, one job of any kind with any two faults, or two of any kinds.
Begun == {j \in Jobs : state[j] # "waiting" \/ attempts[j] > 0 \/ stalls[j] > 0}
FaultsSoFar == faults["lapse"] + faults["loss"] + faults["report"]
FewAtOnce ==
  \/ Begun \subseteq RunsThatParse /\ faults["report"] = 0
  \/ Cardinality(Begun) <= 1 /\ FaultsSoFar <= 2
  \/ Cardinality(Begun) <= 2 /\ FaultsSoFar = 0
=============================================================================
