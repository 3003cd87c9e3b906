---------------------------- MODULE MCSyncAnswers ----------------------------
(* SyncAnswers on a small instance, and the constraints that keep it small. *)
EXTENDS SyncAnswers, FiniteSets

CONSTANTS s1, s2, w1, w2

\* Rows and callers that do the same come on stage in order.
NamesInOrder ==
  /\ row[w1] = "absent" => row[w2] = "absent"
  /\ call[s1].pc = "idle" => call[s2].pc = "idle"

\* Resumes, pauses, timeouts and faults, which count twice, together.
FewEvents ==
  Cardinality({r \in Signals : call[r].pc # "idle"}) + 2 * Cardinality(mishaps)
    + Cardinality({c \in Callers : promise[c] = "default"})
    + Cardinality({w \in Waitpoints : row[w] # "absent"}) <= 4
=============================================================================
