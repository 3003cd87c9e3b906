---------------------------- MODULE MCRunControl ----------------------------
(* RunControl on a small instance, and the constraints that keep it small. *)
EXTENDS RunControl

CONSTANTS k1, k2, c1, s1

\* The two retries do the same: the first one starts first.
NamesInOrder == retry[k1].pc = "idle" => retry[k2].pc = "idle"

\* Beside the two retries: two of a cancel, a resume and a fault.
TwoOthers == faults = 0 \/ cancel[c1] = "idle" \/ resume[s1] = "idle"

\* Two faults are two workers lost, beside one retry.
FaultsApart ==
  faults = 2 =>
    ~abandoned /\ retry[k2].pc = "idle" /\ cancel[c1] = "idle" /\ resume[s1] = "idle"
=============================================================================
