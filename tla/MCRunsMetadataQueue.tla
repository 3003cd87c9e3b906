------------------------ MODULE MCRunsMetadataQueue ------------------------
(* An instance of RunsMetadataQueue for TLC.                               *)
EXTENDS RunsMetadataQueue

\* Two updates with up to two faults of any kinds, or three with one. An add that
\* would need a fourth job waits.
FourEvents ==
  /\ failures + losses + crashes + lapses <= 2
  /\ failures + losses + crashes + lapses + merged <= 4
=============================================================================
