--------------------------- MODULE MCWorkerLease ---------------------------
(* WorkerLease on a small instance. The calls are interchangeable. *)
EXTENDS WorkerLease, TLC

CallSymmetry == Permutations(Calls)
=============================================================================
