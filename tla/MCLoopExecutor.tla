--------------------------- MODULE MCLoopExecutor ---------------------------
(* Instances of LoopExecutor for TLC. *)
EXTENDS LoopExecutor, TLC

Plain == [concurrency |-> 1, continues |-> FALSE, tolerates |-> FALSE,
          durable |-> FALSE, maxRetries |-> 0, spaced |-> FALSE, collects |-> FALSE,
          keep |-> "ALL", inline |-> FALSE]

LoopSettings ==
  { Plain,
    [Plain EXCEPT !.concurrency = 2, !.continues = TRUE, !.keep = "FAILED_ONLY",
                  !.maxRetries = 1, !.spaced = TRUE],
    [Plain EXCEPT !.continues = TRUE, !.tolerates = TRUE, !.durable = TRUE,
                  !.maxRetries = 1, !.keep = "NONE"],
    [Plain EXCEPT !.continues = TRUE, !.durable = TRUE, !.spaced = TRUE,
                  !.collects = TRUE, !.maxRetries = 1, !.keep = "FAILED_ONLY"],
    [Plain EXCEPT !.concurrency = 2, !.durable = TRUE, !.collects = TRUE,
                  !.maxRetries = 1, !.inline = TRUE] }
=============================================================================
