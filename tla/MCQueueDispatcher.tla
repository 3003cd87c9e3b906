------------------------- MODULE MCQueueDispatcher -------------------------
EXTENDS QueueDispatcher, TLC

\* Jobs, polls and loops are interchangeable.
Symmetry == Permutations(Jobs) \union Permutations(Polls) \union Permutations(Loops)
=============================================================================
