--------------------------- MODULE MCServiceReplicas ---------------------------
EXTENDS ServiceReplicas, TLC

CONSTANTS first, second

TwoRequests == { first, second }
Symmetry == Permutations(TwoRequests)
===============================================================================
