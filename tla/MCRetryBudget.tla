--------------------------- MODULE MCRetryBudget ---------------------------
EXTENDS RetryBudget, TLC

CONSTANTS t1, t2, t3

MCThreads == {t1, t2, t3}
ThreadSymmetry == Permutations(MCThreads)
============================================================================
