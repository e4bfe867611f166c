----------------------- MODULE MCAdaptiveConcurrency -----------------------
EXTENDS AdaptiveConcurrency, TLC

CONSTANTS t1, t2, t3

MCTasks == {t1, t2, t3}
Halve(n) == n \div 2      \* decrease_ratio = 0.5
============================================================================
