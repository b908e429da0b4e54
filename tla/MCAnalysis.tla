------------------------------ MODULE MCAnalysis ------------------------------
\* One application and three requests: two generations or uploads at once,
\* while a third request reads, removes, or waits to be answered.
EXTENDS Analysis, TLC

CONSTANTS a1, r1, r2, r3

MCJobs == {a1}
MCRequests == {r1, r2, r3}

Symmetry == Permutations(MCRequests)
=============================================================================
