---------------------------- MODULE MCEnterprise ----------------------------
\* Small instances of the install manager for TLC.
EXTENDS Enterprise, TLC

CONSTANTS appfw, cmp, c1, c2

\* The two HTTP calls are interchangeable.
CallerSymmetry == Permutations(Callers)

\* Once calls have overlapped only the types are still promised: that world is
\* searched without faults.
Bound == overlap => lost + restarts = 0
=============================================================================
