----------------------------- MODULE MCQueryRun -----------------------------
\* QueryRun on small instances: pages may be swapped for one another.
EXTENDS QueryRun, TLC

Symmetric == Permutations(Pages)
=============================================================================
