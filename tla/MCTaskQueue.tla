---------------------------- MODULE MCTaskQueue ----------------------------
EXTENDS TaskQueue, TLC

\* Sessions and handlers are interchangeable: no property tells them apart.
Symmetry == Permutations(Sessions) \cup Permutations(Callers)
=============================================================================
