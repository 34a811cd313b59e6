-------------------------- MODULE MCContentLifecycle --------------------------
\* Small instances of ContentLifecycle for TLC.
EXTENDS ContentLifecycle, TLC

Symmetry == Permutations(Agents)
=============================================================================
