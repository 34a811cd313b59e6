----------------------------- MODULE MCWorkspace -----------------------------
\* Two tabs, in one browser or in two, one finding and two pushes in flight.
EXTENDS Workspace, TLC

Symmetric == Permutations(Requests) \cup Permutations(Tabs) \cup Permutations(Browsers)
=============================================================================
