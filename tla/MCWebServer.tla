---------------------------- MODULE MCWebServer ----------------------------
\* Two requests at a time, two audits, two sign-ins, one of which may die.
EXTENDS WebServer, TLC

Symmetric == Permutations(Requests) \cup Permutations(Runs) \cup Permutations(Trips)
=============================================================================
