---------------------------- MODULE MCStatusPage ----------------------------
EXTENDS StatusPage, TLC

Symmetry == Permutations(Components) \cup Permutations(Editors)
=============================================================================
