--------------------------- MODULE MCRunLifecycle ---------------------------
EXTENDS RunLifecycle, TLC

Symmetry == Permutations(Candidates)
=============================================================================
