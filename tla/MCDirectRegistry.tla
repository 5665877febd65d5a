-------------------------- MODULE MCDirectRegistry --------------------------
EXTENDS DirectRegistry, TLC

Symmetry == Permutations(Migrations)
=============================================================================
