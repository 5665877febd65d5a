----------------------------- MODULE MCMigration -----------------------------
(* Two workers and two gateway processes.                                  *)
EXTENDS Migration, TLC

Symmetry == Permutations(Handlers)
==============================================================================
