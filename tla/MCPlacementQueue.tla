------------------------- MODULE MCPlacementQueue --------------------------
(* Instances of PlacementQueue for TLC.                                    *)
EXTENDS PlacementQueue, TLC

\* Executions are interchangeable.
Symmetry == Permutations(Slots)
=============================================================================
