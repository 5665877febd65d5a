------------------------------ MODULE MCFleet ------------------------------
(* Instances of Fleet for TLC.                                             *)
EXTENDS Fleet, TLC

\* Handlers are interchangeable.
Symmetry == Permutations(Handlers)
=============================================================================
