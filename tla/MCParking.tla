----------------------------- MODULE MCParking -----------------------------
(* Parking on small instances; two publishers may be exchanged where only    *)
(* safety is checked.                                                        *)
EXTENDS Parking, TLC

PublisherSymmetry == Permutations(Publishers)
=============================================================================
