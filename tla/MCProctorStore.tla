---------------------------- MODULE MCProctorStore ----------------------------
(* Instances of ProctorStore: requests in flight together are alike. *)
EXTENDS ProctorStore, TLC

Symmetry == Permutations(Requests)
=============================================================================
