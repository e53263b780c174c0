------------------------------ MODULE MCEvidence ------------------------------
(* Instances of Evidence: the candidates of one link. *)
EXTENDS Evidence
=============================================================================
