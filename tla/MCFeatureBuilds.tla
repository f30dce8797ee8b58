---------------------------- MODULE MCFeatureBuilds ---------------------------
EXTENDS FeatureBuilds, TLC

(* Builders started by hand are interchangeable. *)
Symmetry == Permutations(Manual)
===============================================================================
