-------------------------- MODULE MCFaultExperiments --------------------------
EXTENDS FaultExperiments, TLC

(* Runs are interchangeable as long as all apply a load or none does. *)
Symmetry == Permutations(Runs)
===============================================================================
