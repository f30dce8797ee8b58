---------------------------------- MODULE Sums ----------------------------------
(***************************************************************************)
(* The loops of the agent that add something up.                           *)
(***************************************************************************)
EXTENDS Integers, FiniteSets, FiniteSetsExt

(* The sum of the values of f over a finite set. *)
Total(f, S) == MapThenSumSet(LAMBDA x : f[x], S)
===============================================================================
