-------------------------- MODULE MCTelemetryDelivery -------------------------
EXTENDS TelemetryDelivery, TLC

UnitSizes == [s \in Snapshot |-> 1]

(* The first file alone is more than a batch may hold; two of the others are *)
(* a batch, and with three of them it is more than the spool may hold.        *)
LargeFirst == [s \in Snapshot |-> IF s = 1 THEN 3 ELSE 1]

(* Handlers are interchangeable; used by the runs without liveness. *)
Symmetry == Permutations(Handlers)
===============================================================================
