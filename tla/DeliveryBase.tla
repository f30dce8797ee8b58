----------------------------- MODULE DeliveryBase -----------------------------
(***************************************************************************)
(* What the two ends of the infrastructure-snapshot pipeline share: the    *)
(* snapshots, and the budget of faults that a behaviour may contain.       *)
(*                                                                         *)
(* A snapshot is named by the second it was collected in.  That is its     *)
(* spool file name (timestamp first, so files sort by age), the key it is  *)
(* stored under, and the time the server compares with its own clock.      *)
(***************************************************************************)
EXTENDS Integers, FiniteSets

CONSTANTS
  MaxTime,     \* bound on the clock, hence on the snapshots of a behaviour
  MaxFaults    \* bound on crashes, outages, time-outs and failed writes

ASSUME BoundAssumption == MaxTime \in Nat /\ MaxFaults \in Nat

VARIABLE faults    \* how much of the fault budget is spent

Snapshot == 1..MaxTime

Oldest(S) == {s \in S : \A t \in S : s <= t}

Latest(S) == {s \in S : \A t \in S : t <= s}

(* One fault happens: conjoined to every action that is somebody's fault. *)
Strike == faults < MaxFaults /\ faults' = faults + 1
===============================================================================
