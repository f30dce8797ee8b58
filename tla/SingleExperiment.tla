--------------------------- MODULE SingleExperiment ---------------------------
(***************************************************************************)
(* What experiments promise, without clock, runners, calls or expiry: one  *)
(* experiment is open at a time and goes through its phases in order, its  *)
(* outcome is final, and its fault lies within its active phase.           *)
(***************************************************************************)
CONSTANT Runs

VARIABLES
  status,  \* the phase of each experiment, or its outcome
  fault    \* of each experiment: "none", "on" or "off"

experimentVars == <<status, fault>>

Open == {"baseline", "active", "recovering"}

ExperimentInit ==
  /\ status = [r \in Runs |-> "none"]
  /\ fault = [r \in Runs |-> "none"]

(* An experiment opens when no fault is on.  One that was left open fails. *)
Admit(r) ==
  /\ status[r] = "none"
  /\ \A q \in Runs : fault[q] # "on"
  /\ status' = [q \in Runs |-> IF q = r THEN "baseline"
                               ELSE IF status[q] \in Open THEN "failed" ELSE status[q]]
  /\ UNCHANGED fault

Become(r, new) ==
  /\ fault[r] # "on"
  /\ status' = [status EXCEPT ![r] = new]
  /\ UNCHANGED fault

Advance(r) ==
  \/ status[r] = "baseline" /\ Become(r, "active")
  \/ status[r] = "active" /\ Become(r, "recovering")
  \/ status[r] = "recovering" /\ \E new \in {"completed", "recovery_failed"} : Become(r, new)

Cancel(r) == status[r] \in Open /\ Become(r, "failed")

FaultOn(r) ==
  /\ status[r] = "active" /\ fault[r] = "none"
  /\ fault' = [fault EXCEPT ![r] = "on"]
  /\ UNCHANGED status

(* The fault is given up before it is on. *)
FaultForgone(r) ==
  /\ status[r] = "active" /\ fault[r] = "none"
  /\ fault' = [fault EXCEPT ![r] = "off"]
  /\ UNCHANGED status

FaultOff(r) ==
  /\ fault[r] = "on"
  /\ fault' = [fault EXCEPT ![r] = "off"]
  /\ UNCHANGED status

ExperimentNext ==
  \E r \in Runs :
    \/ Admit(r) \/ Advance(r) \/ Cancel(r)
    \/ FaultOn(r) \/ FaultForgone(r) \/ FaultOff(r)

ExperimentSpec == ExperimentInit /\ [][ExperimentNext]_experimentVars
===============================================================================
