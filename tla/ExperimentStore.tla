---------------------------- MODULE ExperimentStore ---------------------------
(***************************************************************************)
(* telemetry.fault_experiments and the statements that write it: the       *)
(* INSERT behind POST /v1/fault-experiments, the UPDATE behind PATCH       *)
(* (dashboard/database.py) and the sweep the feature CronJob starts with   *)
(* (dashboard/features.py).  Each is one transaction.                      *)
(*                                                                         *)
(* A row is keyed by the run that created it, and is created once, by the  *)
(* INSERT.  It ends in one of three terminal statuses: by a PATCH of its   *)
(* runner, or by a sweep after its expires_at.                             *)
(***************************************************************************)
EXTENDS Integers

CONSTANTS
  Runs,      \* experiment ids, one per execution of the runner
  MaxTime    \* bound on the clock

ASSUME StoreAssumption == MaxTime \in Nat \ {0}

VARIABLES
  now,        \* the clock; the hosts involved share it
  status,     \* column status; "none": there is no such row
  stamp,      \* the five timestamp columns
  expiresAt   \* column expires_at

storeVars == <<status, stamp, expiresAt>>

Null == 0    \* SQL NULL; the clock starts at 1
Time == 1..MaxTime

Active   == {"baseline", "active", "recovering"}
Terminal == {"completed", "recovery_failed", "failed"}
Status   == {"none"} \cup Active \cup Terminal

Column == {"baseline_started_at", "active_started_at", "active_ended_at",
           "recovery_completed_at", "failed_at"}

InitStore ==
  /\ now = 1
  /\ status = [r \in Runs |-> "none"]
  /\ stamp = [r \in Runs |-> [c \in Column |-> Null]]
  /\ expiresAt = [r \in Runs |-> Null]

-------------------------------------------------------------------------------
(* Mutant: the last value wins. *)
Overwrite(old, new) == new

Coalesce(old, new) == IF old = Null THEN new ELSE old

(* Mutant: a recovering experiment never expires. *)
ExpiredBeforeRecovery(r) == status[r] \in {"baseline", "active"} /\ expiresAt[r] < now

Expired(r) == status[r] \in Active /\ expiresAt[r] < now

(* UPDATE ... SET status = 'failed' WHERE the row is active and expired: the *)
(* first statement of both create_fault_experiment() and                     *)
(* build_pending_features().  A row that is not failed has no failed_at, so  *)
(* whether that column is coalesced makes no difference.                     *)
SweptStatus == [r \in Runs |-> IF Expired(r) THEN "failed" ELSE status[r]]

SweptStamp ==
  [r \in Runs |->
     IF Expired(r) THEN [stamp[r] EXCEPT !["failed_at"] = now] ELSE stamp[r]]

Sweep ==
  /\ \E r \in Runs : Expired(r)
  /\ status' = SweptStatus
  /\ stamp' = SweptStamp
  /\ UNCHANGED <<now, expiresAt>>

(* Mutant: the index covers the first status only. *)
MayCreateUnlessBaseline == \A r \in Runs : SweptStatus[r] # "baseline"

(* The unique index on the active statuses rejects a second active row.  The *)
(* sweep is part of the same transaction, so it is undone with the INSERT.   *)
MayCreate == \A r \in Runs : SweptStatus[r] \notin Active

Create(r, baseline, expires) ==
  /\ MayCreate
  /\ status' = [SweptStatus EXCEPT ![r] = "baseline"]
  /\ stamp' = [SweptStamp EXCEPT ![r]["baseline_started_at"] = baseline]
  /\ expiresAt' = [expiresAt EXCEPT ![r] = expires]

(* update_fault_experiment(): the statuses a PATCH may follow, and the column *)
(* it stamps unless a PATCH of the same status has stamped it before.         *)
AllowedPrevious(new) ==
  CASE new = "active"                           -> {"baseline"}
    [] new = "recovering"                       -> {"active"}
    [] new \in {"completed", "recovery_failed"} -> {"recovering"}
    [] new = "failed"                           -> Active

(* Mutant: the end of the active phase is stamped in the wrong column. *)
TimestampColumnSwapped(new) ==
  CASE new \in {"active", "recovering"}         -> "active_started_at"
    [] new \in {"completed", "recovery_failed"} -> "recovery_completed_at"
    [] new = "failed"                           -> "failed_at"

TimestampColumn(new) ==
  CASE new = "active"                           -> "active_started_at"
    [] new = "recovering"                       -> "active_ended_at"
    [] new \in {"completed", "recovery_failed"} -> "recovery_completed_at"
    [] new = "failed"                           -> "failed_at"

MayUpdate(r, new) == status[r] = new \/ status[r] \in AllowedPrevious(new)

Update(r, new, at) ==
  /\ MayUpdate(r, new)
  /\ status' = [status EXCEPT ![r] = new]
  /\ stamp' = [stamp EXCEPT ![r][TimestampColumn(new)] = Coalesce(@, at)]
  /\ UNCHANGED expiresAt

(* Every variable has its type. *)
StoreTypeOK ==
  /\ now \in Time
  /\ status \in [Runs -> Status]
  /\ stamp \in [Runs -> [Column -> Nat]]
  /\ expiresAt \in [Runs -> Nat]
===============================================================================
