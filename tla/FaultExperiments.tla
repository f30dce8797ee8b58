--------------------------- MODULE FaultExperiments ---------------------------
(***************************************************************************)
(* Fault experiments end to end: the runners (fault_injection/runner.py),  *)
(* the HTTP calls by which they record each phase, and the rows.           *)
(*                                                                         *)
(* A runner moves only when the call it made has succeeded, and gives a    *)
(* call up after ApiTimeout, when the server may still be working on it:   *)
(* a call that was given up can take effect at any later time.  The load   *)
(* it starts in a pod stops by its own deadline, whether or not the runner *)
(* and the kubectl that started it are still there.  Since kubectl is a    *)
(* process of its own, the load may also start after the runner was killed *)
(* or kubectl has failed.                                                  *)
(*                                                                         *)
(* Time is discrete.  A runner that is not suspended meets its deadlines:  *)
(* the clock does not pass the end of a sleep or of a time-out.            *)
(***************************************************************************)
EXTENDS ExperimentStore, FiniteSets

CONSTANTS
  Healthy,       \* the runs of the "healthy" scenario, which apply no load
  Baseline,      \* --baseline
  Duration,      \* --duration
  Recovery,      \* --recovery
  Slack,         \* what run_experiment() adds to the three for expires_at
  ApiTimeout,    \* time-out of an API call
  ExecMargin,    \* what saturate_cpu() adds to the duration for kubectl exec
  VerifyTimeout, \* time-out of the readiness checks that follow the recovery
  StartBy        \* bound on the time a runner starts at

ASSUME TimingAssumption ==
  /\ Healthy \subseteq Runs
  /\ Baseline \in Nat \ {0} /\ Duration \in Nat \ {0} /\ Recovery \in Nat \ {0}
  /\ Slack \in Nat /\ ApiTimeout \in Nat \ {0} /\ ExecMargin \in Nat
  /\ VerifyTimeout \in Nat /\ StartBy \in Nat
  \* 5 s to create, 5 s to record the start and 20 s to get the load running
  \* are within the 30 s of slack and the recovery period.
  /\ 2 * ApiTimeout + ExecMargin <= Recovery + Slack

VARIABLES
  pc,         \* what each runner is doing
  phase,      \* the local variable state of run_experiment()
  since,      \* when it began what it is doing
  startedAt,  \* baseline_started_at, read from the clock before the first call
  load,       \* of each run, see Load
  loadSince,  \* when the load was asked for, and then when it started
  calls       \* calls the server may still execute

runnerVars == <<pc, phase, since, startedAt>>
loadVars   == <<load, loadSince>>
vars       == <<now, storeVars, runnerVars, loadVars, calls>>

(* The steps in which a runner waits for the answer to a call. *)
Waiting == {"creating", "activating", "ending", "completing", "rejecting", "aborting"}
Step    == {"idle", "baseline", "fault", "recovery", "succeeded", "stopped"} \cup Waiting

(* The load is "starting" from the launch of kubectl on.  If kubectl fails,  *)
(* a load that has started is "detached", and one that has not "abandoned".  *)
Load == {"none", "starting", "abandoned", "running", "detached", "over"}

Call == [run : Runs, step : Waiting, new : Status \ {"none"}, at : Time]

Init ==
  /\ InitStore
  /\ pc = [r \in Runs |-> "idle"]
  /\ phase = [r \in Runs |-> "baseline"]
  /\ since = [r \in Runs |-> 1]
  /\ startedAt = [r \in Runs |-> Null]
  /\ load = [r \in Runs |-> "none"]
  /\ loadSince = [r \in Runs |-> Null]
  /\ calls = {}

Goto(r, step) ==
  /\ pc' = [pc EXCEPT ![r] = step]
  /\ since' = [since EXCEPT ![r] = now]

(* The runner makes a call and waits; others are the calls still pending. *)
Send(r, step, new, others) ==
  /\ Goto(r, step)
  /\ calls' = others \cup {[run |-> r, step |-> step, new |-> new, at |-> now]}

(* Mutant: a status the table does not know. *)
AbortStatusUnknown(r) == "aborted"

AbortStatus(r) == IF phase[r] = "recovering" THEN "recovery_failed" ELSE "failed"

(* The exception handler: one attempt to record the failure. *)
Abort(r, others) == Send(r, "aborting", AbortStatus(r), others)

-------------------------------------------------------------------------------
(* run_experiment(), from one call to the next. *)

Start(r) ==
  /\ pc[r] = "idle"
  /\ now <= StartBy
  /\ startedAt' = [startedAt EXCEPT ![r] = now]
  /\ Send(r, "creating", "baseline", calls)
  /\ UNCHANGED <<now, storeVars, phase, loadVars>>

(* The baseline has been slept through; traffic is healthy, or is not. *)
BaselineOver(r) ==
  /\ pc[r] = "baseline"
  /\ now >= since[r] + Baseline
  /\ \/ /\ phase' = [phase EXCEPT ![r] = "active"]
        /\ Send(r, "activating", "active", calls)
     \/ UNCHANGED phase /\ Abort(r, calls)
  /\ UNCHANGED <<now, storeVars, startedAt, loadVars>>

(* Mutant: the runner does not wait for kubectl exec to return. *)
FaultPhaseTimed(r) == now >= since[r] + Duration

FaultPhaseOver(r) ==
  IF r \in Healthy THEN now >= since[r] + Duration ELSE load[r] = "over"

(* kubectl exec returns, or the sleep of a healthy run ends. *)
FaultOver(r) ==
  /\ pc[r] = "fault"
  /\ FaultPhaseOver(r)
  /\ phase' = [phase EXCEPT ![r] = "recovering"]
  /\ Send(r, "ending", "recovering", calls)
  /\ UNCHANGED <<now, storeVars, startedAt, loadVars>>

(* kubectl exec fails or times out.  A load it has started goes on, and one  *)
(* it has asked for may yet start.                                           *)
FaultFails(r) ==
  /\ pc[r] = "fault" /\ r \notin Healthy
  /\ load' = [load EXCEPT ![r] = CASE @ = "starting" -> "abandoned"
                                    [] @ = "running"  -> "detached"
                                    [] OTHER          -> @]
  /\ UNCHANGED phase
  /\ Abort(r, calls)
  /\ UNCHANGED <<now, storeVars, startedAt, loadSince>>

(* The deployment is ready and traffic has recovered; or traffic has not; or *)
(* the deployment is not ready.                                              *)
RecoveryOver(r) ==
  /\ pc[r] = "recovery"
  /\ now >= since[r] + Recovery
  /\ UNCHANGED phase
  /\ \/ Send(r, "completing", "completed", calls)
     \/ Send(r, "rejecting", "recovery_failed", calls)
     \/ Abort(r, calls)
  /\ UNCHANGED <<now, storeVars, startedAt, loadVars>>

(* The runner is killed: nothing is recorded, and its kubectl goes on. *)
Kill(r) ==
  /\ pc[r] \notin {"idle", "succeeded", "stopped"}
  /\ Goto(r, "stopped")
  /\ UNCHANGED <<now, storeVars, phase, startedAt, loadVars, calls>>

(* What follows a call that was answered with success. *)
AfterSuccess(step) ==
  CASE step = "creating"   -> "baseline"
    [] step = "activating" -> "fault"
    [] step = "ending"     -> "recovery"
    [] step = "completing" -> "succeeded"
    [] step = "aborting"   -> "stopped"

(* Mutant: the failure of the last call is ignored. *)
CallFailsUnlessLast(r, others) ==
  IF pc[r] \in {"creating", "aborting", "completing"}
    THEN Goto(r, IF pc[r] = "completing" THEN "succeeded" ELSE "stopped") /\ calls' = others
    ELSE Abort(r, others)

(* What follows one that failed: only the first call is made outside the try *)
(* block, and the last inside the handler.                                   *)
CallFails(r, others) ==
  IF pc[r] \in {"creating", "aborting"}
    THEN Goto(r, "stopped") /\ calls' = others
    ELSE Abort(r, others)

(* The client gives up; the call itself may still be executed. *)
GiveUp(r) ==
  /\ pc[r] \in Waiting
  /\ CallFails(r, calls)
  /\ UNCHANGED <<now, storeVars, phase, startedAt, loadVars>>

-------------------------------------------------------------------------------
(* The load in the pod. *)

(* The runner has entered the fault phase and launches kubectl. *)
Launch(r) ==
  /\ load' = [load EXCEPT ![r] = "starting"]
  /\ loadSince' = [loadSince EXCEPT ![r] = now]

(* kubectl gets the program running within ExecMargin, or not at all. *)
LoadStarts(r) ==
  /\ load[r] \in {"starting", "abandoned"}
  /\ now <= loadSince[r] + ExecMargin
  /\ load' = [load EXCEPT ![r] = IF @ = "starting" THEN "running" ELSE "detached"]
  /\ loadSince' = [loadSince EXCEPT ![r] = now]
  /\ UNCHANGED <<now, storeVars, runnerVars, calls>>

LoadEnds(r) ==
  /\ load[r] \in {"running", "detached"}
  /\ now >= loadSince[r] + Duration
  /\ load' = [load EXCEPT ![r] = "over"]
  /\ UNCHANGED <<now, storeVars, runnerVars, loadSince, calls>>

-------------------------------------------------------------------------------
(* The server. *)

(* The runner that made call c is still waiting for it. *)
Awaited(c) == pc[c.run] = c.step /\ since[c.run] = c.at

(* Mutant: no slack for calls and kubectl. *)
ExpiryWithoutSlack(start) == start + Baseline + Duration + Recovery

Expiry(start) == start + Baseline + Duration + Recovery + Slack

Commit(c) ==
  IF c.new = "baseline"
    THEN Create(c.run, c.at, Expiry(c.at))
    ELSE Update(c.run, c.new, c.at)

(* The server executes a call; its runner goes on if it still waits.  The  *)
(* call that records a failed recovery is followed by an exception anyway. *)
Execute(c) ==
  /\ Commit(c)
  /\ IF ~Awaited(c) THEN calls' = calls \ {c} /\ UNCHANGED <<pc, since>>
     ELSE IF c.step = "rejecting" THEN Abort(c.run, calls \ {c})
     ELSE Goto(c.run, AfterSuccess(c.step)) /\ calls' = calls \ {c}
  /\ IF Awaited(c) /\ c.step = "activating" /\ c.run \notin Healthy
       THEN Launch(c.run)
       ELSE UNCHANGED loadVars
  /\ UNCHANGED <<now, phase, startedAt>>

(* A call comes to nothing: 409 from the statement, 503 from the server, or *)
(* it never arrives.                                                        *)
Fail(c) ==
  /\ IF Awaited(c)
       THEN CallFails(c.run, calls \ {c})
       ELSE calls' = calls \ {c} /\ UNCHANGED <<pc, since>>
  /\ UNCHANGED <<now, storeVars, phase, startedAt, loadVars>>

CronJob == Sweep /\ UNCHANGED <<runnerVars, loadVars, calls>>

-------------------------------------------------------------------------------
(* Time. *)

(* No runner lets the clock pass the end of what it is doing. *)
Deadline(r) ==
  CASE pc[r] \in Waiting                    -> since[r] + ApiTimeout
    [] pc[r] = "baseline"                   -> since[r] + Baseline
    [] pc[r] = "fault" /\ r \in Healthy     -> since[r] + Duration
    [] pc[r] = "fault" /\ r \notin Healthy  -> since[r] + Duration + ExecMargin
    [] pc[r] = "recovery"                   -> since[r] + Recovery + VerifyTimeout
    [] OTHER                                -> MaxTime

Tick ==
  /\ now < MaxTime
  /\ \A r \in Runs :
       /\ now < Deadline(r)
       /\ load[r] \in {"running", "detached"} => now < loadSince[r] + Duration
  /\ now' = now + 1
  /\ UNCHANGED <<storeVars, runnerVars, loadVars, calls>>

(* The model's clock stops here; before, somebody can always move. *)
Horizon == now = MaxTime /\ UNCHANGED vars

RunnerStep(r) ==
  Start(r) \/ BaselineOver(r) \/ FaultOver(r) \/ FaultFails(r) \/ RecoveryOver(r) \/ GiveUp(r)

Next ==
  \/ \E r \in Runs : RunnerStep(r) \/ Kill(r) \/ LoadStarts(r) \/ LoadEnds(r)
  \/ \E c \in calls : Execute(c) \/ Fail(c)
  \/ CronJob
  \/ Tick
  \/ Horizon

Spec == Init /\ [][Next]_vars

(* Time passes, the CronJob runs every minute, and runners that are not      *)
(* killed go on; a server may sit on a call for ever.                        *)
Fairness ==
  /\ WF_vars(Tick)
  /\ WF_vars(CronJob)
  /\ \A r \in Runs : WF_vars(RunnerStep(r)) /\ WF_vars(LoadEnds(r))

FairSpec == Spec /\ Fairness

-------------------------------------------------------------------------------
(* Every variable has its type. *)
TypeOK ==
  /\ StoreTypeOK
  /\ pc \in [Runs -> Step]
  /\ phase \in [Runs -> Active]
  /\ since \in [Runs -> Time]
  /\ startedAt \in [Runs -> Nat]
  /\ load \in [Runs -> Load]
  /\ loadSince \in [Runs -> Nat]
  /\ calls \subseteq Call

(* As long as kubectl exec has not failed, the load of a run stops before the *)
(* run's row can expire or change, even when the runner is killed: whoever    *)
(* looks at the rows while a container is saturated finds the row "active".   *)
LoadUnderActiveRow == \A r \in Runs : load[r] = "running" => status[r] = "active"

(* README.md: only one experiment may be active at a time.  So, with the same *)
(* proviso, two runs never saturate a container at the same time.             *)
OneLoadAtATime ==
  \A r, q \in Runs : load[r] = "running" /\ load[q] = "running" => r = q

(* The same without the proviso. *)
NoOverlappingLoads ==
  \A r, q \in Runs : {load[r], load[q]} \subseteq {"running", "detached"} => r = q

(* Seen from its runner, a load is over as soon as kubectl has failed. *)
Watched == [r \in Runs |-> CASE load[r] \in {"none", "starting"} -> "none"
                             [] load[r] = "running"              -> "on"
                             [] OTHER                            -> "off"]

Experiments == INSTANCE SingleExperiment WITH fault <- Watched

(* The rows and the loads that kubectl watches implement SingleExperiment. *)
ImplementsSingle == Experiments!ExperimentSpec

(* A row whose features may be built has the four phase timestamps            *)
(* features.py needs, in order, however late each call was executed.          *)
PhasesOrdered ==
  \A r \in Runs : status[r] \in {"completed", "recovery_failed"} =>
    LET at == stamp[r] IN
    /\ Null < at["baseline_started_at"]
    /\ at["baseline_started_at"] < at["active_started_at"]
    /\ at["active_started_at"] < at["active_ended_at"]
    /\ at["active_ended_at"] <= at["recovery_completed_at"]
    /\ status[r] = "completed" => at["active_ended_at"] < at["recovery_completed_at"]

(* The rows label the telemetry: the load lies between the two timestamps of  *)
(* the row's active phase.                                                    *)
LabelsCoverTheLoad ==
  \A r \in Runs \ Healthy :
    LET at == stamp[r] IN
    at["active_ended_at"] # Null =>
      /\ load[r] = "over"
      /\ at["active_started_at"] <= loadSince[r]
      /\ loadSince[r] + Duration <= at["active_ended_at"]

(* A runner that reports success has a completed row. *)
SuccessIsRecorded == \A r \in Runs : pc[r] = "succeeded" => status[r] = "completed"

(* Late and repeated calls never change the outcome of a finished experiment  *)
(* nor the times its labels are cut at.                                       *)
OutcomeIsFinal ==
  [][\A r \in Runs : status[r] \in Terminal =>
       status'[r] = status[r] /\ stamp'[r] = stamp[r]]_vars

(* Every experiment ends, however its runner ended; a row that is left behind *)
(* does not block later experiments for ever.                                 *)
EveryExperimentEnds == \A r \in Runs : status[r] \in Active ~> status[r] \in Terminal
===============================================================================
