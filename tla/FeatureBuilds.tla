----------------------------- MODULE FeatureBuilds ----------------------------
(***************************************************************************)
(* The builders of experiment features (dashboard/features.py): the        *)
(* telemetry-features CronJob, which works through the oldest unbuilt      *)
(* experiments, and builds started by hand, which may be forced.           *)
(*                                                                         *)
(* A build is one transaction under an advisory lock.  When it raises, the *)
(* transaction is rolled back and the lock goes with it; only then is the  *)
(* failure recorded, by a statement of its own.  That statement waits for  *)
(* the build row if another transaction has written it.                    *)
(***************************************************************************)
EXTENDS Integers, FiniteSets

CONSTANTS
  N,         \* bound on the experiments
  Barren,    \* experiments without telemetry resources: their builds raise
  Limit,     \* candidates per execution of the CronJob (20 in the code)
  MaxRows,   \* bound on the rows a build produces
  MaxFaults, \* bound on kills, failed statements and lost acknowledgements
  Cron,      \* the builder of the CronJob; it never overlaps itself (Forbid)
  Manual     \* builders started by hand

Experiment == 1..N    \* in the order of recovery_completed_at

Builder == {Cron} \cup Manual

ASSUME BuildsAssumption ==
  /\ N \in Nat /\ Limit \in Nat /\ MaxRows \in Nat /\ MaxFaults \in Nat
  /\ Barren \subseteq Experiment
  /\ Cron \notin Manual

VARIABLES
  finished,  \* experiments 1..finished are completed or recovery_failed
  settled,   \* of which 1..settled for at least BUILD_GRACE
  build,     \* experiment_feature_builds: the committed row of each experiment
  buckets,   \* experiment_feature_buckets: how many committed rows each one has
  pc,        \* per builder: "idle", "choosing", "building" or "failing"
  todo,      \* per builder: experiments still to be looked at
  exp,       \* per builder: the experiment it builds
  force,     \* per builder: --force
  faults     \* how much of the fault budget is spent

tableVars   == <<build, buckets>>
builderVars == <<pc, todo, exp, force>>
vars        == <<finished, settled, tableVars, builderVars, faults>>

BuildRow == [status : {"none", "failed", "completed"}, rows : Nat]

Init ==
  /\ finished = 0 /\ settled = 0
  /\ build = [e \in Experiment |-> [status |-> "none", rows |-> 0]]
  /\ buckets = [e \in Experiment |-> 0]
  /\ pc = [b \in Builder |-> "idle"]
  /\ todo = [b \in Builder |-> {}]
  /\ exp = [b \in Builder |-> 0]
  /\ force = [b \in Builder |-> FALSE]
  /\ faults = 0

Strike == faults < MaxFaults /\ faults' = faults + 1

-------------------------------------------------------------------------------
(* An experiment ends, and BUILD_GRACE passes. *)
Finish ==
  /\ finished < N
  /\ finished' = finished + 1
  /\ UNCHANGED <<settled, tableVars, builderVars, faults>>

Settle ==
  /\ settled < finished
  /\ settled' = settled + 1
  /\ UNCHANGED <<finished, tableVars, builderVars, faults>>

-------------------------------------------------------------------------------
(* Mutant: a build that failed is given up. *)
CandidatesOnce == {e \in 1..settled : build[e].status = "none"}

(* The SELECT of build_pending_features(): a failed build is tried again. *)
Candidates == {e \in 1..settled : build[e].status \in {"none", "failed"}}

OldestOf(S) == {e \in S : \A f \in S : e <= f}

(* ORDER BY recovery_completed_at LIMIT. *)
Selected == {e \in Candidates : Cardinality({f \in Candidates : f <= e}) <= Limit}

CronStarts ==
  /\ pc[Cron] = "idle"
  /\ Selected # {}
  /\ pc' = [pc EXCEPT ![Cron] = "choosing"]
  /\ todo' = [todo EXCEPT ![Cron] = Selected]
  /\ UNCHANGED <<finished, settled, tableVars, exp, force, faults>>

(* maintenance.py features --experiment-id [--force] *)
ManualStarts(b) ==
  /\ b \in Manual
  /\ pc[b] = "idle"
  /\ pc' = [pc EXCEPT ![b] = "choosing"]
  /\ \E e \in Experiment : todo' = [todo EXCEPT ![b] = {e}]
  /\ \E f \in BOOLEAN : force' = [force EXCEPT ![b] = f]
  /\ UNCHANGED <<finished, settled, tableVars, exp, faults>>

-------------------------------------------------------------------------------
(* build_experiment_features() *)

(* Mutant: the advisory lock is not taken. *)
NeverLocked(e) == FALSE

(* A transaction that builds e is open: it holds the advisory lock, the row *)
(* of the experiment and the row of the build.                              *)
Locked(e) == \E b \in Builder : pc[b] = "building" /\ exp[b] = e

(* The builder turns to its next experiment. *)
Take(b, e, step) ==
  /\ pc[b] = "choosing"
  /\ e \in OldestOf(todo[b])
  /\ pc' = [pc EXCEPT ![b] = step]
  /\ todo' = [todo EXCEPT ![b] = @ \ {e}]
  /\ exp' = [exp EXCEPT ![b] = e]
  /\ UNCHANGED <<finished, settled, tableVars, force, faults>>

(* There is a completed build, and no order to replace it. *)
Done(b, e) == e <= finished /\ build[e].status = "completed" /\ ~force[b]

SkipLocked(b) == \E e \in Experiment : Locked(e) /\ Take(b, e, "choosing")

SkipDone(b) == \E e \in Experiment : ~Locked(e) /\ Done(b, e) /\ Take(b, e, "choosing")

RefuseUnfinished(b) ==
  \E e \in Experiment : ~Locked(e) /\ e > finished /\ Take(b, e, "failing")

BeginBuild(b) ==
  \E e \in Experiment :
    ~Locked(e) /\ e <= finished /\ ~Done(b, e) /\ Take(b, e, "building")

(* Old buckets are deleted, new ones inserted and the build is completed.     *)
(* The acknowledgement of the commit may be lost, which the caller takes for  *)
(* a failure.                                                                 *)
Commit(b) ==
  /\ pc[b] = "building"
  /\ exp[b] \notin Barren
  /\ \E n \in 1..MaxRows :
       /\ buckets' = [buckets EXCEPT ![exp[b]] = n]
       /\ build' = [build EXCEPT ![exp[b]] = [status |-> "completed", rows |-> n]]
  /\ \/ pc' = [pc EXCEPT ![b] = "choosing"] /\ UNCHANGED faults
     \/ pc' = [pc EXCEPT ![b] = "failing"] /\ Strike
  /\ UNCHANGED <<finished, settled, todo, exp, force>>

(* No resources, no buckets, or a statement fails: everything is undone. *)
Raise(b) ==
  /\ pc[b] = "building"
  /\ \/ exp[b] \in Barren /\ UNCHANGED faults
     \/ Strike
  /\ pc' = [pc EXCEPT ![b] = "failing"]
  /\ UNCHANGED <<finished, settled, tableVars, todo, exp, force>>

(* Mutant: a build that was completed stays so. *)
FailedRowUnlessCompleted(e) ==
  [status |-> IF build[e].status = "completed" THEN "completed" ELSE "failed", rows |-> 0]

(* Mutant: the status the transaction gave the row is left in it. *)
FailedRowBuilding(e) == [status |-> "building", rows |-> 0]

FailedRow(e) == [status |-> "failed", rows |-> 0]

(* The exception handler, without the lock. *)
RecordFailure(b) ==
  /\ pc[b] = "failing"
  /\ ~Locked(exp[b])
  /\ build' = [build EXCEPT ![exp[b]] = FailedRow(exp[b])]
  /\ pc' = [pc EXCEPT ![b] = "choosing"]
  /\ UNCHANGED <<finished, settled, buckets, todo, exp, force, faults>>

(* The statement of the handler fails as well. *)
LoseFailure(b) ==
  /\ pc[b] = "failing"
  /\ Strike
  /\ pc' = [pc EXCEPT ![b] = "choosing"]
  /\ UNCHANGED <<finished, settled, tableVars, todo, exp, force>>

Stop(b) ==
  /\ pc' = [pc EXCEPT ![b] = "idle"]
  /\ todo' = [todo EXCEPT ![b] = {}]
  /\ force' = [force EXCEPT ![b] = FALSE]
  /\ UNCHANGED <<finished, settled, tableVars, exp>>

End(b) == pc[b] = "choosing" /\ todo[b] = {} /\ Stop(b) /\ UNCHANGED faults

(* The process is killed; PostgreSQL rolls its transaction back. *)
Die(b) == pc[b] # "idle" /\ Strike /\ Stop(b)

-------------------------------------------------------------------------------
BuilderStep(b) ==
  \/ SkipLocked(b) \/ SkipDone(b) \/ RefuseUnfinished(b) \/ BeginBuild(b)
  \/ Commit(b) \/ Raise(b) \/ RecordFailure(b) \/ LoseFailure(b) \/ End(b)

Next ==
  \/ Finish \/ Settle \/ CronStarts
  \/ \E b \in Builder : ManualStarts(b) \/ BuilderStep(b) \/ Die(b)

Spec == Init /\ [][Next]_vars

(* The CronJob runs every minute and a builder that runs goes on; a statement *)
(* that waits for a row is queued and gets it in the end.  Nobody is obliged  *)
(* to build by hand.                                                          *)
Fairness ==
  /\ WF_vars(CronStarts)
  /\ \A b \in Builder : WF_vars(BuilderStep(b)) /\ SF_vars(RecordFailure(b))

FairSpec == Spec /\ Fairness

-------------------------------------------------------------------------------
(* Every variable has its type. *)
TypeOK ==
  /\ finished \in 0..N /\ settled \in 0..finished
  /\ build \in [Experiment -> BuildRow]
  /\ buckets \in [Experiment -> Nat]
  /\ pc \in [Builder -> {"idle", "choosing", "building", "failing"}]
  /\ todo \in [Builder -> SUBSET Experiment]
  /\ exp \in [Builder -> 0..N]
  /\ \A b \in Builder : pc[b] \in {"building", "failing"} => exp[b] # 0
  /\ force \in [Builder -> BOOLEAN]
  /\ faults \in 0..MaxFaults

(* A build that is recorded as completed has its buckets, as many as the     *)
(* record says, whatever builders raise, die or record failures in between.  *)
CompletedMeansBuilt ==
  \A e \in Experiment :
    build[e].status = "completed" => buckets[e] # 0 /\ build[e].rows = buckets[e]

(* The features of a completed build change only under a forced build: of two *)
(* builders that start on the same experiment the second finds it completed.  *)
FeaturesStable ==
  [][\A e \in Experiment :
       build[e].status = "completed" /\ buckets'[e] # buckets[e] =>
         \E b \in Builder : pc[b] = "building" /\ exp[b] = e /\ force[b]]_vars

(* README.md: experiment_feature_builds records whether feature generation    *)
(* completed.  So a build recorded as failed should have left no features.    *)
FailedMeansUnbuilt ==
  \A e \in Experiment : build[e].status = "failed" => buckets[e] = 0

(* README.md: the CronJob converts completed experiments into features, all   *)
(* of those that have telemetry.                                              *)
EveryExperimentIsBuilt ==
  \A e \in Experiment \ Barren : e <= settled ~> buckets[e] # 0
===============================================================================
