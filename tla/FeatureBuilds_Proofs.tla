-------------------------- MODULE FeatureBuilds_Proofs ------------------------
(***************************************************************************)
(* Proofs about the feature builders: type correctness, the truth of a     *)
(* "completed" record, and the stability of completed features.            *)
(***************************************************************************)
EXTENDS FeatureBuilds, TLAPS

USE BuildsAssumption

-------------------------------------------------------------------------------
(* The type invariant is inductive. *)
LEMMA TypeInit == Init => TypeOK
BY DEF Init, TypeOK, Experiment, BuildRow

LEMMA TypeStep == TypeOK /\ [Next]_vars => TypeOK'
<1> SUFFICES ASSUME TypeOK, [Next]_vars
             PROVE  TypeOK'
    OBVIOUS
<1> USE DEF TypeOK, tableVars, builderVars, BuildRow
<1>1. CASE Finish
      BY <1>1 DEF Finish
<1>2. CASE Settle
      BY <1>2 DEF Settle
<1>3. CASE CronStarts
  <2>1. Selected \subseteq Experiment
        BY DEF Selected, Candidates, Experiment
  <2> QED
        BY <1>3, <2>1 DEF CronStarts
<1>4. ASSUME NEW b \in Builder, ManualStarts(b)
      PROVE  TypeOK'
  <2>1. /\ todo' \in [Builder -> SUBSET Experiment] /\ force' \in [Builder -> BOOLEAN]
        /\ pc' \in [Builder -> {"idle", "choosing", "building", "failing"}]
        BY <1>4 DEF ManualStarts
  <2>2. \A c \in Builder : pc'[c] \in {"building", "failing"} => exp'[c] # 0
        BY <1>4 DEF ManualStarts
  <2> QED
        BY <1>4, <2>1, <2>2 DEF ManualStarts
<1>5. ASSUME NEW b \in Builder, NEW e \in Experiment,
             NEW step \in {"choosing", "building", "failing"}, Take(b, e, step)
      PROVE  TypeOK'
  <2>1. e \in 0..N /\ e # 0
        BY DEF Experiment
  <2>2. /\ todo' \in [Builder -> SUBSET Experiment] /\ exp' \in [Builder -> 0..N]
        /\ pc' \in [Builder -> {"idle", "choosing", "building", "failing"}]
        BY <1>5, <2>1 DEF Take
  <2>3. \A c \in Builder : pc'[c] \in {"building", "failing"} => exp'[c] # 0
        BY <1>5, <2>1 DEF Take
  <2> QED
        BY <1>5, <2>2, <2>3 DEF Take
<1>6. ASSUME NEW b \in Builder, Commit(b)
      PROVE  TypeOK'
  <2>1. exp[b] \in Experiment
        BY <1>6 DEF Commit, Experiment
  <2>2. buckets' \in [Experiment -> Nat] /\ build' \in [Experiment -> BuildRow]
        BY <1>6, <2>1 DEF Commit
  <2>3. pc' \in [Builder -> {"idle", "choosing", "building", "failing"}] /\ faults' \in 0..MaxFaults
        BY <1>6 DEF Commit, Strike
  <2>4. \A c \in Builder : pc'[c] \in {"building", "failing"} => exp'[c] # 0
        BY <1>6 DEF Commit
  <2> QED
        BY <1>6, <2>2, <2>3, <2>4 DEF Commit
<1>7. ASSUME NEW b \in Builder, Raise(b)
      PROVE  TypeOK'
      BY <1>7 DEF Raise, Strike
<1>8. ASSUME NEW b \in Builder, RecordFailure(b)
      PROVE  TypeOK'
  <2>1. exp[b] \in Experiment
        BY <1>8 DEF RecordFailure, Experiment
  <2> QED
        BY <1>8, <2>1 DEF RecordFailure, FailedRow
<1>9. ASSUME NEW b \in Builder, LoseFailure(b)
      PROVE  TypeOK'
      BY <1>9 DEF LoseFailure, Strike
<1>10. ASSUME NEW b \in Builder, End(b) \/ Die(b)
       PROVE  TypeOK'
  <2>1. Stop(b) /\ faults' \in 0..MaxFaults
        BY <1>10 DEF End, Die, Strike
  <2>2. /\ todo' \in [Builder -> SUBSET Experiment] /\ force' \in [Builder -> BOOLEAN]
        /\ pc' \in [Builder -> {"idle", "choosing", "building", "failing"}]
        BY <2>1 DEF Stop
  <2>3. \A c \in Builder : pc'[c] \in {"building", "failing"} => exp'[c] # 0
        BY <2>1 DEF Stop
  <2> QED
        BY <2>1, <2>2, <2>3 DEF Stop
<1>11. CASE UNCHANGED vars
       BY <1>11 DEF vars
<1> QED
    BY <1>1, <1>2, <1>3, <1>4, <1>5, <1>6, <1>7, <1>8, <1>9, <1>10, <1>11
    DEF Next, BuilderStep, SkipLocked, SkipDone, RefuseUnfinished, BeginBuild

(* Every variable has its type, for every number of experiments and builders. *)
THEOREM TypeCorrect == Spec => []TypeOK
BY TypeInit, TypeStep, PTL DEF Spec

-------------------------------------------------------------------------------
(* The lock admits one transaction per experiment, and a transaction that was *)
(* not forced has found its experiment without a completed build.             *)
LockHeld ==
  /\ \A b, c \in Builder :
       pc[b] = "building" /\ pc[c] = "building" /\ exp[b] = exp[c] => b = c
  /\ \A b \in Builder :
       pc[b] = "building" /\ ~force[b] => build[exp[b]].status # "completed"

BuildsInv == TypeOK /\ LockHeld /\ CompletedMeansBuilt

LEMMA InvInit == Init => BuildsInv
BY TypeInit DEF Init, BuildsInv, TypeOK, LockHeld, CompletedMeansBuilt

(* A step that leaves the tables alone and begins no build. *)
LEMMA AsideStep ==
  ASSUME BuildsInv, UNCHANGED tableVars,
         \A c \in Builder :
           pc'[c] = "building" =>
             pc[c] = "building" /\ exp'[c] = exp[c] /\ force'[c] = force[c]
  PROVE  LockHeld' /\ CompletedMeansBuilt'
BY DEF BuildsInv, LockHeld, CompletedMeansBuilt, tableVars

LEMMA BeginStep ==
  ASSUME BuildsInv, NEW b \in Builder, BeginBuild(b)
  PROVE  LockHeld' /\ CompletedMeansBuilt'
<1>1. PICK e \in Experiment : ~Locked(e) /\ e <= finished /\ ~Done(b, e) /\ Take(b, e, "building")
      BY DEF BeginBuild
<1>2. /\ pc' = [pc EXCEPT ![b] = "building"] /\ exp' = [exp EXCEPT ![b] = e]
      /\ UNCHANGED <<build, buckets, force>>
      BY <1>1 DEF Take, tableVars
<1>3. \A c \in Builder : c # b => pc'[c] = pc[c] /\ exp'[c] = exp[c]
      BY <1>2 DEF BuildsInv, TypeOK
<1>4. pc'[b] = "building" /\ exp'[b] = e
      BY <1>2 DEF BuildsInv, TypeOK
<1>5. \A c \in Builder : pc[c] = "building" => exp[c] # e
      BY <1>1 DEF Locked
<1>6. force[b] \/ build[e].status # "completed"
      BY <1>1 DEF Done
<1> QED
    BY <1>2, <1>3, <1>4, <1>5, <1>6 DEF BuildsInv, LockHeld, CompletedMeansBuilt

LEMMA CommitStep ==
  ASSUME BuildsInv, NEW b \in Builder, Commit(b)
  PROVE  LockHeld' /\ CompletedMeansBuilt'
<1>1. PICK n \in 1..MaxRows :
        /\ buckets' = [buckets EXCEPT ![exp[b]] = n]
        /\ build' = [build EXCEPT ![exp[b]] = [status |-> "completed", rows |-> n]]
      BY DEF Commit
<1>2. exp[b] \in Experiment
      BY DEF Commit, BuildsInv, TypeOK, Experiment
<1>3. \A e \in Experiment : e # exp[b] => build'[e] = build[e] /\ buckets'[e] = buckets[e]
      BY <1>1 DEF BuildsInv, TypeOK
<1>4. build'[exp[b]] = [status |-> "completed", rows |-> n] /\ buckets'[exp[b]] = n /\ n # 0
      BY <1>1, <1>2 DEF BuildsInv, TypeOK
<1>5. UNCHANGED <<exp, force>> /\ pc[b] = "building" /\ pc'[b] # "building"
      BY DEF Commit, BuildsInv, TypeOK
<1>6. \A c \in Builder : c # b => pc'[c] = pc[c]
      BY DEF Commit, BuildsInv, TypeOK
<1>7. \A c \in Builder : pc'[c] = "building" => c # b /\ pc[c] = "building" /\ exp[c] # exp[b]
      BY <1>5, <1>6 DEF BuildsInv, LockHeld
<1>8. \A c \in Builder : pc'[c] = "building" => exp[c] \in Experiment
      BY <1>7 DEF BuildsInv, TypeOK, Experiment
<1>9. CompletedMeansBuilt'
      BY <1>3, <1>4 DEF BuildsInv, CompletedMeansBuilt
<1> QED
    BY <1>3, <1>5, <1>7, <1>8, <1>9 DEF BuildsInv, LockHeld

LEMMA FailureStep ==
  ASSUME BuildsInv, NEW b \in Builder, RecordFailure(b)
  PROVE  LockHeld' /\ CompletedMeansBuilt'
<1>1. exp[b] \in Experiment
      BY DEF RecordFailure, BuildsInv, TypeOK, Experiment
<1>2. \A e \in Experiment : e # exp[b] => build'[e] = build[e]
      BY DEF RecordFailure, BuildsInv, TypeOK
<1>3. build'[exp[b]].status = "failed" /\ UNCHANGED <<buckets, exp, force>>
      BY <1>1 DEF RecordFailure, FailedRow, BuildsInv, TypeOK
<1>4. \A c \in Builder : pc'[c] = "building" => pc[c] = "building" /\ exp[c] \in Experiment
      BY DEF RecordFailure, BuildsInv, TypeOK, Experiment
<1>5. \A c \in Builder : pc[c] = "building" => exp[c] # exp[b]
      BY DEF RecordFailure, Locked
<1> QED
    BY <1>2, <1>3, <1>4, <1>5 DEF BuildsInv, LockHeld, CompletedMeansBuilt

LEMMA InvStep == BuildsInv /\ [Next]_vars => BuildsInv'
<1> SUFFICES ASSUME BuildsInv, [Next]_vars
             PROVE  LockHeld' /\ CompletedMeansBuilt'
    BY TypeStep DEF BuildsInv
<1>1. CASE Finish \/ Settle \/ UNCHANGED vars
      BY <1>1, AsideStep DEF Finish, Settle, vars, tableVars, builderVars
<1>2. CASE CronStarts
  <2>1. \A c \in Builder : pc'[c] = "building" => pc[c] = "building"
        BY <1>2 DEF CronStarts, BuildsInv, TypeOK
  <2> QED
        BY <1>2, <2>1, AsideStep DEF CronStarts
<1>3. ASSUME NEW b \in Builder, ManualStarts(b)
      PROVE  LockHeld' /\ CompletedMeansBuilt'
  <2>1. UNCHANGED tableVars
        BY <1>3 DEF ManualStarts
  <2>2. \A c \in Builder : pc'[c] = "building" =>
          pc[c] = "building" /\ exp'[c] = exp[c] /\ force'[c] = force[c]
        BY <1>3 DEF ManualStarts, BuildsInv, TypeOK
  <2> QED
        BY <2>1, <2>2, AsideStep
<1>4. ASSUME NEW b \in Builder, NEW e \in Experiment,
             NEW step \in {"choosing", "failing"}, Take(b, e, step)
      PROVE  LockHeld' /\ CompletedMeansBuilt'
  <2>1. UNCHANGED tableVars
        BY <1>4 DEF Take
  <2>2. \A c \in Builder : pc'[c] = "building" =>
          pc[c] = "building" /\ exp'[c] = exp[c] /\ force'[c] = force[c]
        BY <1>4 DEF Take, BuildsInv, TypeOK
  <2> QED
        BY <2>1, <2>2, AsideStep
<1>5. ASSUME NEW b \in Builder, Raise(b) \/ LoseFailure(b)
      PROVE  LockHeld' /\ CompletedMeansBuilt'
  <2>1. UNCHANGED tableVars
        BY <1>5 DEF Raise, LoseFailure
  <2>2. \A c \in Builder : pc'[c] = "building" =>
          pc[c] = "building" /\ exp'[c] = exp[c] /\ force'[c] = force[c]
        BY <1>5 DEF Raise, LoseFailure, BuildsInv, TypeOK
  <2> QED
        BY <2>1, <2>2, AsideStep
<1>6. ASSUME NEW b \in Builder, Stop(b)
      PROVE  LockHeld' /\ CompletedMeansBuilt'
  <2>1. UNCHANGED tableVars
        BY <1>6 DEF Stop
  <2>2. \A c \in Builder : pc'[c] = "building" =>
          pc[c] = "building" /\ exp'[c] = exp[c] /\ force'[c] = force[c]
        BY <1>6 DEF Stop, BuildsInv, TypeOK
  <2> QED
        BY <2>1, <2>2, AsideStep
<1> QED
    BY <1>1, <1>2, <1>3, <1>4, <1>5, <1>6, BeginStep, CommitStep, FailureStep
    DEF Next, BuilderStep, SkipLocked, SkipDone, RefuseUnfinished, End, Die

LEMMA Invariance == Spec => []BuildsInv
BY InvInit, InvStep, PTL DEF Spec

(* A build recorded as completed has its buckets, for every number of        *)
(* experiments and builders, whatever is raised, killed or lost.             *)
THEOREM CompletedBuildsExist == Spec => []CompletedMeansBuilt
BY Invariance, PTL DEF BuildsInv

(* The features of a completed build change only under a forced build. *)
THEOREM FeaturesStayPut == Spec => FeaturesStable
<1>1. ASSUME BuildsInv, [Next]_vars, NEW e \in Experiment,
             build[e].status = "completed", buckets'[e] # buckets[e]
      PROVE  \E b \in Builder : pc[b] = "building" /\ exp[b] = e /\ force[b]
  <2>1. PICK b \in Builder : Commit(b)
        BY <1>1 DEF Next, BuilderStep, vars, tableVars, Finish, Settle, CronStarts, ManualStarts,
           SkipLocked, SkipDone, RefuseUnfinished, BeginBuild, Take, Raise, RecordFailure,
           LoseFailure, End, Die, Stop
  <2>2. pc[b] = "building" /\ exp[b] = e
        BY <1>1, <2>1 DEF Commit, BuildsInv, TypeOK
  <2>3. force[b]
        BY <1>1, <2>2 DEF BuildsInv, LockHeld, TypeOK
  <2> QED
        BY <2>2, <2>3
<1>2. BuildsInv /\ [Next]_vars =>
        [\A e \in Experiment :
           build[e].status = "completed" /\ buckets'[e] # buckets[e] =>
             \E b \in Builder : pc[b] = "building" /\ exp[b] = e /\ force[b]]_vars
      BY <1>1
<1> QED
    BY <1>2, Invariance, PTL DEF Spec, FeaturesStable
===============================================================================
