---------------------------- MODULE Retention_Proofs ---------------------------
(***************************************************************************)
(* The life of raw telemetry, for every length of a day, every retention   *)
(* and every interleaving of the dashboard, the rollup and the retention   *)
(* jobs: the types, that the dashboard's memory of partitions is true, and *)
(* that neither raw rows nor rollups are deleted before their time.        *)
(***************************************************************************)
EXTENDS Retention, FiniteSetTheorems, TLAPS

-------------------------------------------------------------------------------
(* The calendar. *)

LEMMA DayBounds ==
  ASSUME NEW m \in Int
  PROVE  /\ Day(m) \in Int
         /\ DayLength * Day(m) <= m
         /\ m < DayLength * Day(m) + DayLength
<1>1. DayLength \in Nat /\ DayLength > 0
  BY RetentionAssumption
<1> DEFINE q == m \div DayLength
<1>2. m = DayLength * q + (m % DayLength)
  BY <1>1
<1>3. m % DayLength \in 0..(DayLength - 1)
  BY <1>1
<1>4. q \in Int
  BY <1>1
<1> QED
  BY <1>1, <1>2, <1>3, <1>4 DEF Day

(* A minute before the start of a day belongs to an earlier day. *)
LEMMA EarlierDay ==
  ASSUME NEW m \in Int, NEW d \in Int, m < DayLength * d PROVE Day(m) < d
<1>1. DayLength \in Nat /\ DayLength > 0 /\ DayLength * Day(m) <= m /\ Day(m) \in Int
  BY RetentionAssumption, DayBounds
<1> QED
  BY <1>1

LEMMA DayIsMonotone ==
  ASSUME NEW m \in Int, NEW n \in Int, m <= n PROVE Day(m) <= Day(n)
<1>1. /\ DayLength \in Nat
      /\ Day(m) \in Int /\ Day(n) \in Int
      /\ n < DayLength * Day(n) + DayLength
  BY RetentionAssumption, DayBounds
<1>2. m < DayLength * (Day(n) + 1)
  BY <1>1
<1>3. Day(m) < Day(n) + 1
  BY <1>1, <1>2, EarlierDay
<1> QED
  BY <1>1, <1>3

(* A minute of a day that the retention job drops is out of raw retention. *)
LEMMA DroppedDayIsOver ==
  ASSUME now \in Int, NEW m \in Int, OutOfRetention(Day(m)) PROVE m < RawCutoff
<1>1. /\ DayLength \in Nat /\ DayLength > 0 /\ RawDays \in Nat
      /\ Day(m) \in Int /\ m < DayLength * Day(m) + DayLength
      /\ Day(now) \in Int /\ DayLength * Day(now) <= now
  BY RetentionAssumption, DayBounds
<1>2. Day(m) + 1 <= Day(now) - RawDays
  BY <1>1 DEF OutOfRetention
<1>3. DayLength * (Day(m) + 1) <= DayLength * (Day(now) - RawDays)
  BY <1>1, <1>2
<1>4. /\ DayLength * (Day(m) + 1) = DayLength * Day(m) + DayLength
      /\ DayLength * (Day(now) - RawDays) = DayLength * Day(now) - RawDays * DayLength
  BY <1>1
<1> QED
  BY <1>1, <1>3, <1>4 DEF RawCutoff

(* A day that the retention job drops is earlier than that of the cutoff. *)
LEMMA DroppedDayIsEarlier ==
  ASSUME now \in Int, NEW d \in Int, OutOfRetention(d) PROVE d < Day(RawCutoff)
<1>1. /\ DayLength \in Nat /\ DayLength > 0 /\ RawDays \in Nat
      /\ Day(now) \in Int /\ DayLength * Day(now) <= now
  BY RetentionAssumption, DayBounds
<1>2. RawCutoff \in Int
  BY <1>1 DEF RawCutoff
<1>3. /\ Day(RawCutoff) \in Int
      /\ RawCutoff < DayLength * Day(RawCutoff) + DayLength
  BY <1>2, DayBounds
<1>4. DayLength * (Day(now) - RawDays) <= RawCutoff
  <2>1. DayLength * (Day(now) - RawDays) = DayLength * Day(now) - RawDays * DayLength
    BY <1>1
  <2> QED
    BY <1>1, <2>1 DEF RawCutoff
<1>5. DayLength * (Day(now) - RawDays) < DayLength * (Day(RawCutoff) + 1)
  BY <1>1, <1>2, <1>3, <1>4
<1>6. Day(now) - RawDays < Day(RawCutoff) + 1
  BY <1>1, <1>3, <1>5
<1> QED
  BY <1>1, <1>3, <1>6 DEF OutOfRetention

-------------------------------------------------------------------------------
(* Types. *)

(* No partition is both about to be dropped and still on the job's list. *)
DoomedIsOffTheList == scan \cap doomed = {}

Typed == TypeOK /\ DoomedIsOffTheList

(* Every minute of the model falls on one of its days. *)
LEMMA DaysAreBounded == \A m \in Minute : Day(m) \in 0..Day(MaxTime)
<1> SUFFICES ASSUME NEW m \in Minute PROVE Day(m) \in 0..Day(MaxTime)
  OBVIOUS
<1>1. m \in Int /\ 0 <= m /\ m <= MaxTime /\ MaxTime \in Int
  BY RetentionAssumption DEF Minute
<1>2. Day(m) <= Day(MaxTime) /\ Day(0) <= Day(m)
  BY <1>1, DayIsMonotone
<1>3. Day(m) \in Int /\ Day(MaxTime) \in Int
  BY <1>1, DayBounds
<1>4. Day(0) = 0
  <2>1. DayLength \in Nat /\ DayLength > 0
    BY RetentionAssumption
  <2> QED
    BY <2>1 DEF Day
<1> QED
  BY <1>2, <1>3, <1>4

LEMMA AtMostOneMember ==
  /\ Cardinality({}) <= 1
  /\ \A x : Cardinality({x}) <= 1
BY FS_EmptySet, FS_Singleton

LEMMA StartsTyped == Init => Typed
<1> SUFFICES ASSUME Init PROVE Typed
  OBVIOUS
<1>1. 0 \in Minute /\ 0 \in 0..MaxRestarts
  BY RetentionAssumption DEF Minute
<1>2. Day(MaxTime) \in Int /\ Day(0) \in 0..Day(MaxTime) /\ MaxTime \in Int
  BY <1>1, DayBounds, DaysAreBounded, RetentionAssumption
<1>3. 0 \in 0..Day(MaxTime) /\ 0 \in 0..(Day(MaxTime) + 1)
  BY <1>2
<1> QED
  BY <1>1, <1>3, AtMostOneMember DEF Init, Typed, TypeOK, DoomedIsOffTheList

LEMMA StaysTyped == Typed /\ [Next]_vars => Typed'
<1> SUFFICES ASSUME Typed, [Next]_vars PROVE Typed'
  OBVIOUS
<1> USE DEF Typed, TypeOK, DoomedIsOffTheList, ingestVars, tableVars, retireVars
<1>1. /\ Day(now) \in 0..Day(MaxTime)
      /\ \A m \in spooled : Day(m) \in 0..Day(MaxTime)
      /\ Day(MaxTime) \in Int
  BY DaysAreBounded, DayBounds, RetentionAssumption
<1>2. \A d \in 0..Day(MaxTime) : d \in 0..(Day(MaxTime) + 1) /\ d + 1 \in 0..(Day(MaxTime) + 1)
  BY <1>1
<1>3. CASE Tick
  BY <1>3, RetentionAssumption DEF Tick, Minute
<1>4. CASE Ensure
  <2>1. PICK m \in accepted :
          /\ accepted' = {} /\ handling' = {m}
          /\ known' = known \cup {Day(m)}
          /\ partitions' = partitions \cup ({Day(m)} \ known)
    BY <1>4 DEF Ensure
  <2>2. m \in spooled
    OBVIOUS
  <2>3. known' \subseteq 0..Day(MaxTime) /\ partitions' \subseteq 0..(Day(MaxTime) + 1)
    BY <1>1, <1>2, <2>1, <2>2
  <2>4. handling' \subseteq spooled /\ Cardinality(handling') <= 1
    BY <2>1, <2>2, AtMostOneMember
  <2> QED
    BY <1>4, <2>1, <2>3, <2>4 DEF Ensure
<1>5. CASE Insert
  <2>1. accepted = {}
    BY <1>5 DEF Insert
  <2> QED
    BY <1>5, <2>1, AtMostOneMember DEF Insert
<1>6. CASE InsertFails \/ Refuse
  BY <1>6, AtMostOneMember DEF InsertFails, Refuse, Idle
<1>15. CASE Validate
  <2>1. PICK m \in Oldest : accepted' = {m}
    BY <1>15 DEF Validate
  <2>2. m \in spooled
    BY DEF Oldest
  <2>3. accepted' \subseteq spooled /\ Cardinality(accepted') <= 1
    BY <2>1, <2>2, AtMostOneMember
  <2> QED
    BY <1>15, <2>3 DEF Validate, Idle
<1>7. CASE ServerRestarts
  <2>1. known' \subseteq 0..Day(MaxTime) /\ partitions' \subseteq 0..(Day(MaxTime) + 1)
    BY <1>1, <1>2, <1>7 DEF ServerRestarts
  <2>2. restarts' \in 0..MaxRestarts
    BY <1>7, RetentionAssumption DEF ServerRestarts
  <2> QED
    BY <1>7, <2>1, <2>2, AtMostOneMember DEF ServerRestarts
<1>8. CASE RollupStarts
  BY <1>1, <1>2, <1>8 DEF RollupStarts
<1>9. CASE RollupBucket \/ RollupDies
  BY <1>9 DEF RollupBucket, RollupDies, Rolled
<1>10. CASE RetentionStarts
  BY <1>1, <1>2, <1>10 DEF RetentionStarts
<1>11. ASSUME NEW d \in partitions, Look(d) PROVE Typed'
  <2>1. CASE MayDrop(d)
    BY <1>11, <2>1, AtMostOneMember DEF Look, Remaining, DayOf
  <2>2. CASE ~MayDrop(d)
    BY <1>11, <2>2 DEF Look, Remaining
  <2> QED
    BY <2>1, <2>2
<1>12. CASE DropPartition
  BY <1>12, AtMostOneMember DEF DropPartition, DayOf
<1>13. CASE ForgetSummaries \/ RetentionDies
  BY <1>13, AtMostOneMember DEF ForgetSummaries, RetentionDies
<1>14. CASE UNCHANGED vars
  BY <1>14 DEF vars
<1> QED
  BY <1>3, <1>4, <1>5, <1>6, <1>7, <1>8, <1>9, <1>10, <1>11, <1>12, <1>13, <1>14, <1>15
     DEF Next, Handler, RollupJob, RetentionJob

LEMMA AlwaysTyped == Spec => []Typed
BY StartsTyped, StaysTyped, PTL DEF Spec

(* In every reachable state every variable has its type, at most one minute *)
(* is handled and at most one partition is about to be dropped.             *)
THEOREM TypeCorrect == Spec => []TypeOK
BY AlwaysTyped, PTL DEF Typed

-------------------------------------------------------------------------------
(* The dashboard's memory of partitions. *)

(* What the retention job has listed stays out of raw retention. *)
ListIsOld == \A d \in scan \cup doomed : OutOfRetention(d)

MemoryInv == CacheIsTrue /\ ListIsOld

LEMMA MemoryStaysTrue ==
  ASSUME Typed, MemoryInv, [Next]_vars PROVE MemoryInv'
<1> USE DEF MemoryInv, CacheIsTrue, ListIsOld, ingestVars, tableVars, retireVars
<1>1. /\ now \in Int /\ RawDays \in Int /\ RawCutoff \in Int
      /\ Day(now) \in Int /\ Day(RawCutoff) \in Int
      /\ partitions \subseteq Int /\ known \subseteq Int
      /\ scan \subseteq partitions /\ doomed \subseteq partitions
  <2>1. now \in Int /\ RawDays \in Int /\ RawCutoff \in Int
    BY RetentionAssumption DEF Typed, TypeOK, Minute, RawCutoff
  <2> QED
    BY <2>1, DayBounds DEF Typed, TypeOK
<1>2. CASE Tick
  <2>1. /\ now' \in Int /\ RawCutoff' \in Int /\ now <= now' /\ RawCutoff <= RawCutoff'
    BY <1>1, <1>2, RetentionAssumption DEF Tick, RawCutoff
  <2>2. /\ Day(now)' \in Int /\ Day(RawCutoff)' \in Int
        /\ Day(now) <= Day(now)' /\ Day(RawCutoff) <= Day(RawCutoff)'
    BY <1>1, <2>1, DayBounds, DayIsMonotone
  <2> QED
    BY <1>1, <1>2, <2>2 DEF Tick, OutOfRetention
<1>3. CASE UNCHANGED now
  <2> USE DEF OutOfRetention
  <2>0. UNCHANGED <<Day(now), Day(RawCutoff)>>
    BY <1>3 DEF RawCutoff
  <2>1. CASE Ensure
    <3>1. PICK m \in accepted :
            known' = known \cup {Day(m)} /\ partitions' = partitions \cup ({Day(m)} \ known)
      BY <2>1 DEF Ensure
    <3>2. CacheIsTrue'
      BY <2>0, <3>1
    <3> QED
      BY <2>0, <2>1, <3>2 DEF Ensure
  <2>2. CASE ServerRestarts
    BY <2>0, <2>2 DEF ServerRestarts
  <2>3. CASE Validate \/ Insert \/ InsertFails \/ Refuse \/ RollupBucket \/ RollupDies \/ UNCHANGED vars
    BY <2>0, <2>3 DEF Validate, Insert, InsertFails, Refuse, RollupBucket, RollupDies, vars
  <2>4. CASE RollupStarts
    BY <2>0, <2>4 DEF RollupStarts
  <2>5. CASE RetentionStarts
    BY <2>0, <2>5 DEF RetentionStarts
  <2>6. ASSUME NEW d \in partitions, Look(d) PROVE MemoryInv'
    BY <2>0, <2>6 DEF Look, Remaining
  <2>7. CASE DropPartition
    <3>1. PICK d \in doomed : partitions' = partitions \ {d}
      BY <2>7 DEF DropPartition
    <3>2. d < Day(RawCutoff)
      BY <1>1, DroppedDayIsEarlier
    <3>3. CacheIsTrue'
      <4>1. ASSUME NEW e \in known, e >= Day(RawCutoff) PROVE e \in partitions'
        <5>1. e # d /\ e \in partitions
          BY <1>1, <3>2, <4>1
        <5> QED
          BY <3>1, <5>1
      <4>2. UNCHANGED known
        BY <2>7 DEF DropPartition
      <4> QED
        BY <2>0, <4>1, <4>2
    <3> QED
      BY <2>0, <2>7, <3>3 DEF DropPartition
  <2>8. CASE ForgetSummaries \/ RetentionDies
    BY <2>0, <2>8 DEF ForgetSummaries, RetentionDies
  <2> QED
    BY <1>2, <2>1, <2>2, <2>3, <2>4, <2>5, <2>6, <2>7, <2>8
       DEF Next, Handler, RollupJob, RetentionJob
<1> QED
  BY <1>2, <1>3 DEF Next, Handler, RollupJob, RetentionJob, Validate, Ensure, Insert, InsertFails, Refuse,
     ServerRestarts, RollupStarts, RollupBucket, RollupDies, RetentionStarts, Look, DropPartition,
     ForgetSummaries, RetentionDies, vars

LEMMA MemoryIsTrue == Spec => []MemoryInv
<1>1. Init => MemoryInv
  BY DEF Init, MemoryInv, CacheIsTrue, ListIsOld
<1>2. Typed /\ MemoryInv /\ [Next]_vars => MemoryInv'
  BY MemoryStaysTrue
<1> QED
  BY <1>1, <1>2, AlwaysTyped, PTL DEF Spec

(* ensure_partition() never skips a partition that an acceptable snapshot    *)
(* needs, although another process drops partitions behind its back.         *)
THEOREM MemoryAlwaysTrue == Spec => []CacheIsTrue
BY MemoryIsTrue, PTL DEF MemoryInv

-------------------------------------------------------------------------------
(* What retention deletes. *)

LEMMA OnlyOldRowsGo ==
  ASSUME Typed, MemoryInv, [Next]_vars PROVE \A m \in raw \ raw' : m < RawCutoff
<1>1. now \in Int /\ raw \subseteq Int
  BY DEF Typed, TypeOK, Minute
<1>2. CASE DropPartition
  <2>1. PICK d \in doomed : raw' = raw \ DayOf(raw, d)
    BY <1>2 DEF DropPartition
  <2>2. OutOfRetention(d)
    BY DEF MemoryInv, ListIsOld
  <2>3. ASSUME NEW m \in raw \ raw' PROVE m < RawCutoff
    <3>1. Day(m) = d
      BY <2>1 DEF DayOf
    <3> QED
      BY <1>1, <2>2, <3>1, DroppedDayIsOver
  <2> QED
    BY <2>3
<1>3. CASE raw \subseteq raw'
  BY <1>3
<1> QED
  BY <1>2, <1>3
     DEF Next, Handler, RollupJob, RetentionJob, Tick, Validate, Ensure, Insert, InsertFails, Refuse,
         ServerRestarts, RollupStarts, RollupBucket, RollupDies, RetentionStarts, Look,
         ForgetSummaries, RetentionDies, tableVars, vars

(* Raw rows are deleted only when they are older than raw_days, whatever the *)
(* retention job, late handlers and the passing of midnight do.              *)
THEOREM RawRowsAreKept == Spec => RawKept
<1>1. Typed /\ MemoryInv /\ [Next]_vars
        => [\A m \in raw \ raw' : m < now - RawDays * DayLength]_vars
  BY OnlyOldRowsGo DEF RawCutoff
<1> QED
  BY <1>1, AlwaysTyped, MemoryIsTrue, PTL DEF Spec, RawKept

(* A minute that may still be rolled up again has the raw rows its rollup was *)
(* computed from: the job only reads minutes that retention has not reached.  *)
RollupsAreFounded ==
  /\ \A m \in rolling : m >= RawCutoff
  /\ \A m \in rollup : m \in raw \/ m < RawCutoff

LEMMA RollupsStayFounded ==
  ASSUME Typed, MemoryInv, RollupsAreFounded, [Next]_vars PROVE RollupsAreFounded'
<1> USE DEF RollupsAreFounded, ingestVars, tableVars, retireVars
<1>1. /\ now \in Int /\ RawDays * DayLength \in Int /\ Window \in Int
      /\ Window <= RawDays * DayLength /\ RawCutoff \in Int
      /\ rolling \subseteq Int /\ rollup \subseteq Int
  BY RetentionAssumption DEF Typed, TypeOK, Minute, RawCutoff
<1>2. CASE Tick
  BY <1>1, <1>2 DEF Tick, RawCutoff
<1>3. CASE RollupStarts
  BY <1>1, <1>3 DEF RollupStarts, RawCutoff, Minute
<1>4. CASE RollupBucket
  BY <1>4 DEF RollupBucket, Rolled, RawCutoff
<1>5. CASE DropPartition
  <2>1. \A m \in raw \ raw' : m < RawCutoff
    BY OnlyOldRowsGo
  <2> QED
    BY <1>5, <2>1 DEF DropPartition, RawCutoff
<1>6. CASE Insert \/ ForgetSummaries
  BY <1>6 DEF Insert, ForgetSummaries, RawCutoff
<1>7. CASE UNCHANGED <<now, raw, rollup, rolling>> \/ RollupDies
  BY <1>7 DEF RollupDies, RawCutoff
<1> QED
  BY <1>2, <1>3, <1>4, <1>5, <1>6, <1>7
     DEF Next, Handler, RollupJob, RetentionJob, Validate, Ensure, InsertFails, Refuse, ServerRestarts,
         RetentionStarts, Look, RetentionDies, vars

LEMMA OnlyOldRollupsGo ==
  ASSUME Typed, RollupsAreFounded, [Next]_vars
  PROVE  \A m \in rollup \ rollup' : m < SummaryCutoff
<1>1. rollup \subseteq Int /\ now \in Int /\ RawCutoff \in Int /\ SummaryCutoff \in Int
  BY RetentionAssumption DEF Typed, TypeOK, Minute, RawCutoff, SummaryCutoff
<1>2. CASE RollupBucket
  <2>1. PICK m \in rolling : rollup' = Rolled(m)
    BY <1>2 DEF RollupBucket
  <2>2. m \in rollup => m \in raw
    BY <1>1 DEF RollupsAreFounded
  <2> QED
    BY <2>1, <2>2 DEF Rolled
<1>3. CASE ForgetSummaries
  BY <1>1, <1>3 DEF ForgetSummaries
<1>4. CASE rollup \subseteq rollup'
  BY <1>4
<1> QED
  BY <1>2, <1>3, <1>4
     DEF Next, Handler, RollupJob, RetentionJob, Tick, Validate, Ensure, Insert, InsertFails, Refuse,
         ServerRestarts, RollupStarts, RollupDies, RetentionStarts, Look, DropPartition,
         RetentionDies, tableVars, vars

(* Rollup rows are deleted only when they are older than summary_days: a     *)
(* bucket that is rolled up again still has its raw rows.                    *)
THEOREM RollupRowsAreKept == Spec => RollupsKept
<1>1. Init => RollupsAreFounded
  BY DEF Init, RollupsAreFounded
<1>2. Typed /\ MemoryInv /\ RollupsAreFounded /\ [Next]_vars => RollupsAreFounded'
  BY RollupsStayFounded
<1>3. Typed /\ RollupsAreFounded /\ [Next]_vars
        => [\A m \in rollup \ rollup' : m < now - SummaryDays * DayLength]_vars
  BY OnlyOldRollupsGo DEF SummaryCutoff
<1> QED
  BY <1>1, <1>2, <1>3, AlwaysTyped, MemoryIsTrue, PTL DEF Spec, RollupsKept
===============================================================================
