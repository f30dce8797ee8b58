------------------------------- MODULE Retention ------------------------------
(***************************************************************************)
(* The life of raw telemetry in the database: ingestion into daily         *)
(* partitions, which the dashboard creates on demand and remembers         *)
(* (dashboard/database.py), one-minute rollups and the nightly retention   *)
(* (dashboard/maintenance.py).  The three run in processes of their own    *)
(* and share nothing but the tables.                                       *)
(*                                                                         *)
(* Telemetry is counted in minutes: a minute has been sampled and waits in *)
(* an agent's spool, or has raw rows, or has a rollup.                     *)
(***************************************************************************)
EXTENDS Integers, FiniteSets

CONSTANTS
  MaxTime,      \* bound on the clock, in minutes
  MaxRestarts,  \* bound on restarts of the dashboard
  DayLength,    \* minutes of a day
  RawDays,      \* raw_days, and MAX_SNAPSHOT_AGE in days
  SummaryDays,  \* summary_days
  Window        \* bucket_count: the minutes each rollup job looks at

Minute == 0..MaxTime

Day(m) == m \div DayLength

ASSUME RetentionAssumption ==
  /\ MaxTime \in Nat /\ MaxRestarts \in Nat
  /\ DayLength \in Nat \ {0} /\ RawDays \in Nat \ {0} /\ Window \in Nat \ {0}
  /\ SummaryDays \in Nat /\ SummaryDays >= RawDays
  /\ Window <= RawDays * DayLength

VARIABLES
  now,         \* the minute that is being sampled
  restarts,    \* how often the dashboard has been restarted
  spooled,     \* sampled minutes the agent has not delivered
  raw,         \* minutes with raw rows
  partitions,  \* days with a partition
  known,       \* _known_partitions of the dashboard process
  accepted,    \* the minute a handler has found valid, if any
  handling,    \* the minute it has ensured the partition of, if any
  rollup,      \* minutes with rollup rows
  rolling,     \* minutes the rollup job has still to do
  retiring,    \* the retention job is running
  scan,        \* listed partitions the retention job has still to look at
  doomed,      \* the partition it is about to drop, if any
  unrolled     \* history: minutes with raw rows and no rollup that were doomed

ingestVars == <<restarts, spooled, known, accepted, handling>>
tableVars  == <<raw, partitions, rollup, unrolled>>
retireVars == <<retiring, scan, doomed>>
vars       == <<now, ingestVars, tableVars, rolling, retireVars>>

Init ==
  /\ now = 0 /\ restarts = 0
  /\ spooled = {} /\ raw = {} /\ rollup = {} /\ unrolled = {}
  /\ partitions = {0} /\ known = {0} /\ accepted = {} /\ handling = {}
  /\ rolling = {}
  /\ retiring = FALSE /\ scan = {} /\ doomed = {}

(* The oldest minute that raw retention still covers. *)
RawCutoff == now - RawDays * DayLength

(* Mutant: MAX_SNAPSHOT_AGE is a day longer than raw retention. *)
FreshADayLonger(m) == m >= RawCutoff - DayLength

(* validate_infra_envelope(): the snapshot is not older than MAX_SNAPSHOT_AGE. *)
Fresh(m) == m >= RawCutoff

(* A minute passes, sampled or not.  No rollup job is so slow that the raw *)
(* rows it is about to read have reached the end of their retention.       *)
Tick ==
  /\ now < MaxTime
  /\ \A m \in rolling : m > RawCutoff
  /\ now' = now + 1
  /\ spooled' \in {spooled, spooled \cup {now}}
  /\ UNCHANGED <<restarts, known, accepted, handling, tableVars, rolling, retireVars>>

-------------------------------------------------------------------------------
(* Ingestion.  The agent sends the oldest minute first. *)

Oldest == {m \in spooled : \A other \in spooled : m <= other}

Idle == accepted = {} /\ handling = {}

(* The whole batch is validated before anything of it is stored. *)
Validate ==
  \E m \in Oldest :
    /\ Idle /\ Fresh(m)
    /\ accepted' = {m}
    /\ UNCHANGED <<now, restarts, spooled, known, handling, tableVars, rolling, retireVars>>

(* ensure_partition() is a transaction of its own, skipped if the process  *)
(* remembers the partition.  The snapshot's age is not looked at again.    *)
Ensure ==
  \E m \in accepted :
    /\ accepted' = {}
    /\ handling' = {m}
    /\ known' = known \cup {Day(m)}
    /\ partitions' = partitions \cup ({Day(m)} \ known)
    /\ UNCHANGED <<now, restarts, spooled, raw, rollup, unrolled, rolling, retireVars>>

(* The transaction of ingest_snapshot(). *)
Insert ==
  \E m \in handling :
    /\ Day(m) \in partitions
    /\ raw' = raw \cup {m}
    /\ spooled' = spooled \ {m}
    /\ handling' = {}
    /\ UNCHANGED <<now, restarts, known, accepted, partitions, rollup, unrolled, rolling, retireVars>>

(* There is no partition to insert into: 503, and the agent tries again. *)
InsertFails ==
  \E m \in handling :
    /\ Day(m) \notin partitions
    /\ handling' = {}
    /\ UNCHANGED <<now, restarts, spooled, known, accepted, tableVars, rolling, retireVars>>

(* Too old: 422, and the agent gives the snapshot up. *)
Refuse ==
  \E m \in Oldest :
    /\ Idle /\ ~Fresh(m)
    /\ spooled' = spooled \ {m}
    /\ UNCHANGED <<now, restarts, known, accepted, handling, tableVars, rolling, retireVars>>

(* open() of a new dashboard process makes sure of today's partition. *)
ServerRestarts ==
  /\ restarts < MaxRestarts
  /\ restarts' = restarts + 1
  /\ partitions' = partitions \cup {Day(now)}
  /\ known' = {Day(now)}
  /\ accepted' = {} /\ handling' = {}
  /\ UNCHANGED <<now, spooled, raw, rollup, unrolled, rolling, retireVars>>

-------------------------------------------------------------------------------
(* The rollup job: a process of its own, whose open() also makes sure of     *)
(* today's partition.                                                        *)

RollupStarts ==
  /\ rolling = {}
  /\ rolling' = {m \in Minute : now - Window <= m /\ m < now}
  /\ partitions' = partitions \cup {Day(now)}
  /\ UNCHANGED <<now, ingestVars, raw, rollup, unrolled, retireVars>>

(* The rows of the bucket are deleted, and written again if there is data. *)
Rolled(m) == IF m \in raw THEN rollup \cup {m} ELSE rollup \ {m}

(* Oldest bucket first, each in one transaction. *)
RollupBucket ==
  \E m \in rolling :
    /\ \A other \in rolling : m <= other
    /\ rollup' = Rolled(m)
    /\ rolling' = rolling \ {m}
    /\ UNCHANGED <<now, ingestVars, raw, partitions, unrolled, retireVars>>

RollupDies ==
  /\ rolling # {}
  /\ rolling' = {}
  /\ UNCHANGED <<now, ingestVars, tableVars, retireVars>>

-------------------------------------------------------------------------------
(* The retention job. *)

(* Mutant: the comparison is off by one. *)
OutOfRetentionADayEarly(d) == d <= Day(now) - RawDays

OutOfRetention(d) == d < Day(now) - RawDays

(* Partitions for today and tomorrow are created, then the old ones listed. *)
RetentionStarts ==
  /\ ~retiring
  /\ retiring' = TRUE
  /\ partitions' = partitions \cup {Day(now), Day(now) + 1}
  /\ scan' = {d \in partitions : OutOfRetention(d)}
  /\ UNCHANGED <<now, ingestVars, raw, rollup, unrolled, rolling, doomed>>

DayOf(S, d) == {m \in S : Day(m) = d}

MayDrop(d) == DayOf(raw, d) = {} \/ DayOf(rollup, d) # {}

(* Mutant: a partition stays on the list after it was dropped. *)
RemainingAll(d) == scan

Remaining(d) == scan \ {d}

(* The two queries of a partition's transaction.  They lock out no insert. *)
Look(d) ==
  /\ doomed = {}
  /\ d \in scan
  /\ scan' = Remaining(d)
  /\ IF MayDrop(d)
       THEN doomed' = {d} /\ unrolled' = unrolled \cup (DayOf(raw, d) \ rollup)
       ELSE UNCHANGED <<doomed, unrolled>>
  /\ UNCHANGED <<now, ingestVars, raw, partitions, rollup, rolling, retiring>>

DropPartition ==
  \E d \in doomed :
    /\ partitions' = partitions \ {d}
    /\ raw' = raw \ DayOf(raw, d)
    /\ doomed' = {}
    /\ UNCHANGED <<now, ingestVars, rollup, unrolled, rolling, retiring, scan>>

(* Mutant: rollups are deleted with the raw rows. *)
SummaryCutoffRaw == now - RawDays * DayLength

SummaryCutoff == now - SummaryDays * DayLength

(* The last transaction of the job. *)
ForgetSummaries ==
  /\ retiring /\ scan = {} /\ doomed = {}
  /\ rollup' = {m \in rollup : m >= SummaryCutoff}
  /\ retiring' = FALSE
  /\ UNCHANGED <<now, ingestVars, raw, partitions, unrolled, rolling, scan, doomed>>

RetentionDies ==
  /\ retiring
  /\ retiring' = FALSE /\ scan' = {} /\ doomed' = {}
  /\ UNCHANGED <<now, ingestVars, tableVars, rolling>>

-------------------------------------------------------------------------------
Handler == Validate \/ Ensure \/ Insert \/ InsertFails \/ Refuse

RollupJob == RollupStarts \/ RollupBucket \/ RollupDies

RetentionJob ==
  \/ RetentionStarts \/ (\E d \in partitions : Look(d)) \/ DropPartition
  \/ ForgetSummaries \/ RetentionDies

Next == Tick \/ Handler \/ ServerRestarts \/ RollupJob \/ RetentionJob

Spec == Init /\ [][Next]_vars

(* The agent sends its files again and again, and a handler goes on. *)
FairSpec == Spec /\ WF_vars(Handler)

-------------------------------------------------------------------------------
(* The type of the state; at most one minute is being handled and at most one *)
(* partition is about to be dropped, and only by a job that is running.       *)
TypeOK ==
  /\ now \in Minute /\ restarts \in 0..MaxRestarts
  /\ spooled \subseteq Minute /\ raw \subseteq Minute /\ rollup \subseteq Minute
  /\ unrolled \subseteq Minute /\ rolling \subseteq Minute
  /\ partitions \subseteq 0..(Day(MaxTime) + 1) /\ known \subseteq 0..Day(MaxTime)
  /\ accepted \subseteq spooled /\ Cardinality(accepted) <= 1
  /\ handling \subseteq spooled /\ Cardinality(handling) <= 1
  /\ accepted = {} \/ handling = {}
  /\ retiring \in BOOLEAN
  /\ scan \subseteq partitions /\ doomed \subseteq partitions /\ Cardinality(doomed) <= 1
  /\ retiring \/ (scan = {} /\ doomed = {})

(* What the dashboard remembers of partitions is true of every day that a   *)
(* snapshot may still be accepted for, although another process drops them: *)
(* ensure_partition() skips a partition that is missing only for a snapshot *)
(* that has grown too old since it was accepted.                            *)
CacheIsTrue ==
  \A d \in known : d >= Day(RawCutoff) => d \in partitions

(* Raw rows are deleted only when they are older than raw_days, whatever   *)
(* the retention job, late handlers and the passing of midnight do.        *)
RawKept ==
  [][\A m \in raw \ raw' : m < now - RawDays * DayLength]_vars

(* Rollup rows are deleted only when they are older than summary_days:     *)
(* a bucket that is rolled up again still has its raw rows.                *)
RollupsKept ==
  [][\A m \in rollup \ rollup' : m < now - SummaryDays * DayLength]_vars

(* A sampled minute is stored, or is too old before the agent reaches it:  *)
(* a partition that retention dropped never makes every insert fail.       *)
MinutesAreStored ==
  \A m \in Minute : (m \in spooled) ~> (m \in raw \/ ~Fresh(m))

(* What the integration test of retention says in its name: "retention     *)
(* waits for a rollup before dropping old raw data".                       *)
RetentionWaitsForRollup == unrolled = {}

===============================================================================
