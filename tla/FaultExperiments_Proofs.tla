------------------------- MODULE FaultExperiments_Proofs -------------------------
(***************************************************************************)
(* Fault experiments, for any number of runs, any durations that meet      *)
(* TimingAssumption and any bound on the clock: the types, that a load is  *)
(* applied under an active row only, that loads do not overlap, that the   *)
(* outcome of an experiment is final, that the timestamps are in order and *)
(* cover the load, and that rows and loads implement SingleExperiment.     *)
(***************************************************************************)
EXTENDS FaultExperiments, TLAPS

CallsOf(r) == {c \in calls : c.run = r}

(* The unique index and the statements together: one active row at a time. *)
OneActiveRow == \A r, q \in Runs : status[r] \in Active /\ status[q] \in Active => r = q

(* A row is created by a single call, which comes before all others, and what *)
(* ends it is stamped.                                                        *)
CreatedOnce ==
  /\ \A r \in Runs : pc[r] = "idle" => CallsOf(r) = {} /\ status[r] = "none"
  /\ \A c, d \in calls : c.run = d.run /\ c.new = "baseline" /\ d.new = "baseline" => c = d
  /\ \A c \in calls : c.new = "baseline" => status[c.run] = "none"
  /\ \A r \in Runs : status[r] \in Terminal => stamp[r][TimestampColumn(status[r])] # Null

(* Until the load has ended a runner has at most the call it waits for under  *)
(* way, and is on schedule: each of the first two calls took ApiTimeout at    *)
(* most, so the fault phase ends before the row expires.                      *)
OnSchedule(r) ==
  /\ pc[r] = "idle" => CallsOf(r) = {} /\ load[r] = "none"
  /\ pc[r] = "creating" =>
       /\ \A c \in CallsOf(r) : c.step = "creating" /\ c.new = "baseline" /\ c.at = since[r]
       /\ since[r] = startedAt[r] /\ now <= since[r] + ApiTimeout
  /\ pc[r] = "baseline" =>
       /\ CallsOf(r) = {}
       /\ since[r] <= startedAt[r] + ApiTimeout /\ now <= since[r] + Baseline
  /\ pc[r] = "activating" =>
       /\ \A c \in CallsOf(r) : c.step = "activating" /\ c.new = "active" /\ c.at = since[r]
       /\ since[r] <= startedAt[r] + ApiTimeout + Baseline /\ now <= since[r] + ApiTimeout
  /\ pc[r] = "fault" => CallsOf(r) = {}
  /\ pc[r] = "fault" /\ r \notin Healthy /\ load[r] # "over" =>
       /\ status[r] = "active"
       /\ since[r] <= startedAt[r] + 2 * ApiTimeout + Baseline
       /\ now <= since[r] + Duration + ExecMargin
  /\ pc[r] \in {"creating", "baseline", "activating"} => load[r] = "none"
  /\ pc[r] \in {"baseline", "activating", "fault"} => expiresAt[r] = Expiry(startedAt[r])

(* The load has been asked for and may still start under kubectl's eyes. *)
MayStart(r) == load[r] = "starting" /\ now <= loadSince[r] + ExecMargin

(* A load that runs, or may start, is one that was asked for under an active *)
(* row, and will be over when the row expires; no call that could change the *)
(* row is left, although the runner may have been killed.                    *)
LoadIsCovered(r) ==
  /\ load[r] \in {"starting", "running"} =>
       r \notin Healthy /\ pc[r] \in {"fault", "stopped"} /\ CallsOf(r) = {}
  /\ load[r] = "running" \/ MayStart(r) => status[r] = "active"
  /\ load[r] = "starting" => loadSince[r] + ExecMargin + Duration <= expiresAt[r]
  /\ load[r] = "running" =>
       now <= loadSince[r] + Duration /\ loadSince[r] + Duration <= expiresAt[r]

RunsCovered == \A r \in Runs : OnSchedule(r) /\ LoadIsCovered(r)
-------------------------------------------------------------------------------
(* Types. *)

(* A PATCH stamps one of the columns, and follows an active status only. *)
LEMMA UpdateTables ==
  ASSUME NEW new \in Status \ {"none", "baseline"}
  PROVE  TimestampColumn(new) \in Column /\ AllowedPrevious(new) \subseteq Active
BY DEF Status, Active, Terminal, TimestampColumn, AllowedPrevious, Column

(* The clock, the deadlines and the expiry are numbers. *)
LEMMA Numbers ==
  /\ Baseline \in Nat /\ Duration \in Nat /\ Recovery \in Nat /\ Slack \in Nat
  /\ ApiTimeout \in Nat /\ ExecMargin \in Nat /\ MaxTime \in Nat
  /\ Time \subseteq Nat \ {0}
  /\ \A t \in Nat : Expiry(t) \in Nat
BY TimingAssumption, StoreAssumption DEF Time, Expiry

(* What the two statements of the store leave is of the right type. *)
LEMMA SweepKeepsTypes ==
  ASSUME StoreTypeOK
  PROVE  SweptStatus \in [Runs -> Status] /\ SweptStamp \in [Runs -> [Column -> Nat]]
<1> USE DEF StoreTypeOK
<1>1. SweptStatus \in [Runs -> Status]
  BY DEF SweptStatus, Status, Terminal
<1>2. ASSUME NEW r \in Runs PROVE [stamp[r] EXCEPT !["failed_at"] = now] \in [Column -> Nat]
  BY Numbers
<1>3. SweptStamp \in [Runs -> [Column -> Nat]]
  BY <1>2 DEF SweptStamp
<1> QED
  BY <1>1, <1>3

LEMMA CommitKeepsTypes ==
  ASSUME TypeOK, NEW c \in calls, Commit(c)
  PROVE  /\ status' \in [Runs -> Status]
         /\ stamp' \in [Runs -> [Column -> Nat]]
         /\ expiresAt' \in [Runs -> Nat]
<1>0. c.run \in Runs /\ c.new \in Status \ {"none"} /\ c.at \in Nat
  BY Numbers DEF TypeOK, Call
<1>1. StoreTypeOK
  BY DEF TypeOK
<1>2. CASE c.new = "baseline"
  <2>1. Create(c.run, c.at, Expiry(c.at))
    BY <1>2 DEF Commit
  <2>2. status' \in [Runs -> Status]
    BY <1>0, <1>1, <2>1, SweepKeepsTypes DEF Create, Status, Active
  <2>3. [SweptStamp[c.run] EXCEPT !["baseline_started_at"] = c.at] \in [Column -> Nat]
    BY <1>0, <1>1, SweepKeepsTypes
  <2>4. stamp' \in [Runs -> [Column -> Nat]]
    BY <1>0, <1>1, <2>1, <2>3, SweepKeepsTypes DEF Create
  <2>5. expiresAt' \in [Runs -> Nat]
    BY <1>0, <1>1, <2>1, Numbers DEF Create, StoreTypeOK
  <2> QED
    BY <2>2, <2>4, <2>5
<1>3. CASE c.new # "baseline"
  <2>1. Update(c.run, c.new, c.at)
    BY <1>3 DEF Commit
  <2>2. status' \in [Runs -> Status] /\ expiresAt' \in [Runs -> Nat]
    BY <1>0, <1>1, <2>1 DEF Update, StoreTypeOK
  <2>3. ASSUME NEW old \in Nat PROVE Coalesce(old, c.at) \in Nat
    BY <1>0, <2>3 DEF Coalesce
  <2>4. stamp' \in [Runs -> [Column -> Nat]]
    BY <1>0, <1>1, <2>1, <2>3 DEF Update, StoreTypeOK
  <2> QED
    BY <2>2, <2>4
<1> QED
  BY <1>2, <1>3

(* Sending a call and moving on keep the runner's types. *)
LEMMA SendKeepsTypes ==
  ASSUME TypeOK, NEW r \in Runs, NEW step \in Waiting, NEW new \in Status \ {"none"},
         NEW others, others \subseteq calls, Send(r, step, new, others)
  PROVE  pc' \in [Runs -> Step] /\ since' \in [Runs -> Time] /\ calls' \subseteq Call
<1>1. pc' \in [Runs -> Step] /\ since' \in [Runs -> Time]
  BY DEF Send, Goto, TypeOK, StoreTypeOK, Step
<1>2. [run |-> r, step |-> step, new |-> new, at |-> now] \in Call
  BY DEF Call, TypeOK, StoreTypeOK
<1>3. calls \subseteq Call
  BY DEF TypeOK
<1> QED
  BY <1>1, <1>2, <1>3 DEF Send

LEMMA GotoKeepsTypes ==
  ASSUME TypeOK, NEW r \in Runs, NEW step \in Step, Goto(r, step)
  PROVE  pc' \in [Runs -> Step] /\ since' \in [Runs -> Time]
BY DEF Goto, TypeOK, StoreTypeOK

LEMMA AbortKeepsTypes ==
  ASSUME TypeOK, NEW r \in Runs, NEW others, others \subseteq calls, Abort(r, others)
  PROVE  pc' \in [Runs -> Step] /\ since' \in [Runs -> Time] /\ calls' \subseteq Call
<1>1. AbortStatus(r) \in Status \ {"none"} /\ "aborting" \in Waiting
  BY DEF AbortStatus, Status, Active, Terminal, Waiting
<1> QED
  BY <1>1, SendKeepsTypes DEF Abort

LEMMA CallFailsKeepsTypes ==
  ASSUME TypeOK, NEW r \in Runs, NEW others, others \subseteq calls, CallFails(r, others)
  PROVE  pc' \in [Runs -> Step] /\ since' \in [Runs -> Time] /\ calls' \subseteq Call
<1>1. CASE pc[r] \in {"creating", "aborting"}
  <2>1. Goto(r, "stopped") /\ calls' \subseteq Call /\ "stopped" \in Step
    BY <1>1 DEF CallFails, TypeOK, Step
  <2> QED
    BY <2>1, GotoKeepsTypes
<1>2. CASE pc[r] \notin {"creating", "aborting"}
  BY <1>2, AbortKeepsTypes DEF CallFails
<1> QED
  BY <1>1, <1>2

LEMMA InitHasTypes == Init => TypeOK
<1> SUFFICES ASSUME Init PROVE TypeOK
  OBVIOUS
<1>1. 1 \in Time
  BY StoreAssumption DEF Time
<1>2. StoreTypeOK
  BY <1>1 DEF Init, StoreTypeOK, InitStore, Status, Null
<1> QED
  BY <1>1, <1>2 DEF Init, TypeOK, Step, Load, Active, Null

(* The steps of a runner. *)
LEMMA RunnersKeepTypes ==
  ASSUME TypeOK, NEW r \in Runs, RunnerStep(r) \/ Kill(r) PROVE TypeOK'
<1> USE DEF storeVars, loadVars
<1>0. now \in Nat /\ {"creating", "activating", "ending", "completing", "rejecting"} \subseteq Waiting
      /\ {"baseline", "active", "recovering", "completed", "recovery_failed"} \subseteq Status \ {"none"}
      /\ {"active", "recovering"} \subseteq Active
  BY Numbers DEF TypeOK, StoreTypeOK, Waiting, Status, Active, Terminal
<1>1. CASE Start(r)
  <2>1. Send(r, "creating", "baseline", calls)
    BY <1>1 DEF Start
  <2>2. pc' \in [Runs -> Step] /\ since' \in [Runs -> Time] /\ calls' \subseteq Call
    BY <1>0, <2>1, SendKeepsTypes
  <2> QED
    BY <1>0, <1>1, <2>2 DEF Start, TypeOK, StoreTypeOK
<1>2. CASE BaselineOver(r)
  <2>1. Send(r, "activating", "active", calls) \/ Abort(r, calls)
    BY <1>2 DEF BaselineOver
  <2>2. pc' \in [Runs -> Step] /\ since' \in [Runs -> Time] /\ calls' \subseteq Call
    BY <1>0, <2>1, SendKeepsTypes, AbortKeepsTypes
  <2> QED
    BY <1>0, <1>2, <2>2 DEF BaselineOver, TypeOK, StoreTypeOK
<1>3. CASE FaultOver(r)
  <2>1. Send(r, "ending", "recovering", calls)
    BY <1>3 DEF FaultOver
  <2>2. pc' \in [Runs -> Step] /\ since' \in [Runs -> Time] /\ calls' \subseteq Call
    BY <1>0, <2>1, SendKeepsTypes
  <2> QED
    BY <1>0, <1>3, <2>2 DEF FaultOver, TypeOK, StoreTypeOK
<1>4. CASE FaultFails(r)
  <2>1. Abort(r, calls)
    BY <1>4 DEF FaultFails
  <2>2. pc' \in [Runs -> Step] /\ since' \in [Runs -> Time] /\ calls' \subseteq Call
    BY <2>1, AbortKeepsTypes
  <2>3. load' \in [Runs -> Load]
    BY <1>4 DEF FaultFails, TypeOK, Load
  <2> QED
    BY <1>4, <2>2, <2>3 DEF FaultFails, TypeOK, StoreTypeOK
<1>5. CASE RecoveryOver(r)
  <2>1. \/ Send(r, "completing", "completed", calls)
        \/ Send(r, "rejecting", "recovery_failed", calls)
        \/ Abort(r, calls)
    BY <1>5 DEF RecoveryOver
  <2>2. pc' \in [Runs -> Step] /\ since' \in [Runs -> Time] /\ calls' \subseteq Call
    BY <1>0, <2>1, SendKeepsTypes, AbortKeepsTypes
  <2> QED
    BY <1>5, <2>2 DEF RecoveryOver, TypeOK, StoreTypeOK
<1>6. CASE GiveUp(r)
  <2>1. CallFails(r, calls)
    BY <1>6 DEF GiveUp
  <2>2. pc' \in [Runs -> Step] /\ since' \in [Runs -> Time] /\ calls' \subseteq Call
    BY <2>1, CallFailsKeepsTypes
  <2> QED
    BY <1>6, <2>2 DEF GiveUp, TypeOK, StoreTypeOK
<1>7. CASE Kill(r)
  <2>1. Goto(r, "stopped") /\ "stopped" \in Step
    BY <1>7 DEF Kill, Step
  <2>2. pc' \in [Runs -> Step] /\ since' \in [Runs -> Time]
    BY <2>1, GotoKeepsTypes
  <2> QED
    BY <1>7, <2>2 DEF Kill, TypeOK, StoreTypeOK
<1> QED
  BY <1>1, <1>2, <1>3, <1>4, <1>5, <1>6, <1>7 DEF RunnerStep

(* The load is asked for with the answer that starts the fault phase. *)
Launches(c) == Awaited(c) /\ c.step = "activating" /\ c.run \notin Healthy

LEMMA ExecuteMovesLoads ==
  ASSUME TypeOK, NEW c \in calls, Execute(c)
  PROVE  /\ load' \in [Runs -> Load] /\ loadSince' \in [Runs -> Nat]
         /\ \A q \in Runs \ {c.run} : load'[q] = load[q] /\ loadSince'[q] = loadSince[q]
         /\ IF Launches(c) THEN load'[c.run] = "starting" /\ loadSince'[c.run] = now
                           ELSE UNCHANGED loadVars
<1>0. /\ c.run \in Runs /\ now \in Nat
      /\ load \in [Runs -> Load] /\ loadSince \in [Runs -> Nat]
  BY Numbers DEF TypeOK, StoreTypeOK, Call
<1>1. CASE Launches(c)
  BY <1>0, <1>1 DEF Launches, Execute, Launch, Load
<1>2. CASE ~Launches(c)
  BY <1>0, <1>2 DEF Launches, Execute, loadVars
<1> QED
  BY <1>1, <1>2

(* The steps of the server and of the CronJob. *)
LEMMA ServerKeepsTypes ==
  ASSUME TypeOK, CronJob \/ \E c \in calls : Execute(c) \/ Fail(c) PROVE TypeOK'
<1> USE DEF storeVars, loadVars, runnerVars
<1>1. CASE CronJob
  BY <1>1, SweepKeepsTypes DEF CronJob, Sweep, TypeOK, StoreTypeOK
<1>2. ASSUME NEW c \in calls, Execute(c) PROVE TypeOK'
  <2>0. /\ c.run \in Runs /\ c.step \in Waiting /\ calls \ {c} \subseteq Call
        /\ load' \in [Runs -> Load] /\ loadSince' \in [Runs -> Nat]
    BY <1>2, ExecuteMovesLoads DEF TypeOK, Call
  <2>1. /\ status' \in [Runs -> Status] /\ stamp' \in [Runs -> [Column -> Nat]]
        /\ expiresAt' \in [Runs -> Nat]
    BY <1>2, CommitKeepsTypes DEF Execute
  <2>2. CASE ~Awaited(c)
    BY <1>2, <2>0, <2>1, <2>2 DEF Execute, TypeOK, StoreTypeOK
  <2>3. CASE Awaited(c) /\ c.step = "rejecting"
    <3>1. Abort(c.run, calls \ {c})
      BY <1>2, <2>3 DEF Execute
    <3>2. pc' \in [Runs -> Step] /\ since' \in [Runs -> Time] /\ calls' \subseteq Call
      BY <2>0, <3>1, AbortKeepsTypes
    <3> QED
      BY <1>2, <2>0, <2>1, <3>2 DEF Execute, TypeOK, StoreTypeOK
  <2>4. CASE Awaited(c) /\ c.step # "rejecting"
    <3>1. Goto(c.run, AfterSuccess(c.step)) /\ calls' = calls \ {c}
      BY <1>2, <2>4 DEF Execute
    <3>2. AfterSuccess(c.step) \in Step
      BY <2>0, <2>4 DEF AfterSuccess, Waiting, Step
    <3>3. pc' \in [Runs -> Step] /\ since' \in [Runs -> Time]
      BY <2>0, <3>1, <3>2, GotoKeepsTypes
    <3> QED
      BY <1>2, <2>0, <2>1, <3>1, <3>3 DEF Execute, TypeOK, StoreTypeOK
  <2> QED
    BY <2>2, <2>3, <2>4
<1>3. ASSUME NEW c \in calls, Fail(c) PROVE TypeOK'
  <2>1. c.run \in Runs /\ calls \ {c} \subseteq Call
    BY DEF TypeOK, Call
  <2>2. CASE Awaited(c)
    <3>1. pc' \in [Runs -> Step] /\ since' \in [Runs -> Time] /\ calls' \subseteq Call
      BY <1>3, <2>1, <2>2, CallFailsKeepsTypes DEF Fail
    <3> QED
      BY <1>3, <3>1 DEF Fail, TypeOK, StoreTypeOK
  <2>3. CASE ~Awaited(c)
    BY <1>3, <2>1, <2>3 DEF Fail, TypeOK, StoreTypeOK
  <2> QED
    BY <2>2, <2>3
<1> QED
  BY <1>1, <1>2, <1>3

(* In every reachable state every variable has its type. *)
THEOREM TypeCorrect == Spec => []TypeOK
<1>1. TypeOK /\ [Next]_vars => TypeOK'
  <2> SUFFICES ASSUME TypeOK, [Next]_vars PROVE TypeOK'
    OBVIOUS
  <2> USE DEF storeVars, loadVars, runnerVars
  <2>1. ASSUME NEW r \in Runs, LoadStarts(r) \/ LoadEnds(r) PROVE TypeOK'
    <3>1. load' \in [Runs -> Load]
      BY <2>1 DEF LoadStarts, LoadEnds, TypeOK, Load
    <3>2. loadSince' \in [Runs -> Nat]
      BY <2>1, Numbers DEF LoadStarts, LoadEnds, TypeOK, StoreTypeOK
    <3> QED
      BY <2>1, <3>1, <3>2 DEF LoadStarts, LoadEnds, TypeOK, StoreTypeOK
  <2>2. CASE Tick
    <3>1. now' \in Time
      BY <2>2, Numbers DEF Tick, TypeOK, StoreTypeOK, Time
    <3> QED
      BY <2>2, <3>1 DEF Tick, TypeOK, StoreTypeOK
  <2>3. CASE UNCHANGED vars
    BY <2>3 DEF vars, TypeOK, StoreTypeOK
  <2> QED
    BY <2>1, <2>2, <2>3, RunnersKeepTypes, ServerKeepsTypes DEF Next, Horizon
<1> QED
  BY <1>1, InitHasTypes, PTL DEF Spec

-------------------------------------------------------------------------------
(* What a step does to one row. *)

RowKept(r) ==
  status'[r] = status[r] /\ stamp'[r] = stamp[r] /\ expiresAt'[r] = expiresAt[r]

RowSwept(r) ==
  /\ Expired(r) /\ status'[r] = "failed" /\ expiresAt'[r] = expiresAt[r]
  /\ stamp'[r] = [stamp[r] EXCEPT !["failed_at"] = now] /\ stamp'[r]["failed_at"] = now

(* The sweep fails the rows that are active and expired, and keeps the others. *)
LEMMA SweepByRow ==
  ASSUME StoreTypeOK, NEW r \in Runs
  PROVE  \/ /\ Expired(r) /\ SweptStatus[r] = "failed" /\ SweptStamp[r]["failed_at"] = now
            /\ SweptStamp[r] = [stamp[r] EXCEPT !["failed_at"] = now]
         \/ SweptStatus[r] = status[r] /\ SweptStamp[r] = stamp[r]
<1>1. "failed_at" \in DOMAIN stamp[r]
  BY DEF StoreTypeOK, Column
<1> QED
  BY <1>1 DEF SweptStatus, SweptStamp, StoreTypeOK

LEMMA CronJobByRow ==
  ASSUME TypeOK, CronJob, NEW r \in Runs PROVE RowKept(r) \/ RowSwept(r)
BY SweepByRow DEF CronJob, Sweep, TypeOK, RowKept, RowSwept

(* A call writes the row of its run, and may sweep the others. *)
LEMMA CommitByRow ==
  ASSUME TypeOK, NEW c \in calls, Commit(c), NEW r \in Runs, r # c.run
  PROVE  RowKept(r) \/ RowSwept(r)
<1>0. StoreTypeOK /\ c.run \in Runs
  BY DEF TypeOK, Call
<1>1. CASE c.new = "baseline"
  <2>1. Create(c.run, c.at, Expiry(c.at))
    BY <1>1 DEF Commit
  <2>2. status'[r] = SweptStatus[r] /\ stamp'[r] = SweptStamp[r]
    BY <1>0, <2>1, SweepKeepsTypes DEF Create
  <2>3. expiresAt'[r] = expiresAt[r]
    BY <1>0, <2>1 DEF Create, StoreTypeOK
  <2> QED
    BY <1>0, <2>2, <2>3, SweepByRow DEF RowKept, RowSwept
<1>2. CASE c.new # "baseline"
  BY <1>0, <1>2 DEF Commit, Update, StoreTypeOK, RowKept
<1> QED
  BY <1>1, <1>2

LEMMA CreateWrites ==
  ASSUME TypeOK, NEW c \in calls, Commit(c), c.new = "baseline"
  PROVE  /\ status'[c.run] = "baseline" /\ expiresAt'[c.run] = Expiry(c.at)
         /\ \A q \in Runs \ {c.run} : status'[q] \notin Active
<1>0. StoreTypeOK /\ c.run \in Runs
  BY DEF TypeOK, Call
<1>1. Create(c.run, c.at, Expiry(c.at))
  BY DEF Commit
<1> QED
  BY <1>0, <1>1, SweepKeepsTypes DEF Create, MayCreate, StoreTypeOK

LEMMA UpdateWrites ==
  ASSUME TypeOK, NEW c \in calls, Commit(c), c.new # "baseline"
  PROVE  /\ status'[c.run] = c.new /\ expiresAt' = expiresAt
         /\ status[c.run] = c.new \/ status[c.run] \in Active
         /\ stamp'[c.run] = [stamp[c.run] EXCEPT ![TimestampColumn(c.new)] = Coalesce(@, c.at)]
         /\ c.at # Null /\ TimestampColumn(c.new) \in Column
<1>0. StoreTypeOK /\ c.run \in Runs /\ c.new \in Status \ {"none", "baseline"} /\ c.at # Null
  BY Numbers DEF TypeOK, Call, Null
<1>1. Update(c.run, c.new, c.at)
  BY DEF Commit
<1> QED
  BY <1>0, <1>1, UpdateTables DEF Update, MayUpdate, StoreTypeOK

(* The steps that execute no call and sweep nothing leave the rows alone. *)
LEMMA RowsUntouched ==
  ASSUME Next PROVE CronJob \/ (\E c \in calls : Execute(c)) \/ UNCHANGED storeVars
BY DEF Next, RunnerStep, Start, BaselineOver, FaultOver, FaultFails, RecoveryOver, GiveUp, Kill,
       LoadStarts, LoadEnds, Fail, Tick, Horizon, vars, storeVars

-------------------------------------------------------------------------------
(* One active row. *)

LEMMA StaysOneActiveRow == TypeOK /\ OneActiveRow /\ [Next]_vars => OneActiveRow'
<1> SUFFICES ASSUME TypeOK, OneActiveRow, [Next]_vars PROVE OneActiveRow'
  OBVIOUS
<1> USE DEF OneActiveRow
<1>1. CASE CronJob
  BY <1>1, CronJobByRow DEF RowKept, RowSwept, Active
<1>2. ASSUME NEW c \in calls, Execute(c) PROVE OneActiveRow'
  <2>0. Commit(c) /\ c.run \in Runs
    BY <1>2 DEF Execute, TypeOK, Call
  <2>1. CASE c.new = "baseline"
    BY <2>0, <2>1, CreateWrites
  <2>2. CASE c.new # "baseline"
    <3>1. status'[c.run] \in Active => status[c.run] \in Active
      BY <2>0, <2>2, UpdateWrites
    <3>2. \A q \in Runs \ {c.run} : status'[q] \in Active => status[q] \in Active
      BY <2>0, CommitByRow DEF RowKept, RowSwept, Active
    <3> QED
      BY <2>0, <3>1, <3>2
  <2> QED
    BY <2>1, <2>2
<1>3. CASE UNCHANGED storeVars
  BY <1>3 DEF storeVars
<1> QED
  BY <1>1, <1>2, <1>3, RowsUntouched DEF vars, storeVars

(* README.md: at most one experiment is active, by the rows. *)
THEOREM AtMostOneActive == Spec => []OneActiveRow
<1>1. Init => OneActiveRow
  BY DEF Init, InitStore, OneActiveRow, Active
<1> QED
  BY <1>1, StaysOneActiveRow, TypeCorrect, PTL DEF Spec

-------------------------------------------------------------------------------
(* Outcomes are final. *)

(* A runner leaves "idle" once, with the call that creates its row; it makes *)
(* no such call later.                                                       *)
OneNewCall(r) ==
  \E step \in Waiting, new \in Status \ {"none"} :
    LET c == [run |-> r, step |-> step, new |-> new, at |-> now] IN
    /\ calls' \subseteq calls \cup {c}
    /\ new = "baseline" => pc[r] = "idle"
    /\ pc' = [pc EXCEPT ![r] = step]

LEMMA SendIsOneNewCall ==
  ASSUME NEW r \in Runs, NEW step \in Waiting, NEW new \in Status \ {"none"},
         NEW others, others \subseteq calls, Send(r, step, new, others),
         new = "baseline" => pc[r] = "idle"
  PROVE  OneNewCall(r)
BY DEF Send, Goto, OneNewCall

LEMMA AbortIsOneNewCall ==
  ASSUME NEW r \in Runs, NEW others, others \subseteq calls, Abort(r, others)
  PROVE  OneNewCall(r)
<1>1. AbortStatus(r) \in Status \ {"none", "baseline"} /\ "aborting" \in Waiting
  BY DEF AbortStatus, Status, Active, Terminal, Waiting
<1> QED
  BY <1>1, SendIsOneNewCall DEF Abort

LEMMA CallsByStep ==
  ASSUME TypeOK, Next
  PROVE  \/ \E r \in Runs : OneNewCall(r)
         \/ /\ calls' \subseteq calls
            /\ \A r \in Runs : pc'[r] = "idle" => pc[r] = "idle"
<1> DEFINE NoNewCall == calls' \subseteq calls /\ \A r \in Runs : pc'[r] = "idle" => pc[r] = "idle"
<1>0. {"creating", "activating", "ending", "completing", "rejecting"} \subseteq Waiting
      /\ {"baseline", "active", "recovering", "completed", "recovery_failed"} \subseteq Status \ {"none"}
  BY DEF Waiting, Status, Active, Terminal
<1>1. ASSUME NEW r \in Runs, NEW step \in Step \ {"idle"}, Goto(r, step)
      PROVE  \A q \in Runs : pc'[q] = "idle" => pc[q] = "idle"
  BY <1>1 DEF Goto, TypeOK
<1>2. ASSUME NEW r \in Runs, NEW others, others \subseteq calls, CallFails(r, others)
      PROVE  NoNewCall \/ OneNewCall(r)
  <2>1. "stopped" \in Step \ {"idle"}
    BY DEF Step
  <2> QED
    BY <1>1, <1>2, <2>1, AbortIsOneNewCall DEF CallFails
<1>3. ASSUME NEW r \in Runs, RunnerStep(r) PROVE NoNewCall \/ OneNewCall(r)
  <2>1. CASE Start(r)
    BY <1>0, <2>1, SendIsOneNewCall DEF Start
  <2>2. CASE BaselineOver(r)
    BY <1>0, <2>2, SendIsOneNewCall, AbortIsOneNewCall DEF BaselineOver
  <2>3. CASE FaultOver(r)
    BY <1>0, <2>3, SendIsOneNewCall DEF FaultOver
  <2>4. CASE FaultFails(r)
    BY <2>4, AbortIsOneNewCall DEF FaultFails
  <2>5. CASE RecoveryOver(r)
    BY <1>0, <2>5, SendIsOneNewCall, AbortIsOneNewCall DEF RecoveryOver
  <2>6. CASE GiveUp(r)
    BY <1>2, <2>6 DEF GiveUp
  <2> QED
    BY <1>3, <2>1, <2>2, <2>3, <2>4, <2>5, <2>6 DEF RunnerStep
<1>4. ASSUME NEW r \in Runs, Kill(r) PROVE NoNewCall
  <2>1. Goto(r, "stopped") /\ "stopped" \in Step \ {"idle"} /\ UNCHANGED calls
    BY <1>4 DEF Kill, Step
  <2> QED
    BY <1>1, <2>1
<1>5. ASSUME NEW r \in Runs, LoadStarts(r) \/ LoadEnds(r) PROVE NoNewCall
  BY <1>5 DEF LoadStarts, LoadEnds, runnerVars
<1>6. ASSUME NEW c \in calls, Execute(c) PROVE NoNewCall \/ OneNewCall(c.run)
  <2>0. c.run \in Runs /\ c.step \in Waiting
    BY DEF TypeOK, Call
  <2>1. CASE ~Awaited(c)
    BY <1>6, <2>1 DEF Execute
  <2>2. CASE Awaited(c) /\ c.step = "rejecting"
    BY <1>6, <2>0, <2>2, AbortIsOneNewCall DEF Execute
  <2>3. CASE Awaited(c) /\ c.step # "rejecting"
    <3>1. AfterSuccess(c.step) \in Step \ {"idle"}
      BY <2>0, <2>3 DEF AfterSuccess, Waiting, Step
    <3> QED
      BY <1>1, <1>6, <2>0, <2>3, <3>1 DEF Execute
  <2> QED
    BY <2>1, <2>2, <2>3
<1>7. ASSUME NEW c \in calls, Fail(c) PROVE NoNewCall \/ OneNewCall(c.run)
  <2>0. c.run \in Runs
    BY DEF TypeOK, Call
  <2>1. CASE ~Awaited(c)
    BY <1>7, <2>1 DEF Fail
  <2>2. CASE Awaited(c)
    BY <1>2, <1>7, <2>0, <2>2 DEF Fail
  <2> QED
    BY <2>1, <2>2
<1>8. CASE CronJob \/ Tick \/ Horizon
  BY <1>8 DEF CronJob, Tick, Horizon, runnerVars, vars
<1>9. \A c \in calls : c.run \in Runs
  BY DEF TypeOK, Call
<1> QED
  BY <1>3, <1>4, <1>5, <1>6, <1>7, <1>8, <1>9 DEF Next

LEMMA ExecutedOnce ==
  ASSUME TypeOK, NEW c \in calls, Execute(c), c.new = "baseline" PROVE c \notin calls'
<1>1. CASE calls' = calls \ {c}
  BY <1>1
<1>2. CASE Abort(c.run, calls \ {c})
  <2>1. AbortStatus(c.run) # "baseline"
    BY DEF AbortStatus
  <2> QED
    BY <1>2, <2>1 DEF Abort, Send
<1> QED
  BY <1>1, <1>2 DEF Execute

LEMMA StaysCreatedOnce == TypeOK /\ CreatedOnce /\ [Next]_vars => CreatedOnce'
<1> SUFFICES ASSUME TypeOK, CreatedOnce, Next PROVE CreatedOnce'
  BY DEF vars, storeVars, runnerVars, CreatedOnce, CallsOf
<1>0. \A c \in calls : c.run \in Runs /\ c.new \in Status \ {"none"}
  BY DEF TypeOK, Call
<1>1. \A r \in Runs : pc'[r] = "idle" => pc[r] = "idle" /\ \A c \in calls' : c.run # r
  <2>1. ASSUME NEW r \in Runs, OneNewCall(r)
        PROVE  \A q \in Runs : pc'[q] = "idle" => pc[q] = "idle" /\ \A c \in calls' : c.run # q
    <3>1. PICK step \in Waiting, new \in Status \ {"none"} :
            /\ calls' \subseteq calls \cup {[run |-> r, step |-> step, new |-> new, at |-> now]}
            /\ pc' = [pc EXCEPT ![r] = step]
      BY <2>1 DEF OneNewCall
    <3>2. step # "idle"
      BY DEF Waiting
    <3> QED
      BY <3>1, <3>2 DEF TypeOK, CreatedOnce, CallsOf
  <2> QED
    BY <2>1, CallsByStep DEF CreatedOnce, CallsOf
<1>2. \A c \in calls' \ calls :
        c.run \in Runs /\ (c.new = "baseline" => pc[c.run] = "idle")
        /\ \A d \in calls' \ calls : c = d
  <2>1. ASSUME NEW r \in Runs, OneNewCall(r)
        PROVE  \A c \in calls' \ calls :
                 c.run \in Runs /\ (c.new = "baseline" => pc[c.run] = "idle")
                 /\ \A d \in calls' \ calls : c = d
    BY <2>1 DEF OneNewCall
  <2> QED
    BY <2>1, CallsByStep
<1>3. ASSUME NEW r \in Runs, status[r] = "none"
      PROVE  status'[r] = "none"
             \/ \E c \in calls : c.run = r /\ c.new = "baseline" /\ Execute(c)
  <2>1. CASE CronJob
    BY <1>3, <2>1, CronJobByRow DEF RowKept, RowSwept, Expired, Active
  <2>2. ASSUME NEW c \in calls, Execute(c), c.run = r, c.new # "baseline" PROVE FALSE
    BY <1>0, <1>3, <2>2, UpdateWrites DEF Execute, Active
  <2>3. ASSUME NEW c \in calls, Execute(c), c.run # r PROVE status'[r] = "none"
    BY <1>3, <2>3, CommitByRow DEF Execute, RowKept, RowSwept, Expired, Active
  <2>4. CASE UNCHANGED storeVars
    BY <1>3, <2>4 DEF storeVars
  <2> QED
    BY <2>1, <2>2, <2>3, <2>4, RowsUntouched
<1>4. \A r \in Runs : pc'[r] = "idle" => status'[r] = "none"
  BY <1>0, <1>1, <1>3 DEF CreatedOnce, CallsOf
<1>5. \A c, d \in calls' : c.run = d.run /\ c.new = "baseline" /\ d.new = "baseline" => c = d
  BY <1>0, <1>2 DEF CreatedOnce, CallsOf
<1>6. ASSUME NEW c \in calls', c.new = "baseline" PROVE status'[c.run] = "none"
  <2>1. c.run \in Runs /\ status[c.run] = "none"
    BY <1>0, <1>2, <1>6 DEF CreatedOnce
  <2>2. ASSUME NEW d \in calls, d.run = c.run, d.new = "baseline", Execute(d) PROVE FALSE
    <3>1. c \in calls => c = d
      BY <1>6, <2>2 DEF CreatedOnce
    <3>2. c \notin calls => pc[c.run] = "idle"
      BY <1>2, <1>6
    <3> QED
      BY <2>1, <2>2, <3>1, <3>2, ExecutedOnce DEF CreatedOnce, CallsOf
  <2> QED
    BY <1>3, <2>1, <2>2
<1>7. ASSUME NEW r \in Runs, status'[r] \in Terminal
      PROVE  stamp'[r][TimestampColumn(status'[r])] # Null
  <2>1. CASE RowKept(r)
    BY <1>7, <2>1 DEF RowKept, CreatedOnce
  <2>2. CASE RowSwept(r)
    BY <2>2, Numbers DEF RowSwept, TimestampColumn, TypeOK, StoreTypeOK, Null
  <2>3. ASSUME NEW c \in calls, c.run = r, Commit(c)
        PROVE  stamp'[r][TimestampColumn(status'[r])] # Null
    <3>1. c.new # "baseline"
      BY <1>7, <2>3, CreateWrites DEF Terminal
    <3>2. DOMAIN stamp[r] = Column
      BY DEF TypeOK, StoreTypeOK
    <3> QED
      BY <2>3, <3>1, <3>2, UpdateWrites DEF Coalesce
  <2>4. CASE UNCHANGED storeVars
    BY <2>1, <2>4 DEF storeVars, RowKept
  <2> QED
    BY <2>1, <2>2, <2>3, <2>4, RowsUntouched, CronJobByRow, CommitByRow DEF Execute
<1> QED
  BY <1>1, <1>4, <1>5, <1>6, <1>7 DEF CreatedOnce, CallsOf

LEMMA RowsCreatedOnce == Spec => []CreatedOnce
<1>1. Init => CreatedOnce
  BY DEF Init, InitStore, CreatedOnce, CallsOf, Terminal
<1> QED
  BY <1>1, StaysCreatedOnce, TypeCorrect, PTL DEF Spec

(* A row that has its outcome keeps it, whatever is executed later. *)
LEMMA FinishedRowKept ==
  ASSUME TypeOK, CreatedOnce, Next, NEW r \in Runs, status[r] \in Terminal
  PROVE  RowKept(r)
<1>0. status[r] \notin Active /\ status[r] # "none"
  BY DEF Terminal, Active
<1>1. RowKept(r) \/ RowSwept(r) => RowKept(r)
  BY <1>0 DEF RowSwept, Expired
<1>2. ASSUME NEW c \in calls, c.run = r, Commit(c) PROVE RowKept(r)
  <2>1. c.new # "baseline"
    BY <1>0, <1>2 DEF CreatedOnce
  <2>2. c.new = status[r] /\ stamp[r][TimestampColumn(c.new)] # Null
    BY <1>0, <1>2, <2>1, UpdateWrites DEF CreatedOnce
  <2>3. stamp[r] \in [Column -> Nat]
    BY DEF TypeOK, StoreTypeOK
  <2> QED
    BY <1>2, <2>1, <2>2, <2>3, UpdateWrites DEF Coalesce, RowKept
<1>3. CASE UNCHANGED storeVars
  BY <1>3 DEF storeVars, RowKept
<1> QED
  BY <1>1, <1>2, <1>3, RowsUntouched, CronJobByRow, CommitByRow DEF Execute

(* Once a row has its outcome, no late or repeated call, no sweep and no other *)
(* run's call changes it or moves its timestamps.                              *)
THEOREM FinishedStaysFinished == Spec => OutcomeIsFinal
<1>1. TypeOK /\ CreatedOnce /\ [Next]_vars =>
        \/ \A r \in Runs : status[r] \in Terminal => status'[r] = status[r] /\ stamp'[r] = stamp[r]
        \/ UNCHANGED vars
  BY FinishedRowKept DEF RowKept
<1> QED
  BY <1>1, TypeCorrect, RowsCreatedOnce, PTL DEF Spec, OutcomeIsFinal

-------------------------------------------------------------------------------
(* Loads are covered. *)

Covered(r) == OnSchedule(r) /\ LoadIsCovered(r)

(* Nothing that concerns run r moves, except that calls of its may go and its *)
(* row may be swept.                                                          *)
Untouched(r) ==
  /\ now' = now /\ pc'[r] = pc[r] /\ since'[r] = since[r] /\ startedAt'[r] = startedAt[r]
  /\ load'[r] = load[r] /\ loadSince'[r] = loadSince[r]
  /\ \A c \in calls' : c.run = r => c \in calls
  /\ RowKept(r) \/ RowSwept(r)

(* What run r has recorded and when, as numbers. *)
LEMMA TimesAreNumbers ==
  ASSUME TypeOK, NEW r \in Runs
  PROVE  /\ now \in Nat /\ since[r] \in Nat /\ startedAt[r] \in Nat
         /\ loadSince[r] \in Nat /\ expiresAt[r] \in Nat
BY Numbers DEF TypeOK, StoreTypeOK

(* A row is not swept while the load runs, nor while it may still start. *)
LEMMA UntouchedStaysCovered ==
  ASSUME TypeOK, NEW r \in Runs, Covered(r), Untouched(r) PROVE Covered(r)'
<1>0. \A c \in calls' : c.run = r => c \in calls
  BY DEF Untouched
<1>1. load[r] = "running" \/ MayStart(r) => RowKept(r)
  <2> SUFFICES ASSUME load[r] = "running" \/ MayStart(r) PROVE ~Expired(r)
    BY DEF Untouched, RowSwept
  <2>1. now <= expiresAt[r]
    BY TimesAreNumbers, Numbers, TimingAssumption DEF Covered, LoadIsCovered, MayStart
  <2> QED
    BY <2>1, TimesAreNumbers DEF Expired
<1>2. pc[r] = "fault" /\ r \notin Healthy /\ load[r] # "over" => RowKept(r)
  <2> SUFFICES ASSUME pc[r] = "fault", r \notin Healthy, load[r] # "over" PROVE ~Expired(r)
    BY DEF Untouched, RowSwept
  <2>1. /\ since[r] <= startedAt[r] + 2 * ApiTimeout + Baseline
        /\ now <= since[r] + Duration + ExecMargin
        /\ expiresAt[r] = startedAt[r] + Baseline + Duration + Recovery + Slack
    BY DEF Covered, OnSchedule, Expiry
  <2>2. now <= expiresAt[r]
    BY <2>1, TimesAreNumbers, Numbers, TimingAssumption
  <2> QED
    BY <2>2, TimesAreNumbers DEF Expired
<1>3. expiresAt'[r] = expiresAt[r]
  BY DEF Untouched, RowKept, RowSwept
<1>4. LoadIsCovered(r)'
  <2>1. MayStart(r)' => MayStart(r)
    BY DEF Untouched, MayStart
  <2> QED
    BY <1>0, <1>1, <1>3, <2>1 DEF Untouched, Covered, LoadIsCovered, CallsOf, RowKept
<1>5. OnSchedule(r)'
  BY <1>0, <1>2, <1>3 DEF Untouched, Covered, OnSchedule, CallsOf, RowKept, Expiry
<1> QED
  BY <1>4, <1>5 DEF Covered

(* Once the fault phase is over, or the experiment was given up, there is *)
(* nothing left to keep but that no load runs or may start under kubectl. *)
LEMMA NothingLeftToCover ==
  ASSUME NEW r \in Runs, load'[r] \notin {"starting", "running"},
         pc'[r] \notin {"idle", "creating", "baseline", "activating", "fault"}
  PROVE  Covered(r)'
BY DEF Covered, OnSchedule, LoadIsCovered, MayStart

(* A step of run q leaves the others alone. *)
LEMMA GotoMovesOne ==
  ASSUME TypeOK, NEW q \in Runs, NEW r \in Runs, r # q, NEW step, Goto(q, step)
  PROVE  pc'[r] = pc[r] /\ since'[r] = since[r]
BY DEF Goto, TypeOK, StoreTypeOK

LEMMA GotoMoves ==
  ASSUME TypeOK, NEW r \in Runs, NEW step, Goto(r, step)
  PROVE  pc'[r] = step /\ since'[r] = now
BY DEF Goto, TypeOK, StoreTypeOK

LEMMA AbortMoves ==
  ASSUME TypeOK, NEW r \in Runs, NEW others, others \subseteq calls,
         Abort(r, others) \/ CallFails(r, others)
  PROVE  /\ pc'[r] \in {"aborting", "stopped"}
         /\ \A q \in Runs \ {r} : pc'[q] = pc[q] /\ since'[q] = since[q]
         /\ \A c \in calls' : c.run # r => c \in calls
<1>1. CASE Abort(r, others)
  BY <1>1, GotoMoves, GotoMovesOne DEF Abort, Send
<1>2. CASE Goto(r, "stopped") /\ calls' = others
  BY <1>2, GotoMoves, GotoMovesOne
<1> QED
  BY <1>1, <1>2 DEF CallFails

LEMMA SendMoves ==
  ASSUME TypeOK, NEW r \in Runs, NEW step, NEW new, Send(r, step, new, calls)
  PROVE  /\ pc'[r] = step /\ since'[r] = now
         /\ calls' = calls \cup {[run |-> r, step |-> step, new |-> new, at |-> now]}
         /\ \A q \in Runs \ {r} : pc'[q] = pc[q] /\ since'[q] = since[q]
BY GotoMoves, GotoMovesOne DEF Send

(* The steps of run q, seen from another run. *)
LEMMA RunnersLeaveOthers ==
  ASSUME TypeOK, NEW q \in Runs, RunnerStep(q) \/ Kill(q) \/ LoadStarts(q) \/ LoadEnds(q),
         NEW r \in Runs, r # q
  PROVE  Untouched(r)
<1> USE DEF storeVars, loadVars, runnerVars, Untouched, RowKept
<1>0. /\ load \in [Runs -> Load]
      /\ loadSince \in [Runs -> Nat] /\ startedAt \in [Runs -> Nat]
  BY DEF TypeOK
<1>1. CASE Start(q)
  BY <1>0, <1>1, SendMoves DEF Start
<1>2. CASE BaselineOver(q)
  BY <1>2, SendMoves, AbortMoves DEF BaselineOver
<1>3. CASE FaultOver(q)
  BY <1>3, SendMoves DEF FaultOver
<1>4. CASE FaultFails(q)
  BY <1>0, <1>4, AbortMoves DEF FaultFails
<1>5. CASE RecoveryOver(q)
  BY <1>5, SendMoves, AbortMoves DEF RecoveryOver
<1>6. CASE GiveUp(q)
  BY <1>6, AbortMoves DEF GiveUp
<1>7. CASE Kill(q)
  BY <1>7, GotoMovesOne DEF Kill
<1>8. CASE LoadStarts(q) \/ LoadEnds(q)
  BY <1>0, <1>8 DEF LoadStarts, LoadEnds
<1> QED
  BY <1>1, <1>2, <1>3, <1>4, <1>5, <1>6, <1>7, <1>8 DEF RunnerStep

LEMMA CallsLeaveOthers ==
  ASSUME TypeOK, NEW c \in calls, Execute(c) \/ Fail(c), NEW r \in Runs, r # c.run
  PROVE  Untouched(r)
<1> USE DEF storeVars, loadVars, Untouched
<1>0. c.run \in Runs
  BY DEF TypeOK, Call
<1>1. CASE Execute(c)
  <2>1. RowKept(r) \/ RowSwept(r)
    BY <1>1, CommitByRow DEF Execute
  <2>2. pc'[r] = pc[r] /\ since'[r] = since[r] /\ \A d \in calls' : d.run = r => d \in calls
    BY <1>0, <1>1, AbortMoves, GotoMovesOne DEF Execute
  <2>3. load'[r] = load[r] /\ loadSince'[r] = loadSince[r]
    BY <1>1, ExecuteMovesLoads
  <2> QED
    BY <1>1, <2>1, <2>2, <2>3 DEF Execute
<1>2. CASE Fail(c)
  BY <1>0, <1>2, AbortMoves DEF Fail, RowKept
<1> QED
  BY <1>1, <1>2

(* The steps of run r itself. *)
LEMMA RunnersStayCovered ==
  ASSUME TypeOK, NEW r \in Runs, Covered(r), RunnerStep(r) \/ Kill(r) PROVE Covered(r)'
<1> USE DEF storeVars, loadVars, runnerVars
<1>0. load \in [Runs -> Load] /\ startedAt \in [Runs -> Nat]
  BY DEF TypeOK
<1>1. CASE Start(r)
  <2>1. /\ pc[r] = "idle" /\ startedAt'[r] = now /\ UNCHANGED <<load, now>>
        /\ Send(r, "creating", "baseline", calls)
    BY <1>0, <1>1 DEF Start
  <2>2. CallsOf(r) = {} /\ load'[r] = "none"
    BY <2>1 DEF Covered, OnSchedule
  <2>3. /\ pc'[r] = "creating" /\ since'[r] = now
        /\ calls' = calls \cup {[run |-> r, step |-> "creating", new |-> "baseline", at |-> now]}
    BY <2>1, SendMoves
  <2>4. \A c \in CallsOf(r)' : c.step = "creating" /\ c.new = "baseline" /\ c.at = now
    BY <2>2, <2>3 DEF CallsOf
  <2> QED
    BY <2>1, <2>2, <2>3, <2>4, TimesAreNumbers, Numbers DEF Covered, OnSchedule, LoadIsCovered, MayStart
<1>2. CASE BaselineOver(r)
  <2>1. pc[r] = "baseline" /\ UNCHANGED <<load, now, startedAt, expiresAt>> /\ load[r] = "none"
    BY <1>2 DEF BaselineOver, Covered, OnSchedule
  <2>2. CASE Abort(r, calls)
    BY <2>1, <2>2, AbortMoves, NothingLeftToCover
  <2>3. CASE Send(r, "activating", "active", calls)
    <3>1. /\ pc'[r] = "activating" /\ since'[r] = now
          /\ calls' = calls \cup {[run |-> r, step |-> "activating", new |-> "active", at |-> now]}
      BY <2>3, SendMoves
    <3>2. \A c \in CallsOf(r)' : c.step = "activating" /\ c.new = "active" /\ c.at = now
      BY <2>1, <3>1 DEF CallsOf, Covered, OnSchedule
    <3>3. since'[r] <= startedAt'[r] + ApiTimeout + Baseline /\ now' <= since'[r] + ApiTimeout
      BY <2>1, <3>1, TimesAreNumbers, Numbers DEF Covered, OnSchedule
    <3> QED
      BY <2>1, <3>1, <3>2, <3>3 DEF Covered, OnSchedule, LoadIsCovered, MayStart, Expiry
  <2> QED
    BY <1>2, <2>2, <2>3 DEF BaselineOver
<1>3. CASE FaultOver(r)
  <2>1. load'[r] \notin {"starting", "running"}
    BY <1>3 DEF FaultOver, FaultPhaseOver, Covered, LoadIsCovered
  <2>2. pc'[r] = "ending"
    BY <1>3, SendMoves DEF FaultOver
  <2> QED
    BY <2>1, <2>2, NothingLeftToCover
<1>4. CASE FaultFails(r)
  <2>1. load'[r] \notin {"starting", "running"}
    BY <1>0, <1>4 DEF FaultFails
  <2>2. pc'[r] \in {"aborting", "stopped"}
    BY <1>4, AbortMoves DEF FaultFails
  <2> QED
    BY <2>1, <2>2, NothingLeftToCover
<1>5. CASE RecoveryOver(r)
  <2>1. load'[r] \notin {"starting", "running"}
    BY <1>5 DEF RecoveryOver, Covered, LoadIsCovered
  <2>2. pc'[r] \in {"completing", "rejecting", "aborting", "stopped"}
    BY <1>5, SendMoves, AbortMoves DEF RecoveryOver
  <2> QED
    BY <2>1, <2>2, NothingLeftToCover
<1>6. CASE GiveUp(r)
  <2>1. load'[r] \notin {"starting", "running"}
    BY <1>6 DEF GiveUp, Waiting, Covered, LoadIsCovered
  <2>2. pc'[r] \in {"aborting", "stopped"}
    BY <1>6, AbortMoves DEF GiveUp
  <2> QED
    BY <2>1, <2>2, NothingLeftToCover
<1>7. CASE Kill(r)
  <2>1. pc'[r] = "stopped" /\ UNCHANGED <<load, loadSince, now, calls, status, expiresAt>>
    BY <1>7, GotoMoves DEF Kill
  <2> QED
    BY <2>1 DEF Covered, OnSchedule, LoadIsCovered, MayStart, CallsOf
<1> QED
  BY <1>1, <1>2, <1>3, <1>4, <1>5, <1>6, <1>7 DEF RunnerStep

(* The load starts early enough to be over when the row expires. *)
LEMMA LoadsStayCovered ==
  ASSUME TypeOK, NEW r \in Runs, Covered(r), LoadStarts(r) \/ LoadEnds(r) PROVE Covered(r)'
<1> USE DEF storeVars, runnerVars
<1>0. load \in [Runs -> Load] /\ loadSince \in [Runs -> Nat]
  BY DEF TypeOK
<1>1. CASE LoadStarts(r)
  <2>0. UNCHANGED <<now, status, stamp, expiresAt, pc, phase, since, startedAt, calls>>
    BY <1>1 DEF LoadStarts
  <2>1. CASE load[r] = "starting"
    <3>1. load'[r] = "running" /\ loadSince'[r] = now /\ MayStart(r)
      BY <1>0, <1>1, <2>1 DEF LoadStarts, MayStart
    <3>2. now + Duration <= expiresAt[r] /\ now <= now + Duration
      BY <2>1, <3>1, TimesAreNumbers, Numbers, TimingAssumption
         DEF Covered, LoadIsCovered, MayStart
    <3>3. LoadIsCovered(r)'
      BY <2>0, <2>1, <3>1, <3>2 DEF Covered, LoadIsCovered, MayStart, CallsOf
    <3>4. OnSchedule(r)'
      BY <2>0, <2>1, <3>1 DEF Covered, OnSchedule, LoadIsCovered, CallsOf, Expiry
    <3> QED
      BY <3>3, <3>4 DEF Covered
  <2>2. CASE load[r] = "abandoned"
    <3>1. load'[r] = "detached"
      BY <1>0, <1>1, <2>2 DEF LoadStarts
    <3> QED
      BY <2>0, <2>2, <3>1 DEF Covered, OnSchedule, LoadIsCovered, MayStart, CallsOf, Expiry
  <2> QED
    BY <1>1, <2>1, <2>2 DEF LoadStarts
<1>2. CASE LoadEnds(r)
  <2>1. /\ load[r] \in {"running", "detached"} /\ load'[r] = "over"
        /\ UNCHANGED <<now, status, stamp, expiresAt, pc, phase, since, startedAt, calls>>
    BY <1>0, <1>2 DEF LoadEnds
  <2> QED
    BY <2>1 DEF Covered, OnSchedule, LoadIsCovered, MayStart, CallsOf, Expiry
<1> QED
  BY <1>1, <1>2

(* A call that is executed, or comes to nothing, while the runner still waits *)
(* for it starts the next phase or ends the experiment; while a load may run  *)
(* there is none.                                                             *)
LEMMA CallsStayCovered ==
  ASSUME TypeOK, NEW c \in calls, Covered(c.run), Execute(c) \/ Fail(c) PROVE Covered(c.run)'
<1> DEFINE r == c.run
<1> USE DEF storeVars, loadVars
<1>0. r \in Runs /\ c \in CallsOf(r) /\ c.step \in Waiting /\ c.at \in Nat
  BY Numbers DEF TypeOK, Call, CallsOf
<1>1. pc[r] \notin {"idle", "baseline", "fault"} /\ load[r] \notin {"starting", "running"}
  BY <1>0 DEF Covered, OnSchedule, LoadIsCovered
<1>2. /\ UNCHANGED <<now, startedAt>>
      /\ ~(Execute(c) /\ Launches(c)) => load'[r] = load[r]
  BY ExecuteMovesLoads DEF Execute, Fail
<1>3. pc[r] \in {"creating", "activating"} => Awaited(c) /\ c.step = pc[r]
  BY <1>0 DEF Covered, OnSchedule, Awaited
<1>4. CASE pc'[r] \notin {"idle", "creating", "baseline", "activating", "fault"}
  <2>1. Execute(c) /\ Launches(c) => pc'[r] = "fault"
    BY <1>0, GotoMoves DEF Execute, Launches, AfterSuccess
  <2> QED
    BY <1>0, <1>1, <1>2, <1>4, <2>1, NothingLeftToCover
<1>5. CASE ~Awaited(c)
  <2>1. pc'[r] = pc[r] /\ pc[r] \notin {"creating", "activating"}
    BY <1>3, <1>5 DEF Execute, Fail
  <2> QED
    BY <1>1, <1>4, <2>1
<1>6. CASE Awaited(c) /\ (Fail(c) \/ c.step = "rejecting")
  <2>1. pc'[r] \in {"aborting", "stopped"}
    BY <1>0, <1>6, AbortMoves DEF Execute, Fail
  <2> QED
    BY <1>4, <2>1
<1>7. CASE Awaited(c) /\ Execute(c) /\ c.step # "rejecting"
  <2>1. /\ pc'[r] = AfterSuccess(c.step) /\ since'[r] = now
        /\ calls' = calls \ {c} /\ Commit(c) /\ c.step = pc[r] /\ c.at = since[r]
    BY <1>0, <1>7, GotoMoves DEF Execute, Awaited
  <2>2. CASE c.step \notin {"creating", "activating"}
    <3>1. pc'[r] \in {"recovery", "succeeded", "stopped"}
      BY <1>0, <1>7, <2>1, <2>2 DEF AfterSuccess, Waiting
    <3> QED
      BY <1>4, <3>1
  <2>3. ASSUME pc[r] \in {"creating", "activating"} PROVE CallsOf(r)' = {}
    <3>1. \A d \in CallsOf(r) : d.run = c.run /\ d.step = c.step /\ d.new = c.new /\ d.at = c.at
      BY <1>0, <2>3 DEF Covered, OnSchedule, CallsOf
    <3>2. \A d \in CallsOf(r) : d = c
      BY <3>1 DEF CallsOf, TypeOK, Call
    <3> QED
      BY <2>1, <3>2 DEF CallsOf
  <2>4. CASE c.step = "creating"
    <3>1. /\ c.new = "baseline" /\ c.at = startedAt[r] /\ now <= since[r] + ApiTimeout
          /\ load[r] = "none" /\ pc'[r] = "baseline"
      BY <1>0, <2>1, <2>4 DEF Covered, OnSchedule, AfterSuccess
    <3>2. expiresAt'[r] = Expiry(startedAt'[r])
      BY <1>2, <2>1, <3>1, CreateWrites
    <3>3. since'[r] <= startedAt'[r] + ApiTimeout /\ now' <= since'[r] + Baseline
      BY <1>0, <1>2, <2>1, <3>1, TimesAreNumbers, Numbers
    <3>4. load'[r] = "none"
      BY <1>2, <2>4, <3>1 DEF Launches
    <3> QED
      BY <1>2, <2>1, <2>3, <2>4, <3>1, <3>2, <3>3, <3>4
         DEF Covered, OnSchedule, LoadIsCovered, MayStart
  <2>5. CASE c.step = "activating"
    <3>1. /\ c.new = "active" /\ now <= since[r] + ApiTimeout
          /\ since[r] <= startedAt[r] + ApiTimeout + Baseline
          /\ expiresAt[r] = Expiry(startedAt[r]) /\ load[r] = "none" /\ pc'[r] = "fault"
      BY <1>0, <2>1, <2>5 DEF Covered, OnSchedule, AfterSuccess
    <3>2. status'[r] = "active" /\ expiresAt'[r] = Expiry(startedAt'[r])
      BY <1>2, <2>1, <3>1, UpdateWrites DEF Expiry
    <3>3. /\ since'[r] <= startedAt'[r] + 2 * ApiTimeout + Baseline
          /\ now' <= since'[r] + Duration + ExecMargin
      BY <1>0, <1>2, <2>1, <3>1, TimesAreNumbers, Numbers
    <3>4. \/ r \in Healthy /\ load'[r] = "none"
          \/ r \notin Healthy /\ load'[r] = "starting" /\ loadSince'[r] = now
      BY <1>2, <1>7, <2>5, <3>1, ExecuteMovesLoads DEF Launches
    <3>5. now + ExecMargin + Duration <= expiresAt'[r]
      BY <1>0, <1>2, <2>1, <3>1, <3>2, TimesAreNumbers, Numbers, TimingAssumption DEF Expiry
    <3>6. OnSchedule(r)'
      BY <1>2, <2>1, <2>3, <2>5, <3>1, <3>2, <3>3, <3>4 DEF OnSchedule
    <3>7. LoadIsCovered(r)'
      BY <2>3, <2>5, <2>1, <3>1, <3>2, <3>4, <3>5 DEF LoadIsCovered, MayStart
    <3> QED
      BY <3>6, <3>7 DEF Covered
  <2> QED
    BY <2>2, <2>4, <2>5
<1> QED
  BY <1>5, <1>6, <1>7

(* Time passes no deadline. *)
LEMMA TimeKeepsCovered ==
  ASSUME TypeOK, NEW r \in Runs, Covered(r), Tick PROVE Covered(r)'
<1>1. /\ now' = now + 1 /\ now < Deadline(r)
      /\ load[r] = "running" => now < loadSince[r] + Duration
      /\ UNCHANGED <<status, stamp, expiresAt, pc, since, startedAt, load, loadSince, calls>>
  BY DEF Tick, storeVars, runnerVars, loadVars
<1>2. now \in Nat /\ since[r] \in Nat /\ loadSince[r] \in Nat
  BY TimesAreNumbers
<1>3. pc[r] \in {"creating", "activating"} => now' <= since[r] + ApiTimeout
  BY <1>1, <1>2, Numbers DEF Deadline, Waiting
<1>4. pc[r] = "baseline" => now' <= since[r] + Baseline
  BY <1>1, <1>2, Numbers DEF Deadline, Waiting
<1>5. pc[r] = "fault" /\ r \notin Healthy => now' <= since[r] + Duration + ExecMargin
  BY <1>1, <1>2, Numbers DEF Deadline, Waiting
<1>6. load[r] = "running" => now' <= loadSince[r] + Duration
  BY <1>1, <1>2, Numbers
<1>7. MayStart(r)' => MayStart(r)
  BY <1>1, <1>2, Numbers, TimingAssumption DEF MayStart
<1> QED
  BY <1>1, <1>3, <1>4, <1>5, <1>6, <1>7
     DEF Covered, OnSchedule, LoadIsCovered, CallsOf, Expiry

LEMMA StaysCovered == TypeOK /\ RunsCovered /\ [Next]_vars => RunsCovered'
<1> SUFFICES ASSUME TypeOK, RunsCovered, [Next]_vars, NEW r \in Runs PROVE Covered(r)'
  BY DEF RunsCovered, Covered
<1>0. Covered(r) /\ \A c \in calls : c.run \in Runs
  BY DEF RunsCovered, Covered, TypeOK, Call
<1>1. ASSUME NEW q \in Runs, RunnerStep(q) \/ Kill(q) \/ LoadStarts(q) \/ LoadEnds(q)
      PROVE  Covered(r)'
  BY <1>0, <1>1, RunnersLeaveOthers, UntouchedStaysCovered, RunnersStayCovered, LoadsStayCovered
<1>2. ASSUME NEW c \in calls, Execute(c) \/ Fail(c) PROVE Covered(r)'
  BY <1>0, <1>2, CallsLeaveOthers, UntouchedStaysCovered, CallsStayCovered
<1>3. CASE CronJob
  <2>1. Untouched(r)
    BY <1>3, CronJobByRow DEF CronJob, Sweep, runnerVars, loadVars, Untouched
  <2> QED
    BY <1>0, <2>1, UntouchedStaysCovered
<1>4. CASE Tick
  BY <1>0, <1>4, TimeKeepsCovered
<1>5. CASE UNCHANGED vars
  <2>1. Untouched(r)
    BY <1>5 DEF vars, storeVars, runnerVars, loadVars, Untouched, RowKept
  <2> QED
    BY <1>0, <2>1, UntouchedStaysCovered
<1> QED
  BY <1>1, <1>2, <1>3, <1>4, <1>5 DEF Next, Horizon

LEMMA AlwaysCovered == Spec => []RunsCovered
<1>1. Init => RunsCovered
  BY DEF Init, RunsCovered, OnSchedule, LoadIsCovered, MayStart, CallsOf
<1> QED
  BY <1>1, StaysCovered, TypeCorrect, PTL DEF Spec

(* A load that kubectl watches runs under an active row, whatever the number  *)
(* of runs, the durations and the delays: a killed runner's load is over      *)
(* before the row can be swept, and no late call can change the row.          *)
THEOREM LoadsRunUnderActiveRows == Spec => []LoadUnderActiveRow
<1>1. RunsCovered => LoadUnderActiveRow
  BY DEF RunsCovered, LoadIsCovered, LoadUnderActiveRow
<1> QED
  BY <1>1, AlwaysCovered, PTL

(* So two loads that kubectl watches never overlap. *)
THEOREM LoadsDoNotOverlap == Spec => []OneLoadAtATime
<1>1. OneActiveRow /\ LoadUnderActiveRow => OneLoadAtATime
  BY DEF OneActiveRow, LoadUnderActiveRow, OneLoadAtATime, Active
<1> QED
  BY <1>1, AtMostOneActive, LoadsRunUnderActiveRows, PTL

-------------------------------------------------------------------------------
(* The refinement of SingleExperiment.  A step of the program changes rows or  *)
(* loads, never both; that no fault is on where a phase changes follows from   *)
(* LoadUnderActiveRow after the step.                                          *)

ExperimentStep == [Experiments!ExperimentNext]_(Experiments!experimentVars)

(* A row that is not active after a step that leaves the loads alone has no *)
(* load that kubectl watches.                                               *)
LEMMA NoFaultWhereRowsChange ==
  ASSUME TypeOK, LoadUnderActiveRow', UNCHANGED Watched, NEW r \in Runs, status'[r] # "active"
  PROVE  Watched[r] # "on"
<1>1. load'[r] # "running"
  BY DEF LoadUnderActiveRow
<1> QED
  BY <1>1 DEF Watched

(* The load that a call launches has not been on before, and is not on yet. *)
LEMMA ExecuteWatchesAlike ==
  ASSUME TypeOK, RunsCovered, NEW c \in calls, Execute(c) PROVE UNCHANGED Watched
<1>0. c.run \in Runs /\ OnSchedule(c.run)
  BY DEF TypeOK, Call, RunsCovered
<1>1. CASE Launches(c)
  <2>1. load[c.run] = "none" /\ load'[c.run] = "starting"
    BY <1>0, <1>1, ExecuteMovesLoads DEF Launches, Awaited, OnSchedule
  <2> QED
    BY <2>1, ExecuteMovesLoads DEF Watched
<1>2. CASE ~Launches(c)
  BY <1>2, ExecuteMovesLoads DEF loadVars, Watched
<1> QED
  BY <1>1, <1>2

LEMMA SweepCancels ==
  ASSUME TypeOK, OneActiveRow, LoadUnderActiveRow', CronJob
  PROVE  ExperimentStep
<1>0. UNCHANGED Watched
  BY DEF CronJob, loadVars, Watched
<1>1. PICK r \in Runs : Expired(r)
  BY DEF CronJob, Sweep
<1>2. status[r] \in Active /\ \A q \in Runs \ {r} : status[q] \notin Active
  BY <1>1 DEF Expired, OneActiveRow
<1>3. status' = [status EXCEPT ![r] = "failed"]
  <2>1. status' = SweptStatus
    BY DEF CronJob, Sweep
  <2> QED
    BY <1>1, <1>2, <2>1 DEF SweptStatus, Expired, TypeOK, StoreTypeOK
<1>4. Watched[r] # "on"
  BY <1>0, <1>3, NoFaultWhereRowsChange DEF TypeOK, StoreTypeOK
<1>5. Experiments!Cancel(r)
  BY <1>0, <1>2, <1>3, <1>4 DEF Experiments!Cancel, Experiments!Become, Experiments!Open, Active
<1> QED
  BY <1>5 DEF ExperimentStep, Experiments!ExperimentNext

LEMMA CreateAdmits ==
  ASSUME TypeOK, CreatedOnce, RunsCovered, LoadUnderActiveRow',
         NEW c \in calls, Execute(c), c.new = "baseline"
  PROVE  ExperimentStep
<1>0. UNCHANGED Watched /\ c.run \in Runs
  BY ExecuteWatchesAlike DEF TypeOK, Call
<1>1. Commit(c)
  BY DEF Execute
<1>2. status'[c.run] = "baseline" /\ \A q \in Runs \ {c.run} : status'[q] \notin Active
  BY <1>1, CreateWrites
<1>3. \A q \in Runs : Watched[q] # "on"
  BY <1>0, <1>2, NoFaultWhereRowsChange DEF Active
<1>4. \A q \in Runs \ {c.run} : status'[q] = IF status[q] \in Active THEN "failed" ELSE status[q]
  BY <1>1, <1>2, CommitByRow DEF RowKept, RowSwept, Expired
<1>5. status' \in [Runs -> Status]
  BY <1>1, CommitKeepsTypes DEF StoreTypeOK
<1>6. status' = [q \in Runs |-> IF q = c.run THEN "baseline"
                                ELSE IF status[q] \in Active THEN "failed" ELSE status[q]]
  BY <1>2, <1>4, <1>5
<1>7. Experiments!Admit(c.run)
  BY <1>0, <1>3, <1>6 DEF CreatedOnce, Experiments!Admit, Experiments!Open, Active
<1> QED
  BY <1>0, <1>7 DEF ExperimentStep, Experiments!ExperimentNext

(* A PATCH that repeats the status of its row changes no phase. *)
LEMMA UpdateAdvances ==
  ASSUME TypeOK, RunsCovered, LoadUnderActiveRow, LoadUnderActiveRow',
         NEW c \in calls, Execute(c), c.new # "baseline"
  PROVE  ExperimentStep
<1>0. UNCHANGED Watched /\ c.run \in Runs /\ c.new \in Status \ {"none", "baseline"}
  BY ExecuteWatchesAlike DEF TypeOK, Call
<1>1. Update(c.run, c.new, c.at)
  BY DEF Execute, Commit
<1>2. status' = [status EXCEPT ![c.run] = c.new] /\ status'[c.run] = c.new
  BY <1>0, <1>1 DEF Update, TypeOK, StoreTypeOK
<1>3. CASE status[c.run] = c.new
  BY <1>0, <1>2, <1>3 DEF ExperimentStep, Experiments!experimentVars, TypeOK, StoreTypeOK
<1>4. CASE status[c.run] # c.new
  <2>1. status[c.run] \in AllowedPrevious(c.new)
    BY <1>1, <1>4 DEF Update, MayUpdate
  <2>2. Experiments!Become(c.run, c.new) \/ c.new = "active"
    BY <1>0, <1>2, NoFaultWhereRowsChange DEF Experiments!Become
  <2>3. ASSUME c.new = "active" PROVE Experiments!Become(c.run, c.new)
    <3>1. load[c.run] # "running"
      BY <1>0, <1>4, <2>3 DEF LoadUnderActiveRow
    <3> QED
      BY <1>0, <1>2, <3>1 DEF Watched, Experiments!Become
  <2>4. Experiments!Advance(c.run) \/ Experiments!Cancel(c.run)
    BY <1>0, <2>1, <2>2, <2>3
       DEF AllowedPrevious, Experiments!Advance, Experiments!Cancel, Experiments!Open, Active,
           Terminal, Status
  <2> QED
    BY <1>0, <2>4 DEF ExperimentStep, Experiments!ExperimentNext
<1> QED
  BY <1>3, <1>4

(* The steps of loads, and those that touch neither rows nor loads. *)
LEMMA LoadsSwitchFaults ==
  ASSUME TypeOK, RunsCovered, LoadUnderActiveRow', UNCHANGED status,
         NEW r \in Runs, \/ LoadStarts(r) \/ LoadEnds(r) \/ FaultFails(r)
  PROVE  ExperimentStep
<1>0. /\ load \in [Runs -> Load]
      /\ Watched' = [q \in Runs |-> CASE load'[q] \in {"none", "starting"} -> "none"
                                      [] load'[q] = "running"              -> "on"
                                      [] OTHER                             -> "off"]
  BY DEF TypeOK, Watched
<1>1. CASE load[r] = "starting" /\ LoadStarts(r)
  <2>1. Watched[r] = "none" /\ Watched' = [Watched EXCEPT ![r] = "on"]
    BY <1>0, <1>1 DEF LoadStarts, Watched
  <2>2. status[r] = "active"
    BY <1>0, <1>1 DEF LoadStarts, LoadUnderActiveRow
  <2>3. Experiments!FaultOn(r)
    BY <2>1, <2>2 DEF Experiments!FaultOn
  <2> QED
    BY <2>3 DEF ExperimentStep, Experiments!ExperimentNext
<1>2. CASE load[r] = "running" /\ (LoadEnds(r) \/ FaultFails(r))
  <2>1. Watched[r] = "on" /\ Watched' = [Watched EXCEPT ![r] = "off"]
    BY <1>0, <1>2 DEF LoadEnds, FaultFails, Watched
  <2>2. Experiments!FaultOff(r)
    BY <2>1 DEF Experiments!FaultOff
  <2> QED
    BY <2>2 DEF ExperimentStep, Experiments!ExperimentNext
<1>3. CASE load[r] = "starting" /\ FaultFails(r)
  <2>1. Watched[r] = "none" /\ Watched' = [Watched EXCEPT ![r] = "off"]
    BY <1>0, <1>3 DEF FaultFails, Watched
  <2>2. status[r] = "active"
    BY <1>3 DEF FaultFails, RunsCovered, OnSchedule
  <2>3. Experiments!FaultForgone(r)
    BY <2>1, <2>2 DEF Experiments!FaultForgone
  <2> QED
    BY <2>3 DEF ExperimentStep, Experiments!ExperimentNext
<1>4. CASE \/ load[r] = "abandoned" /\ LoadStarts(r)
           \/ load[r] \notin {"starting", "running"} /\ (LoadEnds(r) \/ FaultFails(r))
  <2>1. UNCHANGED Watched
    BY <1>0, <1>4 DEF LoadStarts, LoadEnds, FaultFails, Watched
  <2> QED
    BY <2>1 DEF ExperimentStep, Experiments!experimentVars
<1> QED
  BY <1>1, <1>2, <1>3, <1>4 DEF LoadStarts, LoadEnds

(* README.md: one experiment is active at a time.  Runners, late calls, the   *)
(* sweep and the loads together do what SingleExperiment allows: phases in    *)
(* order, one experiment at a time, each fault inside its active phase.       *)
THEOREM ExperimentsImplementSingle == Spec => ImplementsSingle
<1>1. Init => Experiments!ExperimentInit
  BY DEF Init, InitStore, Experiments!ExperimentInit, Watched
<1>2. /\ TypeOK /\ OneActiveRow /\ CreatedOnce /\ RunsCovered
      /\ LoadUnderActiveRow /\ LoadUnderActiveRow' /\ [Next]_vars
      => ExperimentStep
  <2> SUFFICES ASSUME TypeOK, OneActiveRow, CreatedOnce, RunsCovered,
                      LoadUnderActiveRow, LoadUnderActiveRow', [Next]_vars
               PROVE  ExperimentStep
    OBVIOUS
  <2>1. ASSUME NEW c \in calls, Execute(c) PROVE ExperimentStep
    BY <2>1, CreateAdmits, UpdateAdvances
  <2>2. ASSUME NEW r \in Runs, LoadStarts(r) \/ LoadEnds(r) \/ FaultFails(r) PROVE ExperimentStep
    BY <2>2, LoadsSwitchFaults DEF LoadStarts, LoadEnds, FaultFails, storeVars
  <2>3. CASE UNCHANGED <<status, load>>
    BY <2>3 DEF ExperimentStep, Experiments!experimentVars, Watched
  <2>4. \/ CronJob \/ UNCHANGED <<status, load>>
        \/ \E c \in calls : Execute(c)
        \/ \E r \in Runs : LoadStarts(r) \/ LoadEnds(r) \/ FaultFails(r)
    BY DEF Next, RunnerStep, Start, BaselineOver, FaultOver, RecoveryOver, GiveUp, Kill, Fail,
           Tick, Horizon, vars, storeVars, loadVars
  <2> QED
    BY <2>1, <2>2, <2>3, <2>4, SweepCancels
<1> QED
  BY <1>1, <1>2, TypeCorrect, AtMostOneActive, RowsCreatedOnce, AlwaysCovered,
     LoadsRunUnderActiveRows, PTL
     DEF Spec, ImplementsSingle, Experiments!ExperimentSpec, ExperimentStep

-------------------------------------------------------------------------------
(* The timestamps.  They are in the order of the phases, the active phase they *)
(* tell covers the load, and a runner that reports success has recorded it.    *)

BaselineStart(r) == stamp[r]["baseline_started_at"]
ActiveStart(r)   == stamp[r]["active_started_at"]
ActiveEnd(r)     == stamp[r]["active_ended_at"]
RecoveryEnd(r)   == stamp[r]["recovery_completed_at"]

(* The row has the timestamps that its status promises, and they are in order. *)
RowInOrder(r) ==
  /\ status[r] # "none" => BaselineStart(r) = startedAt[r]
  /\ status[r] \in {"active", "recovering", "completed", "recovery_failed"} => ActiveStart(r) # Null
  /\ status[r] \in {"recovering", "completed", "recovery_failed"} => ActiveEnd(r) # Null
  /\ RecoveryEnd(r) # Null <=> status[r] \in {"completed", "recovery_failed"}
  /\ ActiveStart(r) # Null => startedAt[r] < ActiveStart(r)
  /\ ActiveEnd(r) # Null => ActiveStart(r) # Null /\ ActiveStart(r) < ActiveEnd(r)
  /\ RecoveryEnd(r) # Null => ActiveEnd(r) <= RecoveryEnd(r)
  /\ status[r] = "completed" => ActiveEnd(r) < RecoveryEnd(r)
  /\ ActiveStart(r) <= now /\ ActiveEnd(r) <= now

(* A call that records new may be executed at any time: what it would stamp  *)
(* is later than what its runner had recorded before it made the call.       *)
CallFits(r, new, at) ==
  /\ at <= now
  /\ new = "baseline" => at = startedAt[r]
  /\ new = "active" => startedAt[r] < at
  /\ new = "recovering" =>
       /\ ActiveStart(r) # Null /\ ActiveStart(r) < at
       /\ r \notin Healthy => load[r] = "over" /\ loadSince[r] + Duration <= at
  /\ new = "completed" => ActiveEnd(r) # Null /\ ActiveEnd(r) < at
  /\ new = "recovery_failed" => ActiveEnd(r) <= at

StepTells(step, new) ==
  /\ step = "creating" => new = "baseline"
  /\ step = "activating" => new = "active"
  /\ step = "ending" => new = "recovering"
  /\ step = "completing" => new = "completed"

CallsInOrder(r) ==
  /\ \A c \in CallsOf(r) : CallFits(r, c.new, c.at) /\ StepTells(c.step, c.new)
  /\ \A c, d \in CallsOf(r) : c.new = "recovering" /\ d.new = "recovery_failed" => c.at <= d.at

(* Where the runner is tells which timestamps there are already. *)
RunnerInOrder(r) ==
  /\ since[r] <= now
  /\ pc[r] = "idle" => ActiveStart(r) = Null /\ ActiveEnd(r) = Null
  /\ pc[r] # "idle" => startedAt[r] # Null /\ startedAt[r] <= since[r]
  /\ pc[r] = "fault" => ActiveStart(r) # Null /\ ActiveStart(r) <= since[r]
  /\ pc[r] = "recovery" => ActiveEnd(r) # Null /\ ActiveEnd(r) <= since[r]
  /\ pc[r] = "succeeded" => status[r] = "completed"

(* The load lies in the active phase of the row. *)
LoadInOrder(r) ==
  /\ load[r] # "none" => ActiveStart(r) # Null /\ ActiveStart(r) <= loadSince[r]
  /\ load[r] = "over" => loadSince[r] + Duration <= now
  /\ r \notin Healthy /\ ActiveEnd(r) # Null =>
       load[r] = "over" /\ loadSince[r] + Duration <= ActiveEnd(r)

InOrder(r) == RowInOrder(r) /\ CallsInOrder(r) /\ RunnerInOrder(r) /\ LoadInOrder(r)

AllInOrder == \A r \in Runs : InOrder(r)

-------------------------------------------------------------------------------
(* What does not concern a run. *)

LEMMA ColumnsAreNumbers ==
  ASSUME TypeOK, NEW r \in Runs
  PROVE  /\ ActiveStart(r) \in Nat /\ ActiveEnd(r) \in Nat /\ RecoveryEnd(r) \in Nat
         /\ BaselineStart(r) \in Nat
BY DEF TypeOK, StoreTypeOK, Column, ActiveStart, ActiveEnd, RecoveryEnd, BaselineStart

(* A sweep fails an active row and leaves its phases as they were. *)
LEMMA RowUntouched ==
  ASSUME TypeOK, NEW r \in Runs, RowKept(r) \/ RowSwept(r)
  PROVE  /\ BaselineStart(r)' = BaselineStart(r) /\ ActiveStart(r)' = ActiveStart(r)
         /\ ActiveEnd(r)' = ActiveEnd(r) /\ RecoveryEnd(r)' = RecoveryEnd(r)
         /\ \/ status'[r] = status[r]
            \/ status[r] \in Active /\ status'[r] = "failed"
<1> USE DEF BaselineStart, ActiveStart, ActiveEnd, RecoveryEnd
<1>1. CASE RowKept(r)
  BY <1>1 DEF RowKept
<1>2. CASE RowSwept(r)
  <2>1. stamp[r] \in [Column -> Nat]
    BY DEF TypeOK, StoreTypeOK
  <2>2. \A col \in Column \ {"failed_at"} : stamp'[r][col] = stamp[r][col]
    BY <1>2, <2>1 DEF RowSwept
  <2> QED
    BY <1>2, <2>2 DEF RowSwept, Expired, Column
<1> QED
  BY <1>1, <1>2

(* Call fits are about the row, the clock and the load only. *)
LEMMA FitsAlike ==
  ASSUME NEW r \in Runs, NEW new, NEW at, CallFits(r, new, at), now' = now,
         startedAt'[r] = startedAt[r], load'[r] = load[r], loadSince'[r] = loadSince[r],
         ActiveStart(r)' = ActiveStart(r), ActiveEnd(r)' = ActiveEnd(r)
  PROVE  CallFits(r, new, at)'
BY DEF CallFits

LEMMA UntouchedStaysInOrder ==
  ASSUME TypeOK, NEW r \in Runs, InOrder(r), Untouched(r) PROVE InOrder(r)'
<1>0. /\ BaselineStart(r)' = BaselineStart(r) /\ ActiveStart(r)' = ActiveStart(r)
      /\ ActiveEnd(r)' = ActiveEnd(r) /\ RecoveryEnd(r)' = RecoveryEnd(r)
      /\ \/ status'[r] = status[r]
         \/ status[r] \in Active /\ status'[r] = "failed"
  BY RowUntouched DEF Untouched
<1>1. /\ now' = now /\ pc'[r] = pc[r] /\ since'[r] = since[r] /\ startedAt'[r] = startedAt[r]
      /\ load'[r] = load[r] /\ loadSince'[r] = loadSince[r]
      /\ \A c \in CallsOf(r)' : c \in CallsOf(r)
  BY DEF Untouched, CallsOf
<1>2. RowInOrder(r)'
  BY <1>0, <1>1 DEF InOrder, RowInOrder, Active
<1>3. CallsInOrder(r)'
  <2>1. \A c \in CallsOf(r)' : CallFits(r, c.new, c.at)' /\ StepTells(c.step, c.new)
    BY <1>0, <1>1, FitsAlike DEF InOrder, CallsInOrder
  <2>2. \A c, d \in CallsOf(r)' : c.new = "recovering" /\ d.new = "recovery_failed" => c.at <= d.at
    BY <1>1 DEF InOrder, CallsInOrder
  <2> QED
    BY <2>1, <2>2 DEF CallsInOrder, StepTells
<1>4. RunnerInOrder(r)'
  BY <1>0, <1>1 DEF InOrder, RunnerInOrder, Active
<1>5. LoadInOrder(r)'
  BY <1>0, <1>1 DEF InOrder, LoadInOrder
<1> QED
  BY <1>2, <1>3, <1>4, <1>5 DEF InOrder

-------------------------------------------------------------------------------
(* New calls. *)

(* The calls under way fit the state that follows, too. *)
OldCallsFit(r) ==
  /\ \A c \in CallsOf(r) : CallFits(r, c.new, c.at)' /\ StepTells(c.step, c.new)
  /\ \A c, d \in CallsOf(r) : c.new = "recovering" /\ d.new = "recovery_failed" => c.at <= d.at

LEMMA NewCallFits ==
  ASSUME NEW r \in Runs, OldCallsFit(r), now' = now, NEW others, others \subseteq calls,
         NEW step, NEW new, Send(r, step, new, others),
         CallFits(r, new, now)', StepTells(step, new),
         new = "recovering" => \A c \in CallsOf(r) : c.new # "recovery_failed"
  PROVE  CallsInOrder(r)'
<1> DEFINE n == [run |-> r, step |-> step, new |-> new, at |-> now]
<1>1. \A c \in CallsOf(r)' : c \in CallsOf(r) \/ c = n
  BY DEF Send, CallsOf
<1>2. n.new = new /\ n.at = now /\ n.step = step
  OBVIOUS
<1>3. \A c \in CallsOf(r) : c.at <= now
  BY DEF OldCallsFit, CallFits
<1> HIDE DEF n
<1>4. \A c \in CallsOf(r)' : CallFits(r, c.new, c.at)' /\ StepTells(c.step, c.new)
  BY <1>1, <1>2 DEF OldCallsFit
<1>5. now <= now
  BY DEF CallFits
<1>6. \A c, d \in CallsOf(r)' : c.new = "recovering" /\ d.new = "recovery_failed" => c.at <= d.at
  BY <1>1, <1>2, <1>3, <1>5 DEF OldCallsFit
<1> QED
  BY <1>4, <1>6 DEF CallsInOrder, StepTells

LEMMA FewerCallsFit ==
  ASSUME NEW r \in Runs, OldCallsFit(r), calls' \subseteq calls PROVE CallsInOrder(r)'
<1>1. \A c \in CallsOf(r)' : c \in CallsOf(r)
  BY DEF CallsOf
<1> QED
  BY <1>1 DEF OldCallsFit, CallsInOrder, StepTells

(* The exception handler records nothing that could come too early. *)
LEMMA AbortFits ==
  ASSUME TypeOK, NEW r \in Runs, OldCallsFit(r), now' = now, ActiveEnd(r)' <= now,
         NEW others, others \subseteq calls, Abort(r, others) \/ CallFails(r, others)
  PROVE  CallsInOrder(r)' /\ pc'[r] \in {"aborting", "stopped"} /\ since'[r] = now
<1>1. CASE Abort(r, others)
  <2>1. PICK new \in {"recovery_failed", "failed"} : Send(r, "aborting", new, others)
    BY <1>1 DEF Abort, AbortStatus
  <2>2. CallFits(r, new, now)'
    BY <2>1, TimesAreNumbers DEF CallFits
  <2>3. CallsInOrder(r)'
    BY <2>1, <2>2, NewCallFits DEF StepTells
  <2> QED
    BY <2>1, <2>3, GotoMoves DEF Send
<1>2. CASE Goto(r, "stopped") /\ calls' = others
  BY <1>2, FewerCallsFit, GotoMoves
<1> QED
  BY <1>1, <1>2 DEF CallFails

-------------------------------------------------------------------------------
(* The steps of a runner. *)

LEMMA SameRow ==
  ASSUME NEW r \in Runs, InOrder(r), UNCHANGED <<now, storeVars, startedAt>>
  PROVE  RowInOrder(r)'
BY DEF InOrder, RowInOrder, storeVars, BaselineStart, ActiveStart, ActiveEnd, RecoveryEnd

LEMMA SameLoad ==
  ASSUME NEW r \in Runs, InOrder(r), UNCHANGED <<now, storeVars, loadVars>>
  PROVE  LoadInOrder(r)'
BY DEF InOrder, LoadInOrder, storeVars, loadVars, ActiveStart, ActiveEnd

LEMMA SameCallsFit ==
  ASSUME NEW r \in Runs, InOrder(r), UNCHANGED <<now, storeVars, startedAt, loadVars>>
  PROVE  OldCallsFit(r)
BY FitsAlike DEF InOrder, CallsInOrder, OldCallsFit, storeVars, loadVars, ActiveStart, ActiveEnd

(* A runner that waits, or has stopped, has nothing new to show. *)
LEMMA RunnerWaits ==
  ASSUME TypeOK, NEW r \in Runs, InOrder(r), pc[r] # "idle",
         UNCHANGED <<now, storeVars, startedAt>>,
         pc'[r] \in Waiting \cup {"stopped"}, since'[r] = now
  PROVE  RunnerInOrder(r)'
BY TimesAreNumbers DEF InOrder, RunnerInOrder, Waiting

LEMMA RunnersStayInOrder ==
  ASSUME TypeOK, NEW r \in Runs, Covered(r), CreatedOnce, InOrder(r), RunnerStep(r) \/ Kill(r)
  PROVE  InOrder(r)'
<1>0. /\ ActiveEnd(r) <= now /\ ActiveStart(r) \in Nat /\ ActiveEnd(r) \in Nat
      /\ now \in Nat /\ since[r] \in Nat /\ loadSince[r] \in Nat /\ startedAt[r] \in Nat
      /\ Baseline \in Nat \ {0} /\ Duration \in Nat \ {0} /\ Recovery \in Nat \ {0}
  BY ColumnsAreNumbers, TimesAreNumbers, TimingAssumption DEF InOrder, RowInOrder
<1>1. CASE Start(r)
  <2>1. /\ pc[r] = "idle" /\ startedAt'[r] = now /\ Send(r, "creating", "baseline", calls)
        /\ UNCHANGED <<now, storeVars, loadVars>>
    BY <1>1 DEF Start, TypeOK
  <2>2. CallsOf(r) = {} /\ status[r] = "none" /\ ActiveStart(r) = Null /\ ActiveEnd(r) = Null
    BY <2>1 DEF CreatedOnce, InOrder, RunnerInOrder
  <2>3. /\ ActiveStart(r)' = Null /\ ActiveEnd(r)' = Null /\ RecoveryEnd(r)' = RecoveryEnd(r)
        /\ status'[r] = "none" /\ now' = now
    BY <2>1, <2>2 DEF storeVars, ActiveStart, ActiveEnd, RecoveryEnd
  <2>4. RowInOrder(r)'
    BY <1>0, <2>2, <2>3 DEF InOrder, RowInOrder, Null
  <2>5. CallsInOrder(r)'
    <3>1. OldCallsFit(r)
      BY <2>2 DEF OldCallsFit
    <3>2. CallFits(r, "baseline", now)' /\ StepTells("creating", "baseline")
      BY <1>0, <2>1 DEF CallFits, StepTells
    <3> QED
      BY <2>1, <3>1, <3>2, NewCallFits
  <2>6. RunnerInOrder(r)'
    <3>1. pc'[r] = "creating" /\ since'[r] = now /\ now # Null
      BY <2>1, SendMoves, Numbers DEF TypeOK, StoreTypeOK, Null
    <3> QED
      BY <1>0, <2>1, <3>1 DEF RunnerInOrder
  <2>7. LoadInOrder(r)'
    BY <2>1, SameLoad
  <2> QED
    BY <2>4, <2>5, <2>6, <2>7 DEF InOrder
<1>2. ASSUME pc[r] # "idle", UNCHANGED <<now, storeVars, startedAt, loadVars>>,
             CallsInOrder(r)', pc'[r] \in Waiting \cup {"stopped"}, since'[r] = now
      PROVE  InOrder(r)'
  BY <1>2, SameRow, SameLoad, RunnerWaits DEF InOrder
<1>3. ASSUME UNCHANGED <<now, storeVars, startedAt, loadVars>>,
             Abort(r, calls) \/ CallFails(r, calls)
      PROVE  CallsInOrder(r)' /\ pc'[r] \in {"aborting", "stopped"} /\ since'[r] = now
  <2>1. ActiveEnd(r)' <= now /\ now' = now
    BY <1>0, <1>3 DEF storeVars, ActiveEnd
  <2> QED
    BY <1>3, <2>1, SameCallsFit, AbortFits
<1>4. ASSUME UNCHANGED <<now, storeVars, startedAt, loadVars>>,
             NEW step, NEW new, Send(r, step, new, calls),
             CallFits(r, new, now), StepTells(step, new),
             new = "recovering" => \A c \in CallsOf(r) : c.new # "recovery_failed"
      PROVE  CallsInOrder(r)' /\ pc'[r] = step /\ since'[r] = now
  <2>1. PICK at : at = now
    OBVIOUS
  <2>2. CallFits(r, new, at)'
    BY <1>4, <2>1, FitsAlike DEF storeVars, loadVars, ActiveStart, ActiveEnd
  <2>3. CallFits(r, new, now)'
    BY <1>4, <2>1, <2>2
  <2> QED
    BY <1>4, <2>3, SameCallsFit, NewCallFits, SendMoves
<1>5. CASE BaselineOver(r)
  <2>1. /\ pc[r] = "baseline" /\ now >= since[r] + Baseline
        /\ UNCHANGED <<now, storeVars, startedAt, loadVars>>
        /\ Abort(r, calls) \/ Send(r, "activating", "active", calls)
    BY <1>5 DEF BaselineOver
  <2>2. CallFits(r, "active", now)
    BY <1>0, <2>1 DEF InOrder, RunnerInOrder, CallFits
  <2> QED
    BY <1>2, <1>3, <1>4, <2>1, <2>2 DEF StepTells, Waiting
<1>6. CASE FaultOver(r)
  <2>1. /\ pc[r] = "fault" /\ FaultPhaseOver(r) /\ Send(r, "ending", "recovering", calls)
        /\ UNCHANGED <<now, storeVars, startedAt, loadVars>>
    BY <1>6 DEF FaultOver
  <2>2. CallsOf(r) = {}
    BY <2>1 DEF Covered, OnSchedule
  <2>3. ActiveStart(r) # Null /\ ActiveStart(r) < now
    BY <1>0, <2>1 DEF InOrder, RunnerInOrder, LoadInOrder, FaultPhaseOver
  <2>4. r \notin Healthy => load[r] = "over" /\ loadSince[r] + Duration <= now
    BY <2>1 DEF InOrder, LoadInOrder, FaultPhaseOver
  <2>5. CallFits(r, "recovering", now)
    BY <1>0, <2>3, <2>4 DEF CallFits
  <2> QED
    BY <1>2, <1>4, <2>1, <2>2, <2>5 DEF StepTells, Waiting
<1>7. CASE FaultFails(r)
  <2>1. /\ pc[r] = "fault" /\ Abort(r, calls) /\ UNCHANGED <<now, storeVars, startedAt, loadSince>>
        /\ \/ load'[r] = load[r]
           \/ load[r] \in {"starting", "running"} /\ load'[r] \in {"abandoned", "detached"}
    BY <1>7 DEF FaultFails, TypeOK
  <2>2. ActiveStart(r)' = ActiveStart(r) /\ ActiveEnd(r)' = ActiveEnd(r)
    BY <2>1 DEF storeVars, ActiveStart, ActiveEnd
  <2>3. CallsOf(r) = {}
    BY <2>1 DEF Covered, OnSchedule
  <2>4. CallsInOrder(r)' /\ pc'[r] \in {"aborting", "stopped"} /\ since'[r] = now
    <3>1. OldCallsFit(r)
      BY <2>3 DEF OldCallsFit
    <3> QED
      BY <1>0, <2>1, <2>2, <3>1, AbortFits
  <2>5. LoadInOrder(r)'
    BY <2>1, <2>2 DEF InOrder, LoadInOrder
  <2> QED
    BY <2>1, <2>4, <2>5, SameRow, RunnerWaits DEF InOrder, Waiting
<1>8. CASE RecoveryOver(r)
  <2>1. /\ pc[r] = "recovery" /\ now >= since[r] + Recovery
        /\ UNCHANGED <<now, storeVars, startedAt, loadVars>>
        /\ \/ Send(r, "completing", "completed", calls)
           \/ Send(r, "rejecting", "recovery_failed", calls)
           \/ Abort(r, calls)
    BY <1>8 DEF RecoveryOver
  <2>2. CallFits(r, "completed", now) /\ CallFits(r, "recovery_failed", now)
    BY <1>0, <2>1 DEF InOrder, RunnerInOrder, CallFits
  <2> QED
    BY <1>2, <1>3, <1>4, <2>1, <2>2 DEF StepTells, Waiting
<1>9. CASE GiveUp(r)
  <2>1. /\ pc[r] \in Waiting /\ CallFails(r, calls)
        /\ UNCHANGED <<now, storeVars, startedAt, loadVars>>
    BY <1>9 DEF GiveUp
  <2> QED
    BY <1>2, <1>3, <2>1 DEF Waiting
<1>10. CASE Kill(r)
  <2>1. /\ pc[r] # "idle" /\ Goto(r, "stopped") /\ UNCHANGED <<now, storeVars, startedAt, loadVars, calls>>
    BY <1>10 DEF Kill
  <2> QED
    BY <1>2, <2>1, SameCallsFit, FewerCallsFit, GotoMoves
<1> QED
  BY <1>1, <1>5, <1>6, <1>7, <1>8, <1>9, <1>10 DEF RunnerStep

-------------------------------------------------------------------------------
(* The calls. *)

(* What the execution of a call does to its own row. *)
LEMMA CreateStamps ==
  ASSUME TypeOK, CreatedOnce, NEW c \in calls, Commit(c), c.new = "baseline"
  PROVE  /\ status[c.run] = "none" /\ status'[c.run] = "baseline"
         /\ BaselineStart(c.run)' = c.at
         /\ ActiveStart(c.run)' = ActiveStart(c.run) /\ ActiveEnd(c.run)' = ActiveEnd(c.run)
         /\ RecoveryEnd(c.run)' = RecoveryEnd(c.run)
<1> DEFINE r == c.run
<1>0. StoreTypeOK /\ r \in Runs /\ status[r] = "none"
  BY DEF TypeOK, Call, CreatedOnce
<1>1. Create(r, c.at, Expiry(c.at))
  BY DEF Commit
<1>2. SweptStamp[r] = stamp[r] /\ SweptStamp \in [Runs -> [Column -> Nat]]
  BY <1>0, SweepByRow, SweepKeepsTypes DEF Expired, Active
<1>3. stamp'[r] = [stamp[r] EXCEPT !["baseline_started_at"] = c.at]
  BY <1>0, <1>1, <1>2 DEF Create
<1>4. stamp[r] \in [Column -> Nat]
  BY <1>0 DEF StoreTypeOK
<1>5. status'[r] = "baseline"
  BY CreateWrites
<1> QED
  BY <1>0, <1>3, <1>4, <1>5 DEF BaselineStart, ActiveStart, ActiveEnd, RecoveryEnd, Column

LEMMA UpdateStamps ==
  ASSUME TypeOK, NEW c \in calls, Commit(c), c.new # "baseline"
  PROVE  /\ status'[c.run] = c.new
         /\ status[c.run] = c.new \/ status[c.run] \in AllowedPrevious(c.new)
         /\ BaselineStart(c.run)' = BaselineStart(c.run)
         /\ ActiveStart(c.run)' = IF c.new = "active" THEN Coalesce(ActiveStart(c.run), c.at)
                                  ELSE ActiveStart(c.run)
         /\ ActiveEnd(c.run)' = IF c.new = "recovering" THEN Coalesce(ActiveEnd(c.run), c.at)
                                ELSE ActiveEnd(c.run)
         /\ RecoveryEnd(c.run)' = IF c.new \in {"completed", "recovery_failed"}
                                  THEN Coalesce(RecoveryEnd(c.run), c.at)
                                  ELSE RecoveryEnd(c.run)
<1> DEFINE r == c.run
<1>0. r \in Runs /\ c.new \in {"active", "recovering", "completed", "recovery_failed", "failed"}
  BY DEF TypeOK, Call, Status, Active, Terminal
<1>1. /\ status'[r] = c.new
      /\ stamp'[r] = [stamp[r] EXCEPT ![TimestampColumn(c.new)] = Coalesce(@, c.at)]
  BY UpdateWrites
<1>2. status[r] = c.new \/ status[r] \in AllowedPrevious(c.new)
  BY DEF Commit, Update, MayUpdate
<1>3. DOMAIN stamp[r] = Column
  BY <1>0 DEF TypeOK, StoreTypeOK
<1>4. \A col \in Column : stamp'[r][col] = IF col = TimestampColumn(c.new)
                                           THEN Coalesce(stamp[r][col], c.at) ELSE stamp[r][col]
  BY <1>1, <1>3
<1>5. /\ c.new = "active" => TimestampColumn(c.new) = "active_started_at"
      /\ c.new = "recovering" => TimestampColumn(c.new) = "active_ended_at"
      /\ c.new \in {"completed", "recovery_failed"} => TimestampColumn(c.new) = "recovery_completed_at"
      /\ c.new = "failed" => TimestampColumn(c.new) = "failed_at"
  BY DEF TimestampColumn
<1>6. {"baseline_started_at", "active_started_at", "active_ended_at", "recovery_completed_at"}
        \subseteq Column
  BY DEF Column
<1> QED
  BY <1>0, <1>1, <1>2, <1>4, <1>5, <1>6 DEF BaselineStart, ActiveStart, ActiveEnd, RecoveryEnd

(* A call leaves its run's load alone or launches it. *)
LoadKept(r)  == load'[r] = load[r] /\ loadSince'[r] = loadSince[r]
LoadAsked(r) == load[r] = "none" /\ load'[r] = "starting" /\ loadSince'[r] = now

(* Whenever a call is executed, what it stamps is in order with the rest. *)
LEMMA CommitInOrder ==
  ASSUME TypeOK, CreatedOnce, NEW c \in calls, InOrder(c.run), Commit(c),
         UNCHANGED <<now, startedAt>>, LoadKept(c.run) \/ (c.new = "active" /\ LoadAsked(c.run))
  PROVE  /\ RowInOrder(c.run)' /\ LoadInOrder(c.run)' /\ OldCallsFit(c.run)
         /\ status'[c.run] = c.new /\ (status[c.run] = "completed" => c.new = "completed")
         /\ ActiveStart(c.run) # Null => ActiveStart(c.run)' = ActiveStart(c.run)
         /\ ActiveEnd(c.run) # Null => ActiveEnd(c.run)' = ActiveEnd(c.run)
         /\ c.new = "active" => ActiveStart(c.run)' # Null
         /\ c.new = "recovering" => ActiveEnd(c.run)' # Null
<1> DEFINE r == c.run
<1>0. /\ r \in Runs /\ c \in CallsOf(r) /\ c.at \in Nat /\ c.at # Null
      /\ c.new \in {"baseline", "active", "recovering", "completed", "recovery_failed", "failed"}
  BY Numbers DEF TypeOK, Call, CallsOf, Status, Active, Terminal, Null
<1>1. CallFits(r, c.new, c.at)
  BY <1>0 DEF InOrder, CallsInOrder
<1>2. /\ ActiveStart(r) \in Nat /\ ActiveEnd(r) \in Nat /\ RecoveryEnd(r) \in Nat /\ now \in Nat
      /\ startedAt[r] \in Nat /\ loadSince[r] \in Nat /\ Duration \in Nat
  BY <1>0, ColumnsAreNumbers, TimesAreNumbers, Numbers
<1>3. /\ now' = now /\ startedAt'[r] = startedAt[r]
      /\ c.new # "active" => load'[r] = load[r] /\ loadSince'[r] = loadSince[r]
  BY DEF LoadKept
<1>4. ASSUME ActiveStart(r)' = ActiveStart(r), ActiveEnd(r)' = ActiveEnd(r), c.new # "active"
      PROVE  OldCallsFit(r) /\ LoadInOrder(r)'
  <2>1. OldCallsFit(r)
    BY <1>0, <1>3, <1>4, FitsAlike DEF InOrder, CallsInOrder, OldCallsFit
  <2>2. LoadInOrder(r)'
    BY <1>3, <1>4 DEF InOrder, LoadInOrder
  <2> QED
    BY <2>1, <2>2
<1>5. CASE c.new = "baseline"
  <2>1. /\ status[r] = "none" /\ status'[r] = "baseline" /\ BaselineStart(r)' = c.at
        /\ ActiveStart(r)' = ActiveStart(r) /\ ActiveEnd(r)' = ActiveEnd(r)
        /\ RecoveryEnd(r)' = RecoveryEnd(r)
    BY <1>5, CreateStamps
  <2>2. RowInOrder(r)'
    BY <1>1, <1>3, <1>5, <2>1 DEF InOrder, RowInOrder, CallFits
  <2> QED
    BY <1>4, <1>5, <2>1, <2>2
<1>6. CASE c.new = "active"
  <2>1. /\ status'[r] = "active" /\ status[r] \in {"baseline", "active"}
        /\ BaselineStart(r)' = BaselineStart(r) /\ ActiveEnd(r)' = ActiveEnd(r)
        /\ RecoveryEnd(r)' = RecoveryEnd(r)
        /\ ActiveStart(r)' = IF ActiveStart(r) = Null THEN c.at ELSE ActiveStart(r)
    BY <1>6, UpdateStamps DEF AllowedPrevious, Coalesce
  <2>2. RowInOrder(r)'
    BY <1>0, <1>1, <1>2, <1>3, <1>6, <2>1 DEF InOrder, RowInOrder, CallFits
  <2>3. \A d \in CallsOf(r) : CallFits(r, d.new, d.at)'
    BY <1>3, <2>1 DEF InOrder, CallsInOrder, CallFits, LoadKept, LoadAsked
  <2>4. LoadInOrder(r)'
    <3>1. CASE LoadKept(r)
      BY <1>3, <2>1, <3>1 DEF InOrder, LoadInOrder, LoadKept
    <3>2. CASE LoadAsked(r)
      BY <1>3, <2>1, <2>2, <3>2 DEF InOrder, RowInOrder, LoadInOrder, LoadAsked
    <3> QED
      BY <1>6, <3>1, <3>2
  <2> QED
    BY <1>0, <1>6, <2>1, <2>2, <2>3, <2>4 DEF InOrder, CallsInOrder, OldCallsFit
<1>7. CASE c.new = "recovering"
  <2>1. /\ status'[r] = "recovering" /\ status[r] \in {"active", "recovering"}
        /\ BaselineStart(r)' = BaselineStart(r) /\ ActiveStart(r)' = ActiveStart(r)
        /\ RecoveryEnd(r)' = RecoveryEnd(r)
        /\ ActiveEnd(r)' = IF ActiveEnd(r) = Null THEN c.at ELSE ActiveEnd(r)
    BY <1>7, UpdateStamps DEF AllowedPrevious, Coalesce
  <2>2. RowInOrder(r)'
    BY <1>0, <1>1, <1>2, <1>3, <1>7, <2>1 DEF InOrder, RowInOrder, CallFits
  <2>3. \A d \in CallsOf(r) : CallFits(r, d.new, d.at)'
    <3>1. \A d \in CallsOf(r) : d.new = "recovery_failed" => c.at <= d.at
      BY <1>0, <1>7 DEF InOrder, CallsInOrder
    <3> QED
      BY <1>3, <1>7, <2>1, <3>1 DEF InOrder, CallsInOrder, CallFits
  <2>4. LoadInOrder(r)'
    BY <1>1, <1>3, <1>7, <2>1 DEF InOrder, LoadInOrder, CallFits
  <2> QED
    BY <1>0, <1>7, <2>1, <2>2, <2>3, <2>4 DEF InOrder, CallsInOrder, OldCallsFit
<1>8. CASE c.new \in {"completed", "recovery_failed"}
  <2>1. /\ status'[r] = c.new /\ status[r] \in {c.new, "recovering"}
        /\ BaselineStart(r)' = BaselineStart(r) /\ ActiveStart(r)' = ActiveStart(r)
        /\ ActiveEnd(r)' = ActiveEnd(r)
        /\ RecoveryEnd(r)' = IF RecoveryEnd(r) = Null THEN c.at ELSE RecoveryEnd(r)
    BY <1>8, UpdateStamps DEF AllowedPrevious, Coalesce
  <2>2. RowInOrder(r)'
    BY <1>0, <1>1, <1>2, <1>3, <1>8, <2>1 DEF InOrder, RowInOrder, CallFits
  <2> QED
    BY <1>4, <1>8, <2>1, <2>2
<1>9. CASE c.new = "failed"
  <2>1. /\ status'[r] = "failed" /\ status[r] \in Active \cup {"failed"}
        /\ BaselineStart(r)' = BaselineStart(r) /\ ActiveStart(r)' = ActiveStart(r)
        /\ ActiveEnd(r)' = ActiveEnd(r) /\ RecoveryEnd(r)' = RecoveryEnd(r)
    BY <1>9, UpdateStamps DEF AllowedPrevious
  <2>2. RowInOrder(r)'
    BY <1>3, <2>1 DEF InOrder, RowInOrder, Active
  <2> QED
    BY <1>4, <1>9, <2>1, <2>2 DEF Active
<1> QED
  BY <1>0, <1>5, <1>6, <1>7, <1>8, <1>9

LEMMA CallsStayInOrder ==
  ASSUME TypeOK, CreatedOnce, NEW c \in calls, Covered(c.run), InOrder(c.run),
         Execute(c) \/ Fail(c)
  PROVE  InOrder(c.run)'
<1> DEFINE r == c.run
<1>0. /\ r \in Runs /\ c \in CallsOf(r) /\ c.step \in Waiting
      /\ since[r] \in Nat /\ startedAt[r] \in Nat /\ now \in Nat
  BY TimesAreNumbers DEF TypeOK, Call, CallsOf
<1>1. pc[r] # "idle" /\ StepTells(c.step, c.new) /\ ActiveEnd(r) <= now
  BY <1>0 DEF CreatedOnce, InOrder, CallsInOrder, RowInOrder
<1>2. CASE Fail(c)
  <2>1. UNCHANGED <<now, storeVars, startedAt, loadVars>>
    BY <1>2 DEF Fail
  <2>2. RowInOrder(r)' /\ LoadInOrder(r)' /\ OldCallsFit(r)
    BY <1>0, <2>1, SameRow, SameLoad, SameCallsFit
  <2>3. CASE Awaited(c)
    <3>1. CallFails(r, calls \ {c}) /\ ActiveEnd(r)' <= now
      BY <1>1, <1>2, <2>1, <2>3 DEF Fail, storeVars, ActiveEnd
    <3>2. CallsInOrder(r)' /\ pc'[r] \in {"aborting", "stopped"} /\ since'[r] = now
      BY <1>0, <2>1, <2>2, <3>1, AbortFits
    <3>3. RunnerInOrder(r)'
      BY <1>0, <1>1, <2>1, <3>2, RunnerWaits DEF Waiting
    <3> QED
      BY <2>2, <3>2, <3>3 DEF InOrder
  <2>4. CASE ~Awaited(c)
    <3>1. calls' = calls \ {c} /\ UNCHANGED <<pc, since>>
      BY <1>2, <2>4 DEF Fail
    <3>2. CallsInOrder(r)'
      BY <1>0, <2>2, <3>1, FewerCallsFit
    <3>3. RunnerInOrder(r)'
      BY <2>1, <3>1 DEF InOrder, RunnerInOrder, storeVars, ActiveStart, ActiveEnd
    <3> QED
      BY <2>2, <3>2, <3>3 DEF InOrder
  <2> QED
    BY <2>3, <2>4
<1>3. CASE Execute(c)
  <2>0. LoadKept(r) \/ (c.new = "active" /\ LoadAsked(r))
    <3>1. CASE Launches(c)
      <4>1. c.step = "activating" /\ pc[r] = "activating"
        BY <3>1 DEF Launches, Awaited
      <4>2. c.new = "active" /\ load[r] = "none"
        BY <1>0, <4>1 DEF Covered, OnSchedule
      <4>3. load'[r] = "starting" /\ loadSince'[r] = now
        BY <1>3, <3>1, ExecuteMovesLoads
      <4> QED
        BY <4>2, <4>3 DEF LoadAsked
    <3>2. CASE ~Launches(c)
      BY <1>3, <3>2, ExecuteMovesLoads DEF loadVars, LoadKept
    <3> QED
      BY <3>1, <3>2
  <2>1. Commit(c) /\ UNCHANGED <<now, startedAt>>
    BY <1>3 DEF Execute
  <2>2. /\ RowInOrder(r)' /\ LoadInOrder(r)' /\ OldCallsFit(r)
        /\ status'[r] = c.new /\ (status[r] = "completed" => c.new = "completed")
        /\ ActiveStart(r) # Null => ActiveStart(r)' = ActiveStart(r)
        /\ ActiveEnd(r) # Null => ActiveEnd(r)' = ActiveEnd(r)
        /\ c.new = "active" => ActiveStart(r)' # Null
        /\ c.new = "recovering" => ActiveEnd(r)' # Null
    BY <2>0, <2>1, CommitInOrder
  <2>3. ActiveStart(r)' <= now /\ ActiveEnd(r)' <= now
    BY <2>1, <2>2 DEF RowInOrder
  <2>4. startedAt'[r] = startedAt[r] /\ startedAt[r] # Null /\ startedAt[r] <= since[r] /\ since[r] <= now
    BY <1>1, <2>1 DEF InOrder, RunnerInOrder
  <2>5. CASE ~Awaited(c)
    <3>1. calls' = calls \ {c} /\ UNCHANGED <<pc, since>>
      BY <1>3, <2>5 DEF Execute
    <3>2. CallsInOrder(r)'
      BY <1>0, <2>2, <3>1, FewerCallsFit
    <3>3. RunnerInOrder(r)'
      BY <1>1, <2>1, <2>2, <2>4, <3>1 DEF InOrder, RunnerInOrder
    <3> QED
      BY <2>2, <3>2, <3>3 DEF InOrder
  <2>6. CASE Awaited(c) /\ c.step = "rejecting"
    <3>1. Abort(r, calls \ {c})
      BY <1>3, <2>6 DEF Execute
    <3>2. CallsInOrder(r)' /\ pc'[r] \in {"aborting", "stopped"} /\ since'[r] = now
      BY <1>0, <2>1, <2>2, <2>3, <3>1, AbortFits
    <3>3. RunnerInOrder(r)'
      BY <1>0, <2>1, <2>4, <3>2 DEF RunnerInOrder
    <3> QED
      BY <2>2, <3>2, <3>3 DEF InOrder
  <2>7. CASE Awaited(c) /\ c.step # "rejecting"
    <3>1. Goto(r, AfterSuccess(c.step)) /\ calls' = calls \ {c}
      BY <1>3, <2>7 DEF Execute
    <3>2. CallsInOrder(r)'
      BY <1>0, <2>2, <3>1, FewerCallsFit
    <3>3. pc'[r] = AfterSuccess(c.step) /\ since'[r] = now
      BY <1>0, <3>1, GotoMoves
    <3>4. \/ c.step = "creating"   /\ pc'[r] = "baseline"
          \/ c.step = "activating" /\ pc'[r] = "fault"
          \/ c.step = "ending"     /\ pc'[r] = "recovery"
          \/ c.step = "completing" /\ pc'[r] = "succeeded"
          \/ c.step = "aborting"   /\ pc'[r] = "stopped"
      BY <1>0, <2>7, <3>3 DEF AfterSuccess, Waiting
    <3>5. RunnerInOrder(r)'
      BY <1>0, <1>1, <2>1, <2>2, <2>3, <2>4, <3>3, <3>4 DEF RunnerInOrder, StepTells
    <3> QED
      BY <2>2, <3>2, <3>5 DEF InOrder
  <2> QED
    BY <2>5, <2>6, <2>7
<1> QED
  BY <1>2, <1>3

-------------------------------------------------------------------------------
(* The load and the clock. *)

LEMMA LoadsStayInOrder ==
  ASSUME TypeOK, NEW r \in Runs, InOrder(r), LoadStarts(r) \/ LoadEnds(r) PROVE InOrder(r)'
<1>0. /\ UNCHANGED <<now, storeVars, runnerVars, calls>>
      /\ \/ /\ load[r] \in {"starting", "abandoned"} /\ load'[r] \in {"running", "detached"}
            /\ loadSince'[r] = now
         \/ /\ load[r] \in {"running", "detached"} /\ load'[r] = "over"
            /\ loadSince'[r] = loadSince[r] /\ now >= loadSince[r] + Duration
  BY DEF LoadStarts, LoadEnds, TypeOK
<1>1. load[r] # "over" /\ ActiveStart(r)' = ActiveStart(r) /\ ActiveEnd(r)' = ActiveEnd(r)
  BY <1>0 DEF storeVars, ActiveStart, ActiveEnd
<1>2. now' = now /\ pc'[r] = pc[r] /\ since'[r] = since[r] /\ UNCHANGED startedAt
  BY <1>0 DEF runnerVars
<1>3. RowInOrder(r)'
  BY <1>0, <1>2, SameRow
<1>4. CallsInOrder(r)'
  <2>1. \A c \in CallsOf(r) : CallFits(r, c.new, c.at)'
    BY <1>1, <1>2, <1>0 DEF InOrder, CallsInOrder, CallFits
  <2> QED
    BY <1>0, <2>1, FewerCallsFit DEF InOrder, CallsInOrder, OldCallsFit
<1>5. RunnerInOrder(r)'
  BY <1>0, <1>1, <1>2 DEF InOrder, RunnerInOrder, storeVars
<1>6. LoadInOrder(r)'
  <2>1. ActiveStart(r) <= now
    BY DEF InOrder, RowInOrder
  <2>2. load'[r] # "none" => ActiveStart(r) # Null /\ ActiveStart(r) <= loadSince'[r]
    BY <1>0, <2>1 DEF InOrder, LoadInOrder
  <2> QED
    BY <1>0, <1>1, <1>2, <2>2 DEF InOrder, LoadInOrder
<1> QED
  BY <1>3, <1>4, <1>5, <1>6 DEF InOrder

LEMMA TimeKeepsOrder ==
  ASSUME TypeOK, NEW r \in Runs, InOrder(r), Tick PROVE InOrder(r)'
<1>0. /\ now' = now + 1 /\ now \in Nat /\ since[r] \in Nat /\ loadSince[r] \in Nat
      /\ ActiveStart(r) \in Nat /\ ActiveEnd(r) \in Nat /\ Duration \in Nat
      /\ UNCHANGED <<status, stamp, pc, since, startedAt, load, loadSince, calls>>
  BY TimesAreNumbers, ColumnsAreNumbers, Numbers DEF Tick, storeVars, runnerVars, loadVars
<1>1. /\ ActiveStart(r)' = ActiveStart(r) /\ ActiveEnd(r)' = ActiveEnd(r)
      /\ BaselineStart(r)' = BaselineStart(r) /\ RecoveryEnd(r)' = RecoveryEnd(r)
  BY <1>0 DEF BaselineStart, ActiveStart, ActiveEnd, RecoveryEnd
<1>2. RowInOrder(r)'
  BY <1>0, <1>1 DEF InOrder, RowInOrder
<1>3. CallsInOrder(r)'
  <2>1. \A c \in CallsOf(r) : c.at \in Nat
    BY Numbers DEF CallsOf, TypeOK, Call
  <2>2. \A c \in CallsOf(r) : CallFits(r, c.new, c.at)'
    BY <1>0, <1>1, <2>1 DEF InOrder, CallsInOrder, CallFits
  <2> QED
    BY <1>0, <2>2, FewerCallsFit DEF InOrder, CallsInOrder, OldCallsFit
<1>4. RunnerInOrder(r)'
  BY <1>0, <1>1 DEF InOrder, RunnerInOrder
<1>5. LoadInOrder(r)'
  BY <1>0, <1>1 DEF InOrder, LoadInOrder
<1> QED
  BY <1>2, <1>3, <1>4, <1>5 DEF InOrder

-------------------------------------------------------------------------------
(* The theorems. *)

LEMMA StaysInOrder == TypeOK /\ CreatedOnce /\ RunsCovered /\ AllInOrder /\ [Next]_vars => AllInOrder'
<1> SUFFICES ASSUME TypeOK, CreatedOnce, RunsCovered, AllInOrder, [Next]_vars, NEW r \in Runs
             PROVE  InOrder(r)'
  BY DEF AllInOrder
<1>0. InOrder(r) /\ Covered(r) /\ \A c \in calls : c.run \in Runs
  BY DEF AllInOrder, RunsCovered, Covered, TypeOK, Call
<1>1. ASSUME NEW q \in Runs, RunnerStep(q) \/ Kill(q) \/ LoadStarts(q) \/ LoadEnds(q)
      PROVE  InOrder(r)'
  BY <1>0, <1>1, RunnersLeaveOthers, UntouchedStaysInOrder, RunnersStayInOrder, LoadsStayInOrder
<1>2. ASSUME NEW c \in calls, Execute(c) \/ Fail(c) PROVE InOrder(r)'
  BY <1>0, <1>2, CallsLeaveOthers, UntouchedStaysInOrder, CallsStayInOrder
<1>3. CASE CronJob
  <2>1. Untouched(r)
    BY <1>3, CronJobByRow DEF CronJob, Sweep, runnerVars, loadVars, Untouched
  <2> QED
    BY <1>0, <2>1, UntouchedStaysInOrder
<1>4. CASE Tick
  BY <1>0, <1>4, TimeKeepsOrder
<1>5. CASE UNCHANGED vars
  <2>1. Untouched(r)
    BY <1>5 DEF vars, storeVars, runnerVars, loadVars, Untouched, RowKept
  <2> QED
    BY <1>0, <2>1, UntouchedStaysInOrder
<1> QED
  BY <1>1, <1>2, <1>3, <1>4, <1>5 DEF Next, Horizon

LEMMA AlwaysInOrder == Spec => []AllInOrder
<1>1. Init => AllInOrder
  <2> SUFFICES ASSUME Init, NEW r \in Runs PROVE InOrder(r)
    BY DEF AllInOrder
  <2>1. /\ now = 1 /\ status[r] = "none" /\ pc[r] = "idle" /\ since[r] = 1
        /\ load[r] = "none" /\ CallsOf(r) = {}
        /\ \A col \in Column : stamp[r][col] = Null
    BY DEF Init, InitStore, CallsOf
  <2>2. ActiveStart(r) = Null /\ ActiveEnd(r) = Null /\ RecoveryEnd(r) = Null
    BY <2>1 DEF Column, ActiveStart, ActiveEnd, RecoveryEnd
  <2> QED
    BY <2>1, <2>2 DEF InOrder, RowInOrder, CallsInOrder, RunnerInOrder, LoadInOrder, Null
<1> QED
  BY <1>1, StaysInOrder, TypeCorrect, RowsCreatedOnce, AlwaysCovered, PTL DEF Spec

(* A row whose features may be built has its phase timestamps, in order,    *)
(* however late each call of its runner was executed: a call carries a time *)
(* later than everything recorded before it was made.                       *)
THEOREM PhasesAlwaysOrdered == Spec => []PhasesOrdered
<1>1. TypeOK /\ CreatedOnce /\ AllInOrder => PhasesOrdered
  <2> SUFFICES ASSUME TypeOK, CreatedOnce, AllInOrder,
                      NEW r \in Runs, status[r] \in {"completed", "recovery_failed"}
               PROVE  /\ Null < BaselineStart(r) /\ BaselineStart(r) < ActiveStart(r)
                      /\ ActiveStart(r) < ActiveEnd(r) /\ ActiveEnd(r) <= RecoveryEnd(r)
                      /\ status[r] = "completed" => ActiveEnd(r) < RecoveryEnd(r)
    BY DEF PhasesOrdered, BaselineStart, ActiveStart, ActiveEnd, RecoveryEnd
  <2>1. RowInOrder(r) /\ RunnerInOrder(r) /\ pc[r] # "idle"
    BY DEF AllInOrder, InOrder, CreatedOnce
  <2>2. BaselineStart(r) = startedAt[r] /\ startedAt[r] # Null /\ startedAt[r] \in Nat
    BY <2>1, TimesAreNumbers DEF RowInOrder, RunnerInOrder
  <2> QED
    BY <2>1, <2>2 DEF RowInOrder, Null
<1> QED
  BY <1>1, AlwaysInOrder, TypeCorrect, RowsCreatedOnce, PTL

(* The active phase that a row tells contains the whole load, whoever       *)
(* stamped it and when: the labels of features.py cover the fault.          *)
THEOREM LabelsAlwaysCoverTheLoad == Spec => []LabelsCoverTheLoad
<1>1. AllInOrder => LabelsCoverTheLoad
  <2> SUFFICES ASSUME AllInOrder, NEW r \in Runs \ Healthy, ActiveEnd(r) # Null
               PROVE  /\ load[r] = "over" /\ ActiveStart(r) <= loadSince[r]
                      /\ loadSince[r] + Duration <= ActiveEnd(r)
    BY DEF LabelsCoverTheLoad, ActiveStart, ActiveEnd
  <2> QED
    BY DEF AllInOrder, InOrder, LoadInOrder
<1> QED
  BY <1>1, AlwaysInOrder, PTL

(* A runner that exits with success has recorded its experiment as completed, *)
(* and no later call or sweep has changed that.                               *)
THEOREM SuccessAlwaysRecorded == Spec => []SuccessIsRecorded
<1>1. AllInOrder => SuccessIsRecorded
  BY DEF AllInOrder, InOrder, RunnerInOrder, SuccessIsRecorded
<1> QED
  BY <1>1, AlwaysInOrder, PTL
===============================================================================
