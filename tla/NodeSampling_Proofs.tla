--------------------------- MODULE NodeSampling_Proofs ---------------------------
(***************************************************************************)
(* For any host, any number of events and any order of them: the counters  *)
(* of TCP are reported exactly once in each life of the agent, no process  *)
(* is charged with more CPU time than it has used, the transfers of the    *)
(* devices are never counted twice, and the utilization is the true one    *)
(* although it is worked out in unsigned arithmetic that wraps around.     *)
(***************************************************************************)
EXTENDS NodeSampling, Sums_Proofs

(* The types that the arguments below rest on. *)
Shape ==
  /\ up \in BOOLEAN
  /\ segments \in Nat /\ timeouts \in Nat
  /\ task \in [Pid -> 0..MaxTasks] /\ ticks \in [Task -> Nat]
  /\ erased \in Nat /\ started.segments \in Nat /\ started.timeouts \in Nat
  /\ previous.segments \in Nat /\ previous.timeouts \in Nat /\ last.segments \in Nat
  /\ counted["segments"] \in Int /\ counted["timeouts"] \in Int

(* The samples of a running agent do not run ahead of the kernel. *)
SamplesBehind ==
  up => /\ previous.segments <= segments /\ previous.segments = last.segments
        /\ previous.timeouts <= timeouts

(* What a process has been charged with is covered by the sample from which *)
(* the next charge is measured, if it is in there; it is nothing if that    *)
(* sample is of another process with the same pid.                          *)
ChargesCovered ==
  /\ charged \in [Task -> Nat] /\ ChargedWithinLife
  /\ up => /\ \A p \in DOMAIN previous.ticks : previous.ticks[p] \in Nat
           /\ \A p \in Live \cap DOMAIN previous.ticks :
                charged[task[p]] = 0 \/ charged[task[p]] <= previous.ticks[p]

-------------------------------------------------------------------------------
(* The counters of TCP. *)

LEMMA StaysShape == Shape /\ [Next]_vars => Shape'
<1> SUFFICES ASSUME Shape, [Next]_vars PROVE Shape'
  OBVIOUS
<1> USE DEF Shape
<1>1. CASE Host
  <2>1. UNCHANGED <<up, previous, last, started, erased, counted>>
    BY <1>1 DEF Host, TimePasses, IowaitStepsBack, TcpCounts, Transfer, Detach, Attach, Starts,
                Runs, Ends, FileFails, FileRecovers, agentVars, historyVars
  <2>2. segments' \in Nat /\ timeouts' \in Nat
    BY <1>1 DEF Host, TimePasses, IowaitStepsBack, TcpCounts, Transfer, Detach, Attach, Starts,
                Runs, Ends, FileFails, FileRecovers
  <2>3. task' \in [Pid -> 0..MaxTasks] /\ ticks' \in [Task -> Nat]
    <3>1. ASSUME NEW p \in Pid, NEW t \in Task, Starts(p, t)
          PROVE  task' \in [Pid -> 0..MaxTasks] /\ UNCHANGED ticks
      BY <3>1, NodeAssumption DEF Starts, Task
    <3>2. ASSUME NEW p \in Pid, Runs(p) PROVE UNCHANGED task /\ ticks' \in [Task -> Nat]
      BY <3>2 DEF Runs, Live, Task
    <3>3. ASSUME NEW p \in Pid, Ends(p) PROVE task' \in [Pid -> 0..MaxTasks] /\ UNCHANGED ticks
      BY <3>3, NodeAssumption DEF Ends
    <3>4. \/ UNCHANGED <<task, ticks>>
          \/ \E p \in Pid : (\E t \in Task : Starts(p, t)) \/ Runs(p) \/ Ends(p)
      BY <1>1 DEF Host, TimePasses, IowaitStepsBack, TcpCounts, Transfer, Detach, Attach,
                  FileFails, FileRecovers
    <3> QED
      BY <3>1, <3>2, <3>3, <3>4
  <2> QED
    BY <2>1, <2>2, <2>3
<1>2. CASE Start
  <2>1. PICK skipped : previous' = Sample(skipped)
    BY <1>2 DEF Start
  <2>2. previous'.segments \in Nat /\ previous'.timeouts \in Nat
    BY <2>1 DEF Sample, ReadSnmp, ReadNetstat
  <2>3. counted'["segments"] = 0 /\ counted'["timeouts"] = 0
    BY <1>2 DEF Start, Counted
  <2> QED
    BY <1>2, <2>2, <2>3 DEF Start, kernelVars, Truth
<1>3. CASE Collect
  <2>1. PICK skipped : /\ previous' = Sample(skipped)
                       /\ counted' = [m \in Counted |->
                                        counted[m] + Report(previous, Sample(skipped))[m]]
    BY <1>3 DEF Collect, NextPrevious
  <2>2. previous'.segments \in Nat /\ previous'.timeouts \in Nat
    BY <2>1 DEF Sample, ReadSnmp, ReadNetstat
  <2>3. \A m \in {"segments", "timeouts"} : Report(previous, Sample(skipped))[m] \in Int
    BY DEF Report, PositiveDelta, Sample, ReadSnmp, ReadNetstat
  <2>4. counted'["segments"] \in Int /\ counted'["timeouts"] \in Int
    BY <2>1, <2>3 DEF Counted
  <2>5. erased' \in Nat
    BY <1>3 DEF Collect
  <2> QED
    BY <1>3, <2>2, <2>4, <2>5 DEF Collect, kernelVars, Truth
<1>4. CASE Fails \/ Stop
  BY <1>4 DEF Fails, Stop, kernelVars, historyVars
<1>5. CASE UNCHANGED vars
  BY <1>5 DEF vars, kernelVars, agentVars, historyVars
<1> QED
  BY <1>1, <1>2, <1>3, <1>4, <1>5 DEF Next

LEMMA ShapeKept == Spec => []Shape
<1>1. Init => Shape
  <2> SUFFICES ASSUME Init PROVE Shape
    OBVIOUS
  <2>1. previous.segments \in Nat /\ previous.timeouts \in Nat
    BY DEF Init, Sample, ReadSnmp, ReadNetstat
  <2>2. task \in [Pid -> 0..MaxTasks] /\ ticks \in [Task -> Nat]
    BY NodeAssumption DEF Init, Task
  <2>3. last.segments = 1 /\ counted["segments"] = 0 /\ counted["timeouts"] = 0
    BY DEF Init, Truth, Counted
  <2>4. started.segments = 0 /\ started.timeouts = 0
    BY DEF Init
  <2>5. up \in BOOLEAN /\ segments \in Nat /\ timeouts \in Nat /\ erased \in Nat
    BY DEF Init
  <2> QED
    BY <2>1, <2>2, <2>3, <2>4, <2>5 DEF Shape
<1> QED
  BY <1>1, StaysShape, PTL DEF Spec

LEMMA StaysCounted ==
  Shape /\ SamplesBehind /\ CountedExactly /\ [Next]_vars => SamplesBehind' /\ CountedExactly'
<1> SUFFICES ASSUME Shape, SamplesBehind, CountedExactly, [Next]_vars
             PROVE  SamplesBehind' /\ CountedExactly'
  OBVIOUS
<1> USE DEF SamplesBehind, CountedExactly, Shape
<1>1. CASE Host
  <2>1. UNCHANGED <<up, previous, last, started, erased, counted>>
    BY <1>1 DEF Host, TimePasses, IowaitStepsBack, TcpCounts, Transfer, Detach, Attach, Starts,
                Runs, Ends, FileFails, FileRecovers, agentVars, historyVars
  <2>2. segments <= segments' /\ timeouts <= timeouts' /\ segments' \in Nat /\ timeouts' \in Nat
    BY <1>1 DEF Host, TimePasses, IowaitStepsBack, TcpCounts, Transfer, Detach, Attach, Starts,
                Runs, Ends, FileFails, FileRecovers
  <2> QED
    BY <2>1, <2>2
<1>2. CASE Start
  <2>1. PICK skipped : previous' = Sample(skipped)
    BY <1>2 DEF Start
  <2>2. previous'.segments = segments /\ previous'.timeouts = ReadNetstat
    BY <2>1 DEF Sample, ReadSnmp
  <2>3. counted'.segments = 0 /\ counted'.timeouts = 0
    BY <1>2 DEF Start, Counted
  <2> QED
    BY <1>2, <2>2, <2>3 DEF Start, kernelVars, Truth, ReadNetstat
<1>3. CASE Collect
  <2>1. PICK skipped : /\ previous' = Sample(skipped)
                       /\ counted' = [m \in Counted |->
                                        counted[m] + Report(previous, Sample(skipped))[m]]
    BY <1>3 DEF Collect, NextPrevious
  <2>2. previous'.segments = segments /\ previous'.timeouts = ReadNetstat
    BY <2>1 DEF Sample, ReadSnmp
  <2>3. /\ Report(previous, Sample(skipped)).segments = PositiveDelta(previous.segments, segments)
        /\ Report(previous, Sample(skipped)).timeouts = PositiveDelta(previous.timeouts, ReadNetstat)
    BY DEF Report, Sample, ReadSnmp
  <2>4. /\ counted'.segments = counted.segments + PositiveDelta(previous.segments, segments)
        /\ counted'.timeouts = counted.timeouts + PositiveDelta(previous.timeouts, ReadNetstat)
    BY <2>1, <2>3 DEF Counted
  <2>5. up /\ up' /\ UNCHANGED <<segments, timeouts, started>> /\ last'.segments = segments
    BY <1>3 DEF Collect, kernelVars, Truth
  <2>6. CASE "netstat" \in unreadable
    <3>1. ReadNetstat = 0 /\ erased' = erased + previous.timeouts
      BY <1>3, <2>6 DEF Collect, ReadNetstat
    <3>2. PositiveDelta(previous.timeouts, 0) = 0
      BY DEF PositiveDelta
    <3>3. counted'.timeouts = counted.timeouts /\ previous'.timeouts = 0
      BY <2>2, <2>4, <3>1, <3>2
    <3>4. CountedExactly'
      BY <2>2, <2>4, <2>5, <3>1, <3>3 DEF PositiveDelta
    <3> QED
      BY <2>2, <2>5, <3>3, <3>4
  <2>7. CASE "netstat" \notin unreadable
    <3>1. ReadNetstat = timeouts /\ erased' = erased
      BY <1>3, <2>7 DEF Collect, ReadNetstat
    <3> QED
      BY <2>2, <2>4, <2>5, <3>1 DEF PositiveDelta
  <2> QED
    BY <2>6, <2>7
<1>4. CASE Fails \/ Stop
  BY <1>4 DEF Fails, Stop
<1>5. CASE UNCHANGED vars
  BY <1>5 DEF vars, kernelVars, agentVars, historyVars
<1> QED
  BY <1>1, <1>2, <1>3, <1>4, <1>5 DEF Next

(* Every increment of a TCP counter is reported exactly once in a life of   *)
(* the agent, and what a blackout of netstat erases is what is reported     *)
(* anew after it (tcp_collector.cpp, calculate_rates of each cycle).        *)
THEOREM CountersReportedOnce == Spec => []CountedExactly
<1>1. Init => SamplesBehind /\ CountedExactly
  BY DEF Init, SamplesBehind, CountedExactly
<1> QED
  BY <1>1, StaysCounted, ShapeKept, PTL DEF Spec

-------------------------------------------------------------------------------
(* The CPU time of processes. *)

(* One charge is the distance between two samples of the same pid. *)
LEMMA ChargeOfOne ==
  ASSUME Shape, ChargesCovered, up, NEW skipped, NEW t \in Task
  PROVE  /\ Charge(Report(previous, Sample(skipped)).ticks, t) \in Nat
         /\ charged[t] + Charge(Report(previous, Sample(skipped)).ticks, t) <= ticks[t]
<1> DEFINE reported == Report(previous, Sample(skipped)).ticks
<1>1. /\ DOMAIN reported = Live \ skipped
      /\ \A p \in Live \ skipped :
           reported[p] \in {0} \cup (IF p \in DOMAIN previous.ticks
                                     THEN {PositiveDelta(previous.ticks[p], ticks[task[p]])}
                                     ELSE {})
  BY DEF Report, ProcessTime, Sample, ReadProcesses, ReadStat
<1> HIDE DEF reported
<1>2. charged[t] \in Nat /\ ticks[t] \in Nat /\ charged[t] <= ticks[t]
  BY DEF Shape, ChargesCovered, ChargedWithinLife
<1>3. CASE \E p \in DOMAIN reported : task[p] = t
  <2>1. PICK p \in DOMAIN reported : task[p] = t /\ Charge(reported, t) = reported[p]
    BY <1>3 DEF Charge
  <2>2. p \in Live
    BY <1>1, <2>1
  <2>3. CASE reported[p] = 0
    BY <1>2, <2>1, <2>3 DEF reported
  <2>4. CASE /\ p \in DOMAIN previous.ticks
             /\ reported[p] = PositiveDelta(previous.ticks[p], ticks[task[p]])
    <3>1. previous.ticks[p] \in Nat /\ (charged[t] = 0 \/ charged[t] <= previous.ticks[p])
      BY <2>1, <2>2, <2>4 DEF ChargesCovered
    <3>2. /\ PositiveDelta(previous.ticks[p], ticks[t]) \in Nat
          /\ charged[t] + PositiveDelta(previous.ticks[p], ticks[t]) <= ticks[t]
      BY <1>2, <3>1 DEF PositiveDelta
    <3> QED
      BY <2>1, <2>4, <3>2 DEF reported
  <2> QED
    BY <1>1, <2>1, <2>3, <2>4
<1>4. CASE ~\E p \in DOMAIN reported : task[p] = t
  BY <1>2, <1>4 DEF Charge, reported
<1> QED
  BY <1>3, <1>4

LEMMA StaysChargesCovered == Shape /\ ChargesCovered /\ [Next]_vars => ChargesCovered'
<1> SUFFICES ASSUME Shape, ChargesCovered, [Next]_vars PROVE ChargesCovered'
  OBVIOUS
<1>1. CASE UNCHANGED <<up, previous, task, ticks, charged>>
  BY <1>1 DEF ChargesCovered, ChargedWithinLife, Live
<1>2. ASSUME NEW p \in Pid, NEW t \in Task, Starts(p, t) PROVE ChargesCovered'
  <2>1. /\ UNCHANGED <<up, previous, ticks, charged>>
        /\ task' = [task EXCEPT ![p] = t] /\ ticks[t] = 0
    BY <1>2 DEF Starts, agentVars, historyVars
  <2>2. charged[t] = 0
    BY <2>1 DEF ChargesCovered, ChargedWithinLife
  <2>3. \A q \in Live' : q # p => q \in Live /\ task'[q] = task[q]
    BY <2>1 DEF Live, Shape
  <2>4. task'[p] = t
    BY <2>1 DEF Shape
  <2> QED
    BY <2>1, <2>2, <2>3, <2>4 DEF ChargesCovered, ChargedWithinLife
<1>3. ASSUME NEW p \in Pid, Runs(p) PROVE ChargesCovered'
  <2>1. UNCHANGED <<up, previous, task, charged>> /\ ticks' = [ticks EXCEPT ![task[p]] = @ + 1]
    BY <1>3 DEF Runs, agentVars, historyVars
  <2>2. \A t \in Task : ticks[t] <= ticks'[t] /\ ticks[t] \in Nat /\ ticks'[t] \in Nat
    BY <2>1 DEF Shape
  <2> QED
    BY <2>1, <2>2 DEF ChargesCovered, ChargedWithinLife, Live
<1>4. ASSUME NEW p \in Pid, Ends(p) PROVE ChargesCovered'
  <2>1. UNCHANGED <<up, previous, ticks, charged>> /\ task' = [task EXCEPT ![p] = 0]
    BY <1>4 DEF Ends, agentVars, historyVars
  <2>2. \A q \in Live' : q \in Live /\ task'[q] = task[q]
    BY <2>1 DEF Live, Shape
  <2> QED
    BY <2>1, <2>2 DEF ChargesCovered, ChargedWithinLife
<1>5. ASSUME NEW skipped, previous' = Sample(skipped), UNCHANGED <<task, ticks>>,
             charged' \in [Task -> Nat], \A t \in Task : charged'[t] <= ticks[t]
      PROVE  ChargesCovered'
  <2>1. /\ DOMAIN previous'.ticks = Live \ skipped
        /\ \A p \in Live \ skipped : previous'.ticks[p] = ticks[task[p]]
    BY <1>5 DEF Sample, ReadProcesses, ReadStat
  <2>2. \A p \in Live : task[p] \in Task /\ ticks[task[p]] \in Nat
    BY NodeAssumption DEF Live, Shape, Task
  <2> QED
    BY <1>5, <2>1, <2>2 DEF ChargesCovered, ChargedWithinLife, Live
<1>6. CASE Start
  <2>1. UNCHANGED <<task, ticks, charged>> /\ \E skipped : previous' = Sample(skipped)
    BY <1>6 DEF Start, kernelVars
  <2> QED
    BY <1>5, <2>1 DEF ChargesCovered, ChargedWithinLife
<1>7. CASE Collect
  <2>1. up /\ UNCHANGED <<task, ticks>>
    BY <1>7 DEF Collect, kernelVars
  <2>2. PICK skipped : /\ previous' = Sample(skipped)
                       /\ charged' = [t \in Task |->
                            charged[t] + Charge(Report(previous, Sample(skipped)).ticks, t)]
    BY <1>7 DEF Collect, NextPrevious
  <2>3. \A t \in Task : /\ charged[t] \in Nat
                        /\ Charge(Report(previous, Sample(skipped)).ticks, t) \in Nat
                        /\ charged[t] + Charge(Report(previous, Sample(skipped)).ticks, t) <= ticks[t]
    BY <2>1, ChargeOfOne DEF ChargesCovered
  <2>4. charged' \in [Task -> Nat] /\ \A t \in Task : charged'[t] <= ticks[t]
    BY <2>2, <2>3
  <2> QED
    BY <1>5, <2>1, <2>2, <2>4
<1>8. CASE Fails \/ Stop
  BY <1>8 DEF Fails, Stop, kernelVars, historyVars, ChargesCovered, ChargedWithinLife
<1>9. \/ UNCHANGED <<up, previous, task, ticks, charged>>
      \/ \E p \in Pid : (\E t \in Task : Starts(p, t)) \/ Runs(p) \/ Ends(p)
      \/ Start \/ Collect \/ Fails \/ Stop
  BY DEF Next, Host, TimePasses, IowaitStepsBack, TcpCounts, Transfer, Detach, Attach,
         FileFails, FileRecovers, agentVars, historyVars, kernelVars, vars
<1> QED
  BY <1>1, <1>2, <1>3, <1>4, <1>6, <1>7, <1>8, <1>9

LEMMA ChargesCoveredKept == Spec => []ChargesCovered
<1>1. Init => ChargesCovered
  <2> SUFFICES ASSUME Init PROVE ChargesCovered
    OBVIOUS
  <2>1. charged \in [Task -> Nat] /\ up = FALSE
    BY DEF Init
  <2>2. \A t \in Task : charged[t] = 0 /\ ticks[t] \in Nat
    BY DEF Init
  <2> QED
    BY <2>1, <2>2 DEF ChargesCovered, ChargedWithinLife
<1> QED
  BY <1>1, StaysChargesCovered, ShapeKept, PTL DEF Spec

(* A process is never charged with more CPU time than it has used, whose    *)
(* pid it got, whichever samples missed it and however often the agent was  *)
(* restarted (build_process_metrics).                                       *)
THEOREM ChargesWithinLife == Spec => []ChargedWithinLife
<1>1. ChargesCovered => ChargedWithinLife
  BY DEF ChargesCovered
<1> QED
  BY <1>1, ChargesCoveredKept, PTL

-------------------------------------------------------------------------------
(* Types. *)

KernelTypes ==
  /\ cpu \in [Cpu -> Nat] /\ segments \in Nat /\ timeouts \in Nat
  /\ bytes \in [Device -> Nat] /\ attached \subseteq Device
  /\ task \in [Pid -> 0..MaxTasks] /\ ticks \in [Task -> Nat]

LEMMA SampleHasTypes ==
  ASSUME KernelTypes, NEW skipped PROVE SampleOK(Sample(skipped))
<1> DEFINE s == Sample(skipped)
<1>1. s.cpu \in Times
  <2>1. \A k \in Cpu : cpu[k] % Word \in 0..Word - 1
    BY NodeAssumption DEF KernelTypes
  <2> QED
    BY <2>1 DEF Sample, ReadCpu, Times
<1>2. s.segments \in Nat /\ s.timeouts \in Nat
  BY DEF KernelTypes, Sample, ReadSnmp, ReadNetstat, ReadPressure
<1>3. /\ DOMAIN s.network \subseteq Device \ Disk
      /\ \A d \in DOMAIN s.network : s.network[d] \in Nat
  BY DEF KernelTypes, Sample, ReadInterfaces
<1>4. /\ DOMAIN s.disk \subseteq Disk \ Ignored
      /\ \A d \in DOMAIN s.disk : s.disk[d] \in Nat
  BY DEF KernelTypes, Sample, ReadDisks
<1>5. /\ DOMAIN s.ticks \subseteq Pid
      /\ \A p \in DOMAIN s.ticks : s.ticks[p] \in Nat
  <2>1. \A p \in Live : task[p] \in Task
    BY NodeAssumption DEF KernelTypes, Live, Task
  <2> QED
    BY <2>1 DEF KernelTypes, Sample, ReadProcesses, ReadStat, Live
<1> QED
  BY <1>1, <1>2, <1>3, <1>4, <1>5 DEF SampleOK

(* The sums over the devices of a sample. *)
LEMMA AggregatesAreNat ==
  ASSUME NEW s, SampleOK(s)
  PROVE  AggregateBytes(s.network) \in Nat /\ Aggregate(s.disk) \in Nat
<1>1. IsFiniteSet(DOMAIN s.network \ Ignored) /\ IsFiniteSet(DOMAIN s.disk)
  BY NodeAssumption, FS_Subset DEF SampleOK
<1> QED
  BY <1>1, TotalIsNat DEF SampleOK, AggregateBytes, Aggregate

LEMMA ReportsAreNat ==
  ASSUME NEW before, NEW now, SampleOK(before), SampleOK(now), NEW m \in Counted
  PROVE  Report(before, now)[m] \in Nat
<1>1. \A a, b \in Nat : PositiveDelta(a, b) \in Nat
  BY DEF PositiveDelta
<1>2. /\ Report(before, now)["segments"] = PositiveDelta(before.segments, now.segments)
      /\ Report(before, now)["timeouts"] = PositiveDelta(before.timeouts, now.timeouts)
      /\ Report(before, now)["network"] =
           PositiveDelta(AggregateBytes(before.network), AggregateBytes(now.network))
      /\ Report(before, now)["disk"] = PositiveDelta(Aggregate(before.disk), Aggregate(now.disk))
  BY DEF Report, NetworkBytes
<1>3. /\ before.segments \in Nat /\ now.segments \in Nat
      /\ before.timeouts \in Nat /\ now.timeouts \in Nat
  BY DEF SampleOK
<1>4. /\ AggregateBytes(before.network) \in Nat /\ AggregateBytes(now.network) \in Nat
      /\ Aggregate(before.disk) \in Nat /\ Aggregate(now.disk) \in Nat
  BY AggregatesAreNat
<1>5. m \in {"segments", "timeouts", "network", "disk"}
  BY DEF Counted, Kind
<1> QED
  BY <1>1, <1>2, <1>3, <1>4, <1>5

LEMMA StaysTyped == TypeOK /\ ChargesCovered' /\ [Next]_vars => TypeOK'
<1> SUFFICES ASSUME TypeOK, ChargesCovered', [Next]_vars PROVE TypeOK'
  OBVIOUS
<1>0. charged' \in [Task -> Nat]
  BY DEF ChargesCovered
<1> USE <1>0 DEF TypeOK
<1>1. events \in 0..MaxEvents /\ (Event => events' \in 0..MaxEvents)
  BY NodeAssumption DEF Event
<1>2. CASE Host
  <2>1. UNCHANGED <<up, previous, cycle, counted>>
    BY <1>2 DEF Host, TimePasses, IowaitStepsBack, TcpCounts, Transfer, Detach, Attach, Starts,
                Runs, Ends, FileFails, FileRecovers, agentVars, historyVars
  <2> HIDE DEF TypeOK
  <2>2. events' \in 0..MaxEvents
    BY <1>1, <1>2 DEF Host, TimePasses, IowaitStepsBack, TcpCounts, Transfer, Detach, Attach,
                Starts, Runs, Ends, FileFails, FileRecovers, TypeOK
  <2>3. ASSUME TimePasses \/ IowaitStepsBack \/ TcpCounts PROVE TypeOK'
    <3>1. cpu' \in [Cpu -> Nat] /\ segments' \in Nat /\ timeouts' \in Nat
      BY <2>3 DEF TypeOK, TimePasses, IowaitStepsBack, TcpCounts, Cpu
    <3> QED
      BY <2>1, <2>2, <2>3, <3>1 DEF TypeOK, TimePasses, IowaitStepsBack, TcpCounts
  <2>4. ASSUME NEW d \in Device, Transfer(d) \/ Detach(d) \/ Attach(d) PROVE TypeOK'
    BY <2>1, <2>2, <2>4 DEF TypeOK, Transfer, Detach, Attach
  <2>5. ASSUME NEW p \in Pid, NEW t \in Task, Starts(p, t) PROVE TypeOK'
    <3>1. task' \in [Pid -> 0..MaxTasks]
      BY <2>5, NodeAssumption DEF TypeOK, Starts, Task
    <3> QED
      BY <2>1, <2>2, <2>5, <3>1 DEF TypeOK, Starts
  <2>6. ASSUME NEW p \in Pid, Runs(p) \/ Ends(p) PROVE TypeOK'
    <3>1. cpu' \in [Cpu -> Nat] /\ ticks' \in [Task -> Nat]
      BY <2>6 DEF TypeOK, Runs, Ends, Cpu
    <3>2. task' \in [Pid -> 0..MaxTasks]
      BY <2>6, NodeAssumption DEF TypeOK, Runs, Ends
    <3> QED
      BY <2>1, <2>2, <2>6, <3>1, <3>2 DEF TypeOK, Runs, Ends
  <2>7. ASSUME NEW f \in MayFail, FileFails(f) \/ FileRecovers(f) PROVE TypeOK'
    BY <2>1, <2>2, <2>7 DEF TypeOK, FileFails, FileRecovers
  <2> QED
    BY <1>2, <2>3, <2>4, <2>5, <2>6, <2>7, NodeAssumption DEF Host
<1>3. CASE Start
  <2>1. SampleOK(previous')
    BY <1>3, SampleHasTypes DEF Start, KernelTypes
  <2>2. counted' \in [Counted -> Nat]
    BY <1>3 DEF Start
  <2> QED
    BY <1>3, <2>1, <2>2 DEF Start, kernelVars
<1>4. CASE Collect
  <2>1. PICK skipped : /\ previous' = Sample(skipped)
                       /\ counted' = [m \in Counted |->
                                        counted[m] + Report(previous, Sample(skipped))[m]]
    BY <1>4 DEF Collect, NextPrevious
  <2>2. SampleOK(previous) /\ SampleOK(Sample(skipped))
    BY SampleHasTypes DEF KernelTypes
  <2>3. counted' \in [Counted -> Nat]
    <3>1. \A m \in Counted : counted[m] + Report(previous, Sample(skipped))[m] \in Nat
      BY <2>2, ReportsAreNat
    <3> QED
      BY <2>1, <3>1
  <2> QED
    BY <1>4, <2>1, <2>2, <2>3 DEF Collect, kernelVars
<1>5. CASE Fails \/ Stop
  BY <1>1, <1>5 DEF Fails, Stop, kernelVars, historyVars
<1>6. CASE UNCHANGED vars
  BY <1>6 DEF vars, kernelVars, agentVars, historyVars
<1> QED
  BY <1>2, <1>3, <1>4, <1>5, <1>6 DEF Next

(* Every variable keeps its type; what collect() reports is never negative, *)
(* although counters step back, vanish and are erased.                      *)
THEOREM TypeCorrect == Spec => []TypeOK
<1>1. Init => TypeOK
  <2> SUFFICES ASSUME Init PROVE TypeOK
    OBVIOUS
  <2>1. /\ cpu \in [Cpu -> Nat] /\ segments \in Nat /\ timeouts \in Nat
        /\ bytes \in [Device -> Nat] /\ attached \subseteq Device
    BY DEF Init
  <2>2. task \in [Pid -> 0..MaxTasks] /\ ticks \in [Task -> Nat]
    BY NodeAssumption DEF Init, Task
  <2>3. unreadable = {} /\ events = 0 /\ up = FALSE /\ cycle = 0
    BY DEF Init
  <2>4. KernelTypes
    BY <2>1, <2>2 DEF KernelTypes
  <2>5. previous = Sample({})
    BY DEF Init
  <2>6. SampleOK(previous)
    BY <2>4, <2>5, SampleHasTypes
  <2>7. counted \in [Counted -> Nat] /\ charged \in [Task -> Nat]
    BY DEF Init
  <2>8. events \in 0..MaxEvents
    BY <2>3, NodeAssumption
  <2> QED
    BY <2>1, <2>2, <2>3, <2>6, <2>7, <2>8 DEF TypeOK
<1> QED
  BY <1>1, StaysTyped, ChargesCoveredKept, PTL DEF Spec

-------------------------------------------------------------------------------
(* The transfers of the devices. *)

(* The devices whose counters make up the figure of a kind. *)
Counting(k) == {d \in attached \ Ignored : KindOf(d) = k}

(* That figure at present, and in the previous sample. *)
Carried(k) == Total(bytes, Counting(k))
Sampled(k) == IF k = "network" THEN AggregateBytes(previous.network)
                               ELSE Aggregate(previous.disk)

(* Since the last sample a figure has grown by what was transferred in the  *)
(* meantime, less what went away with a device.                             *)
MovesAccounted ==
  /\ moved \in [Kind -> Nat] /\ last.moved \in [Kind -> Nat] /\ started.moved \in [Kind -> Nat]
  /\ \A d \in Device \ attached : bytes[d] = 0
  /\ up => \A k \in Kind :
       /\ last.moved[k] <= moved[k]
       /\ Carried(k) - Sampled(k) <= moved[k] - last.moved[k]
       /\ k \notin detached => Carried(k) - Sampled(k) = moved[k] - last.moved[k]

LEMMA DevicesAreFinite ==
  ASSUME TypeOK, NEW S \in SUBSET Device
  PROVE  IsFiniteSet(S) /\ \A d \in S : bytes[d] \in Nat
BY NodeAssumption, FS_Subset DEF TypeOK

(* A sample carries the figures of the moment in which it is taken. *)
LEMMA SampleCarries ==
  ASSUME TypeOK, NEW skipped, NEW k \in Kind
  PROVE  (IF k = "network" THEN AggregateBytes(Sample(skipped).network)
                           ELSE Aggregate(Sample(skipped).disk)) = Carried(k)
<1>1. IsFiniteSet(Counting(k)) /\ \A d \in Counting(k) : bytes[d] \in Int
  <2>1. Counting(k) \in SUBSET Device
    BY DEF TypeOK, Counting
  <2> QED
    BY <2>1, DevicesAreFinite
<1>2. CASE k = "network"
  <2> DEFINE s == ReadInterfaces
  <2>1. DOMAIN s \ Ignored = Counting(k) /\ \A d \in Counting(k) : s[d] = bytes[d]
    BY <1>2 DEF ReadInterfaces, Counting, KindOf
  <2> HIDE DEF s
  <2>2. Total(bytes, Counting(k)) = Total(s, Counting(k))
    BY <1>1, <2>1, TotalAgrees
  <2>3. Sample(skipped).network = s
    BY DEF Sample, s
  <2> QED
    BY <1>2, <2>1, <2>2, <2>3 DEF AggregateBytes, Carried
<1>3. CASE k = "disk"
  <2> DEFINE s == ReadDisks
  <2>1. DOMAIN s = Counting(k) /\ \A d \in Counting(k) : s[d] = bytes[d]
    BY <1>3 DEF ReadDisks, Counting, KindOf
  <2> HIDE DEF s
  <2>2. Total(bytes, Counting(k)) = Total(s, Counting(k))
    BY <1>1, <2>1, TotalAgrees
  <2>3. Sample(skipped).disk = s
    BY DEF Sample, s
  <2> QED
    BY <1>3, <2>1, <2>2, <2>3 DEF Aggregate, Carried
<1> QED
  BY <1>2, <1>3 DEF Kind

LEMMA CarriedIsNat == ASSUME TypeOK, NEW k \in Kind PROVE Carried(k) \in Nat
<1>1. Counting(k) \in SUBSET Device
  BY DEF TypeOK, Counting
<1> QED
  BY <1>1, DevicesAreFinite, TotalIsNat DEF Carried

LEMMA SampledIsNat == ASSUME TypeOK, NEW k \in Kind PROVE Sampled(k) \in Nat
BY AggregatesAreNat DEF TypeOK, Sampled

(* A transfer adds to the figure of its kind what it adds to the history. *)
LEMMA TransferAccounted ==
  ASSUME TypeOK, moved \in [Kind -> Nat], NEW d \in Device, Transfer(d), NEW k \in Kind
  PROVE  moved'[k] \in Nat /\ Carried(k)' = Carried(k) + (moved'[k] - moved[k])
<1>1. /\ d \in attached /\ attached' = attached /\ bytes' = [bytes EXCEPT ![d] = @ + 1]
      /\ moved' = IF d \in Ignored THEN moved ELSE [moved EXCEPT ![KindOf(d)] = @ + 1]
  BY DEF Transfer
<1> DEFINE C == Counting(k)
<1>2. Counting(k)' = C
  BY <1>1 DEF Counting, KindOf
<1>3. /\ C \in SUBSET Device /\ IsFiniteSet(C) /\ \A e \in C : bytes[e] \in Int
  <2>1. C \in SUBSET Device
    BY DEF TypeOK, Counting
  <2> QED
    BY <2>1, DevicesAreFinite
<1>4. \A e \in C : bytes'[e] = IF e = d THEN bytes[e] + 1 ELSE bytes[e]
  BY <1>1, <1>3 DEF TypeOK
<1>5. Carried(k)' = Total(bytes', C)
  BY <1>2 DEF Carried
<1>6. moved'[k] = IF d \in C THEN moved[k] + 1 ELSE moved[k]
  BY <1>1 DEF Counting, Kind, KindOf
<1> HIDE DEF C
<1>7. Carried(k) \in Nat /\ Carried(k) = Total(bytes, C)
  BY CarriedIsNat DEF Carried, C
<1>8. CASE d \in C
  <2>1. Total(bytes, C) = bytes[d] + Total(bytes, C \ {d})
    BY <1>3, <1>8, TotalWithout
  <2>2. Total(bytes', C) = bytes'[d] + Total(bytes', C \ {d})
    BY <1>3, <1>4, <1>8, TotalWithout
  <2>3. IsFiniteSet(C \ {d})
    BY <1>3, FS_Subset
  <2>4. Total(bytes, C \ {d}) = Total(bytes', C \ {d})
    BY <1>3, <1>4, <2>3, TotalAgrees
  <2>5. Total(bytes, C \ {d}) \in Int
    BY <1>3, <2>3, TotalIsInt
  <2> QED
    BY <1>3, <1>4, <1>5, <1>6, <1>7, <1>8, <2>1, <2>2, <2>4, <2>5
<1>9. CASE d \notin C
  <2>1. Total(bytes, C) = Total(bytes', C)
    BY <1>3, <1>4, <1>9, TotalAgrees
  <2> QED
    BY <1>5, <1>6, <1>7, <1>9, <2>1
<1> QED
  BY <1>8, <1>9

(* What goes away with a device is taken from the figure of its kind only. *)
LEMMA DetachAccounted ==
  ASSUME TypeOK, NEW d \in Device, Detach(d), NEW k \in Kind
  PROVE  /\ Carried(k)' \in Nat /\ Carried(k)' <= Carried(k)
         /\ k \notin detached' => Carried(k)' = Carried(k)
<1>1. /\ d \in attached /\ attached' = attached \ {d} /\ bytes' = [bytes EXCEPT ![d] = 0]
      /\ detached' = detached \cup {KindOf(d)}
  BY DEF Detach
<1> DEFINE C == Counting(k)
           D == C \ {d}
<1>2. Counting(k)' = D
  BY <1>1 DEF Counting, KindOf
<1>3. /\ C \in SUBSET Device /\ IsFiniteSet(C) /\ \A e \in C : bytes[e] \in Nat
  <2>1. C \in SUBSET Device
    BY DEF TypeOK, Counting
  <2> QED
    BY <2>1, DevicesAreFinite
<1>4. k \notin detached' => D = C
  BY <1>1 DEF Counting
<1>5. Carried(k)' = Total(bytes', D)
  BY <1>2 DEF Carried
<1>6. Carried(k) = Total(bytes, C)
  BY DEF Carried
<1> HIDE DEF C
<1>7. IsFiniteSet(D) /\ \A e \in D : bytes[e] \in Int /\ bytes'[e] = bytes[e]
  BY <1>1, <1>3, FS_Subset DEF TypeOK
<1>8. Total(bytes, D) = Total(bytes', D)
  BY <1>7, TotalAgrees
<1>9. Total(bytes, D) <= Total(bytes, C)
  BY <1>3, TotalOfPart
<1>10. Total(bytes, D) \in Nat
  BY <1>3, <1>7, TotalIsNat
<1> QED
  BY <1>4, <1>5, <1>6, <1>8, <1>9, <1>10

(* A device that is attached starts from zero. *)
LEMMA AttachAccounted ==
  ASSUME TypeOK, \A e \in Device \ attached : bytes[e] = 0,
         NEW d \in Device, Attach(d), NEW k \in Kind
  PROVE  Carried(k)' = Carried(k)
<1>1. d \notin attached /\ attached' = attached \cup {d} /\ bytes' = bytes
  BY DEF Attach
<1> DEFINE C == Counting(k)
           D == Counting(k)'
<1>2. C = D \ {d} /\ D \in SUBSET Device /\ bytes[d] = 0
  BY <1>1 DEF Counting, KindOf, TypeOK
<1>3. Carried(k) = Total(bytes, C) /\ Carried(k)' = Total(bytes, D)
  BY <1>1 DEF Carried
<1> HIDE DEF C, D
<1>4. IsFiniteSet(D) /\ \A e \in D : bytes[e] \in Int
  BY <1>2, DevicesAreFinite
<1>5. CASE d \in D
  <2>1. Total(bytes, D) = bytes[d] + Total(bytes, D \ {d})
    BY <1>4, <1>5, TotalWithout
  <2>2. Total(bytes, D \ {d}) \in Int
    BY <1>4, FS_Subset, TotalIsInt
  <2> QED
    BY <1>2, <1>3, <2>1, <2>2
<1>6. CASE d \notin D
  BY <1>2, <1>3, <1>6
<1> QED
  BY <1>5, <1>6

LEMMA StaysAccounted ==
  TypeOK /\ MovesAccounted /\ BytesCountedOnce /\ [Next]_vars => MovesAccounted' /\ BytesCountedOnce'
<1> SUFFICES ASSUME TypeOK, MovesAccounted, BytesCountedOnce, [Next]_vars
             PROVE  MovesAccounted' /\ BytesCountedOnce'
  OBVIOUS
<1>1. /\ \A k \in Kind : /\ moved[k] \in Nat /\ last.moved[k] \in Nat
                         /\ started.moved[k] \in Nat /\ counted[k] \in Nat
                         /\ Carried(k) \in Nat /\ Sampled(k) \in Nat
      /\ \A d \in Device : bytes[d] \in Nat
  BY CarriedIsNat, SampledIsNat DEF MovesAccounted, TypeOK, Counted
<1>2. CASE UNCHANGED <<bytes, attached, previous, moved, last, started, counted, detached>> /\ (up' => up)
  <2>1. \A k \in Kind : Carried(k)' = Carried(k) /\ Sampled(k)' = Sampled(k)
    BY <1>2 DEF Carried, Counting, Sampled, AggregateBytes, Aggregate
  <2> QED
    BY <1>2, <2>1 DEF MovesAccounted, BytesCountedOnce
<1>3. ASSUME NEW d \in Device, Transfer(d) PROVE MovesAccounted' /\ BytesCountedOnce'
  <2>1. /\ UNCHANGED <<attached, previous, last, started, counted, detached, up>>
        /\ d \in attached /\ bytes' = [bytes EXCEPT ![d] = @ + 1]
        /\ moved' = IF d \in Ignored THEN moved ELSE [moved EXCEPT ![KindOf(d)] = @ + 1]
    BY <1>3 DEF Transfer, agentVars
  <2>2. \A k \in Kind : Sampled(k)' = Sampled(k)
    BY <2>1 DEF Sampled, AggregateBytes, Aggregate
  <2>3. /\ moved' \in [Kind -> Nat] /\ \A k \in Kind : moved[k] <= moved'[k]
    BY <1>1, <2>1 DEF MovesAccounted, Kind, KindOf
  <2>4. \A k \in Kind : Carried(k)' = Carried(k) + (moved'[k] - moved[k])
    BY <1>3, TransferAccounted DEF MovesAccounted
  <2>5. \A e \in Device \ attached' : bytes'[e] = 0
    BY <2>1 DEF MovesAccounted, TypeOK
  <2>6. MovesAccounted'
    BY <1>1, <2>1, <2>2, <2>3, <2>4, <2>5 DEF MovesAccounted
  <2> QED
    BY <2>1, <2>6 DEF BytesCountedOnce
<1>4. ASSUME NEW d \in Device, Detach(d) PROVE MovesAccounted' /\ BytesCountedOnce'
  <2>1. /\ UNCHANGED <<previous, moved, last, started, counted, up>>
        /\ attached' = attached \ {d} /\ bytes' = [bytes EXCEPT ![d] = 0]
        /\ detached \subseteq detached'
    BY <1>4 DEF Detach, agentVars
  <2>2. \A k \in Kind : Sampled(k)' = Sampled(k)
    BY <2>1 DEF Sampled, AggregateBytes, Aggregate
  <2>3. \A k \in Kind : /\ Carried(k)' \in Nat /\ Carried(k)' <= Carried(k)
                        /\ k \notin detached' => Carried(k)' = Carried(k)
    BY <1>4, DetachAccounted
  <2>4. \A e \in Device \ attached' : bytes'[e] = 0
    BY <2>1 DEF MovesAccounted, TypeOK
  <2>5. \A k \in Kind : Carried(k)' - Sampled(k) <= Carried(k) - Sampled(k)
    BY <1>1, <2>3
  <2>6. MovesAccounted'
    BY <1>1, <2>1, <2>2, <2>3, <2>4, <2>5 DEF MovesAccounted
  <2> QED
    BY <2>1, <2>6 DEF BytesCountedOnce
<1>5. ASSUME NEW d \in Device, Attach(d) PROVE MovesAccounted' /\ BytesCountedOnce'
  <2>1. /\ UNCHANGED <<bytes, previous, moved, last, started, counted, detached, up>>
        /\ attached' = attached \cup {d}
    BY <1>5 DEF Attach, agentVars, historyVars
  <2>2. \A k \in Kind : Sampled(k)' = Sampled(k)
    BY <2>1 DEF Sampled, AggregateBytes, Aggregate
  <2>3. \A k \in Kind : Carried(k)' = Carried(k)
    BY <1>5, AttachAccounted DEF MovesAccounted
  <2>4. \A e \in Device \ attached' : bytes'[e] = 0
    BY <2>1 DEF MovesAccounted
  <2>5. MovesAccounted'
    BY <2>1, <2>2, <2>3, <2>4 DEF MovesAccounted
  <2> QED
    BY <2>1, <2>5 DEF BytesCountedOnce
<1>6. ASSUME NEW skipped, previous' = Sample(skipped), NEW k \in Kind,
             UNCHANGED <<bytes, attached>>
      PROVE  Sampled(k)' = Carried(k) /\ Carried(k)' = Carried(k)
  <2>1. Sampled(k)' = IF k = "network" THEN AggregateBytes(Sample(skipped).network)
                                       ELSE Aggregate(Sample(skipped).disk)
    BY <1>6 DEF Sampled, AggregateBytes, Aggregate
  <2>2. Sampled(k)' = Carried(k)
    BY <2>1, SampleCarries
  <2> QED
    BY <1>6, <2>2 DEF Carried, Counting
<1>7. CASE Start
  <2>1. PICK skipped : previous' = Sample(skipped)
    BY <1>7 DEF Start
  <2>2. /\ UNCHANGED <<bytes, attached, moved>> /\ last'.moved = moved /\ started'.moved = moved
        /\ \A k \in Kind : counted'[k] = 0
    BY <1>7 DEF Start, kernelVars, Truth, Counted
  <2>3. \A k \in Kind : Sampled(k)' = Carried(k) /\ Carried(k)' = Carried(k)
    BY <1>6, <2>1, <2>2
  <2>4. MovesAccounted'
    BY <1>1, <2>2, <2>3 DEF MovesAccounted
  <2>5. \A k \in Kind : moved[k] - moved[k] = 0
    BY <1>1
  <2> QED
    BY <2>2, <2>4, <2>5 DEF BytesCountedOnce
<1>8. CASE Collect
  <2>1. PICK skipped : /\ previous' = Sample(skipped)
                       /\ counted' = [m \in Counted |->
                                        counted[m] + Report(previous, Sample(skipped))[m]]
    BY <1>8 DEF Collect, NextPrevious
  <2>2. up /\ UNCHANGED <<bytes, attached, moved, started, detached>> /\ last'.moved = moved
    BY <1>8 DEF Collect, kernelVars, Truth
  <2>3. \A k \in Kind : Sampled(k)' = Carried(k) /\ Carried(k)' = Carried(k)
    BY <1>6, <2>1, <2>2
  <2>4. MovesAccounted'
    BY <1>1, <2>2, <2>3 DEF MovesAccounted
  <2>5. \A k \in Kind : counted'[k] = counted[k] + PositiveDelta(Sampled(k), Carried(k))
    <3>1. \A k \in Kind : counted'[k] = counted[k] + Report(previous, Sample(skipped))[k]
      BY <2>1 DEF Counted
    <3>2. Report(previous, Sample(skipped))["network"] =
            PositiveDelta(Sampled("network"), AggregateBytes(Sample(skipped).network))
      BY DEF Report, NetworkBytes, Sampled
    <3>3. Report(previous, Sample(skipped))["disk"] =
            PositiveDelta(Sampled("disk"), Aggregate(Sample(skipped).disk))
      BY DEF Report, Sampled
    <3>4. \A k \in Kind : k = "network" \/ k = "disk"
      BY DEF Kind
    <3> QED
      BY <3>1, <3>2, <3>3, <3>4, SampleCarries
  <2>6. \A k \in Kind : /\ last.moved[k] <= moved[k]
                        /\ Carried(k) - Sampled(k) <= moved[k] - last.moved[k]
                        /\ k \notin detached => Carried(k) - Sampled(k) = moved[k] - last.moved[k]
                        /\ counted[k] <= last.moved[k] - started.moved[k]
                        /\ k \notin detached => counted[k] = last.moved[k] - started.moved[k]
    BY <2>2 DEF MovesAccounted, BytesCountedOnce
  <2>7. ASSUME NEW k \in Kind
        PROVE  /\ counted'[k] <= moved[k] - started.moved[k]
               /\ k \notin detached => counted'[k] = moved[k] - started.moved[k]
    <3> DEFINE m == moved[k]
               l == last.moved[k]
               b == started.moved[k]
               n == counted[k]
               c == Carried(k)
               p == Sampled(k)
    <3>1. m \in Nat /\ l \in Nat /\ b \in Nat /\ n \in Nat /\ c \in Nat /\ p \in Nat
      BY <1>1, <2>7
    <3>2. /\ l <= m /\ c - p <= m - l /\ n <= l - b
          /\ k \notin detached => c - p = m - l
          /\ k \notin detached => n = l - b
      BY <2>6, <2>7
    <3>3. counted'[k] = n + PositiveDelta(p, c)
      BY <2>5, <2>7
    <3> HIDE DEF m, l, b, n, c, p
    <3>4. PositiveDelta(p, c) = IF c < p THEN 0 ELSE c - p
      BY DEF PositiveDelta
    <3>5. n + PositiveDelta(p, c) <= m - b
      BY <3>1, <3>2, <3>4
    <3>6. k \notin detached => n + PositiveDelta(p, c) = m - b
      BY <3>1, <3>2, <3>4
    <3> QED
      BY <3>3, <3>5, <3>6 DEF m, b
  <2> QED
    BY <2>2, <2>4, <2>7 DEF BytesCountedOnce
<1>9. CASE UNCHANGED vars \/ Fails \/ Stop
  BY <1>2, <1>9 DEF Fails, Stop, vars, kernelVars, agentVars, historyVars
<1>10. CASE Host
  <2>1. \/ UNCHANGED <<bytes, attached, previous, moved, last, started, counted, detached, up>>
        \/ \E d \in Device : Transfer(d) \/ Detach(d) \/ Attach(d)
    BY <1>10, NodeAssumption
       DEF Host, TimePasses, IowaitStepsBack, TcpCounts, Starts, Runs, Ends, FileFails,
           FileRecovers, agentVars, historyVars
  <2> QED
    BY <1>2, <1>3, <1>4, <1>5, <2>1
<1> QED
  BY <1>7, <1>8, <1>9, <1>10 DEF Next

(* What the snapshots of one life report for the interfaces, or for the     *)
(* disks, of the node never exceeds what these have transferred since the   *)
(* agent started, and is exactly that until a device goes away              *)
(* (aggregate_*() and calculate_*_per_second() of the calculators).         *)
THEOREM TransfersCountedOnce == Spec => []BytesCountedOnce
<1>1. Init => MovesAccounted /\ BytesCountedOnce
  BY DEF Init, MovesAccounted, BytesCountedOnce, Truth
<1> QED
  BY <1>1, StaysAccounted, TypeCorrect, PTL DEF Spec

-------------------------------------------------------------------------------
(* The utilization of the CPU. *)

(* Arithmetic modulo the width of the counters. *)
LEMMA SplitByWord ==
  ASSUME NEW a \in Int, NEW w \in Nat \ {0}
  PROVE  a = w * (a \div w) + (a % w) /\ a % w \in 0..w - 1 /\ a \div w \in Int
OBVIOUS

LEMMA WordsAddUp == ASSUME NEW w \in Nat \ {0}, NEW k \in Int, k >= 1 PROVE w * k >= w
OBVIOUS

LEMMA RemainderIsUnique ==
  ASSUME NEW w \in Nat \ {0}, NEW q \in Int, NEW r \in 0..w - 1, NEW a \in Int, a = w * q + r
  PROVE  a % w = r
<1> DEFINE p == a \div w
           t == a % w
<1>1. a = w * p + t /\ t \in 0..w - 1 /\ p \in Int
  BY SplitByWord
<1> HIDE DEF p, t
<1>2. w * (q - p) = t - r /\ w * (p - q) = r - t
  BY <1>1
<1>3. ~(q - p >= 1)
  BY <1>1, <1>2, WordsAddUp
<1>4. ~(p - q >= 1)
  BY <1>1, <1>2, WordsAddUp
<1>5. q = p
  BY <1>1, <1>3, <1>4
<1>6. t = r
  BY <1>1, <1>2, <1>5
<1> QED
  BY <1>6 DEF t

(* The difference of two counters that have wrapped around, if they are less *)
(* than one round apart.                                                     *)
LEMMA DifferenceOfRemainders ==
  ASSUME NEW w \in Nat \ {0}, NEW a \in Int, NEW b \in Int, a >= b, a - b < w
  PROVE  ((a % w) - (b % w)) % w = a - b
<1> DEFINE p == a \div w
           t == a % w
           q == b \div w
           u == b % w
<1>1. a = w * p + t /\ t \in 0..w - 1 /\ p \in Int
  BY SplitByWord
<1>2. b = w * q + u /\ u \in 0..w - 1 /\ q \in Int
  BY SplitByWord
<1> HIDE DEF p, q, t, u
<1>3. t - u = w * (q - p) + (a - b) /\ q - p \in Int /\ a - b \in 0..w - 1 /\ t - u \in Int
  BY <1>1, <1>2
<1>4. (t - u) % w = a - b
  <2> DEFINE x == t - u
             k == q - p
             r == a - b
  <2>1. x \in Int /\ k \in Int /\ r \in 0..w - 1 /\ x = w * k + r
    BY <1>3
  <2> HIDE DEF x, k, r
  <2>2. x % w = r
    BY <2>1, RemainderIsUnique
  <2> QED
    BY <2>2 DEF x, r
<1> QED
  BY <1>4 DEF t, u

LEMMA SumOfRemainders ==
  ASSUME NEW w \in Nat \ {0}, NEW a \in Int, NEW b \in Int
  PROVE  ((a % w) + (b % w)) % w = (a + b) % w
<1> DEFINE p == a \div w
           t == a % w
           q == b \div w
           u == b % w
           m == (a + b) % w
           n == (a + b) \div w
<1>1. a = w * p + t /\ t \in 0..w - 1 /\ p \in Int
  BY SplitByWord
<1>2. b = w * q + u /\ u \in 0..w - 1 /\ q \in Int
  BY SplitByWord
<1>3. a + b = w * n + m /\ m \in 0..w - 1 /\ n \in Int
  BY SplitByWord
<1> HIDE DEF p, q, t, u, m, n
<1>4. t + u = w * (n - p - q) + m /\ n - p - q \in Int /\ t + u \in Int
  BY <1>1, <1>2, <1>3
<1>5. (t + u) % w = m
  <2> DEFINE x == t + u
             k == n - p - q
  <2>1. x \in Int /\ k \in Int /\ x = w * k + m
    BY <1>4
  <2> HIDE DEF x, k
  <2>2. x % w = m
    BY <1>3, <2>1, RemainderIsUnique
  <2> QED
    BY <2>2 DEF x
<1> QED
  BY <1>5 DEF t, u, m

LEMMA SumOfThreeRemainders ==
  ASSUME NEW w \in Nat \ {0}, NEW a \in Int, NEW b \in Int, NEW c \in Int
  PROVE  ((a % w) + (b % w) + (c % w)) % w = (a + b + c) % w
<1> DEFINE t == a % w
           u == b % w
           v == c % w
           m == (a + b) % w
<1>1. t \in Int /\ u \in Int /\ v \in 0..w - 1 /\ m \in Int
  BY SplitByWord
<1>2. v % w = v
  <2>1. v = w * 0 + v
    BY <1>1
  <2> HIDE DEF v
  <2> QED
    BY <1>1, <2>1, RemainderIsUnique
<1>3. (t + u) % w = m
  BY SumOfRemainders
<1>4. (m + v) % w = ((a + b) + c) % w
  <2> DEFINE d == a + b
  <2>1. d \in Int
    OBVIOUS
  <2> HIDE DEF d
  <2>2. ((d % w) + (c % w)) % w = (d + c) % w
    BY <2>1, SumOfRemainders
  <2> QED
    BY <2>2 DEF d
<1> HIDE DEF t, u, v, m
<1>5. ((t + u) + v) % w = (m + v) % w
  <2> DEFINE d == t + u
  <2>1. d \in Int /\ v \in Int
    BY <1>1
  <2> HIDE DEF d
  <2>2. ((d % w) + (v % w)) % w = (d + v) % w
    BY <2>1, SumOfRemainders
  <2> QED
    BY <1>2, <1>3, <2>2 DEF d
<1> QED
  BY <1>4, <1>5 DEF t, u, v

(* The times of a sample are the true ones modulo the width. *)
LEMMA TimesOfSample ==
  ASSUME cpu \in [Cpu -> Nat], NEW skipped
  PROVE  /\ TotalTime(Sample(skipped).cpu) = Truth.total % Word
         /\ IdleTime(Sample(skipped).cpu) = (Truth.total - Truth.busy) % Word
<1> DEFINE b == cpu["busy"]
           i == cpu["idle"]
           w == cpu["iowait"]
<1>1. b \in Nat /\ i \in Nat /\ w \in Nat
  BY DEF Cpu
<1>2. Word \in Nat \ {0}
  BY NodeAssumption
<1>3. /\ Sample(skipped).cpu["busy"] = b % Word
      /\ Sample(skipped).cpu["idle"] = i % Word
      /\ Sample(skipped).cpu["iowait"] = w % Word
  BY DEF Sample, ReadCpu, Cpu
<1>4. /\ TotalTime(Sample(skipped).cpu) = ((b % Word) + (i % Word) + (w % Word)) % Word
      /\ IdleTime(Sample(skipped).cpu) = ((i % Word) + (w % Word)) % Word
  BY <1>3 DEF TotalTime, IdleTime
<1>5. Truth.total = b + i + w /\ Truth.busy = b
  BY DEF Truth
<1> HIDE DEF b, i, w
<1>6. b \in Int /\ i \in Int /\ w \in Int
  BY <1>1
<1>7. ((i % Word) + (w % Word)) % Word = (i + w) % Word
  BY <1>2, <1>6, SumOfRemainders, Zenon
<1>8. ((b % Word) + (i % Word) + (w % Word)) % Word = (b + i + w) % Word
  BY <1>2, <1>6, SumOfThreeRemainders, Zenon
<1>9. Truth.total - Truth.busy = i + w
  BY <1>5, <1>6
<1> QED
  BY <1>4, <1>5, <1>7, <1>8, <1>9, Zenon

(* The previous sample has the true times of its moment; unless iowait has  *)
(* stepped back, neither the busy nor the idle time has fallen since then.  *)
TimesTracked ==
  up => /\ last.total \in Nat /\ last.busy \in Nat
        /\ TotalTime(previous.cpu) = last.total % Word
        /\ IdleTime(previous.cpu) = (last.total - last.busy) % Word
        /\ ~stepped => /\ last.busy <= Truth.busy
                       /\ last.total - last.busy <= Truth.total - Truth.busy

LEMMA StaysTracked == TypeOK /\ TimesTracked /\ [Next]_vars => TimesTracked'
<1> SUFFICES ASSUME TypeOK, TimesTracked, [Next]_vars PROVE TimesTracked'
  OBVIOUS
<1>1. /\ cpu \in [Cpu -> Nat] /\ \A k \in Cpu : cpu[k] \in Nat
      /\ Truth.busy = cpu["busy"] /\ Truth.total = cpu["busy"] + cpu["idle"] + cpu["iowait"]
      /\ "busy" \in Cpu /\ "idle" \in Cpu /\ "iowait" \in Cpu
  BY DEF TypeOK, Truth, Cpu
<1>2. Truth.busy \in Nat /\ Truth.total \in Nat
  BY <1>1
<1>3. ASSUME UNCHANGED <<up, previous, last, stepped>>,
             \A k \in Cpu : cpu'[k] \in Nat /\ (~stepped => cpu[k] <= cpu'[k])
      PROVE  TimesTracked'
  <2>1. /\ Truth'.busy = cpu'["busy"]
        /\ Truth'.total = cpu'["busy"] + cpu'["idle"] + cpu'["iowait"]
    BY DEF Truth
  <2>2. ~stepped => /\ Truth.busy <= Truth'.busy
                   /\ Truth.total - Truth.busy <= Truth'.total - Truth'.busy
    BY <1>1, <1>3, <2>1
  <2>3. TotalTime(previous.cpu)' = TotalTime(previous.cpu) /\ IdleTime(previous.cpu)' = IdleTime(previous.cpu)
    BY <1>3 DEF TotalTime, IdleTime
  <2>4. Truth'.busy \in Nat /\ Truth'.total \in Nat
    BY <1>1, <1>3, <2>1
  <2> QED
    BY <1>2, <1>3, <2>2, <2>3, <2>4 DEF TimesTracked
<1>4. CASE Start \/ Collect
  <2>1. PICK skipped : previous' = Sample(skipped)
    BY <1>4 DEF Start, Collect, NextPrevious
  <2>2. last' = Truth /\ Truth' = Truth
    BY <1>4 DEF Start, Collect, Truth, kernelVars
  <2>3. /\ TotalTime(previous.cpu)' = Truth.total % Word
        /\ IdleTime(previous.cpu)' = (Truth.total - Truth.busy) % Word
    BY <1>1, <2>1, TimesOfSample DEF TotalTime, IdleTime
  <2> QED
    BY <1>2, <2>2, <2>3 DEF TimesTracked
<1>5. CASE Host
  <2>1. UNCHANGED <<up, previous, last>>
    BY <1>5 DEF Host, TimePasses, IowaitStepsBack, TcpCounts, Transfer, Detach, Attach, Starts,
                Runs, Ends, FileFails, FileRecovers, agentVars, historyVars
  <2>2. CASE IowaitStepsBack
    BY <2>1, <2>2 DEF IowaitStepsBack, TimesTracked, TotalTime, IdleTime
  <2>3. CASE ~IowaitStepsBack
    <3>1. stepped' = stepped
      BY <1>5, <2>3 DEF Host, TimePasses, TcpCounts, Transfer, Detach, Attach, Starts,
                        Runs, Ends, FileFails, FileRecovers, agentVars, historyVars
    <3>2. \/ cpu' = cpu \/ \E k \in Cpu : cpu' = [cpu EXCEPT ![k] = @ + 1]
      BY <1>1, <1>5, <2>3 DEF Host, TimePasses, TcpCounts, Transfer, Detach, Attach, Starts,
                        Runs, Ends, FileFails, FileRecovers
    <3>3. \A k \in Cpu : cpu'[k] \in Nat /\ cpu[k] <= cpu'[k]
      BY <1>1, <3>2
    <3> QED
      BY <1>3, <2>1, <3>1, <3>3
  <2> QED
    BY <2>2, <2>3
<1>6. CASE UNCHANGED vars \/ Fails \/ Stop
  BY <1>6 DEF Fails, Stop, vars, kernelVars, agentVars, historyVars, TimesTracked, Truth,
              TotalTime, IdleTime
<1> QED
  BY <1>4, <1>5, <1>6 DEF Next

(* The percentage that calculate_utilization() works out of two samples, in *)
(* unsigned arithmetic, is the true one, whether or not a counter has       *)
(* wrapped around, if it has not gone all the way round and iowait has not  *)
(* stepped back.                                                            *)
THEOREM UtilizationCorrect == Spec => UtilizationIsTrue
<1> DEFINE total == Truth.total - last.total
           True == (cycle' # cycle /\ ~stepped /\ total < Word) =>
                     Utilization(previous.cpu, previous'.cpu) =
                       [busy |-> Truth.busy - last.busy, total |-> total]
<1>1. TypeOK /\ TimesTracked /\ [Next]_vars => [True]_vars
  <2> SUFFICES ASSUME TypeOK, TimesTracked, Next, cycle' # cycle, ~stepped, total < Word
               PROVE  Utilization(previous.cpu, previous'.cpu) =
                        [busy |-> Truth.busy - last.busy, total |-> total]
    OBVIOUS
  <2>1. Collect
    BY DEF Next, Host, TimePasses, IowaitStepsBack, TcpCounts, Transfer, Detach, Attach, Starts,
           Runs, Ends, FileFails, FileRecovers, Start, Fails, Stop, agentVars
  <2>2. up /\ \E skipped : previous' = Sample(skipped)
    BY <2>1 DEF Collect, NextPrevious
  <2> DEFINE t == Truth.total
             b == Truth.busy
             l == last.total
             c == last.busy
             T == (TotalTime(previous'.cpu) - TotalTime(previous.cpu)) % Word
             I == (IdleTime(previous'.cpu) - IdleTime(previous.cpu)) % Word
  <2>3. t \in Nat /\ b \in Nat /\ l \in Nat /\ c \in Nat /\ b <= t
    BY <2>2 DEF TypeOK, Truth, Cpu, TimesTracked
  <2>4. c <= b /\ l - c <= t - b /\ t - l < Word
    BY <2>2 DEF TimesTracked
  <2>5. /\ TotalTime(previous'.cpu) = t % Word /\ IdleTime(previous'.cpu) = (t - b) % Word
        /\ TotalTime(previous.cpu) = l % Word /\ IdleTime(previous.cpu) = (l - c) % Word
    BY <2>2, TimesOfSample DEF TypeOK, TimesTracked
  <2> HIDE DEF t, b, l, c
  <2>6. Word \in Nat \ {0}
    BY NodeAssumption
  <2>7. T = t - l
    <3>1. t \in Int /\ l \in Int /\ t >= l
      BY <2>3, <2>4
    <3> QED
      BY <2>4, <2>5, <2>6, <3>1, DifferenceOfRemainders
  <2>8. I = (t - b) - (l - c)
    <3> DEFINE x == t - b
               y == l - c
    <3>1. x \in Int /\ y \in Int /\ x >= y /\ x - y < Word
      BY <2>3, <2>4, <2>6
    <3> HIDE DEF x, y
    <3>2. ((x % Word) - (y % Word)) % Word = x - y
      BY <2>6, <3>1, DifferenceOfRemainders
    <3> QED
      BY <2>5, <3>2 DEF x, y
  <2>9. Utilization(previous.cpu, previous'.cpu) = [busy |-> IF T = 0 THEN 0 ELSE T - I, total |-> T]
    BY DEF Utilization
  <2>10. (IF T = 0 THEN 0 ELSE T - I) = b - c
    BY <2>3, <2>4, <2>7, <2>8
  <2> QED
    BY <2>7, <2>9, <2>10 DEF t, b, l, c
<1>2. Init => TimesTracked
  BY DEF Init, TimesTracked
<1> QED
  BY <1>1, <1>2, StaysTracked, TypeCorrect, PTL DEF Spec, UtilizationIsTrue
===============================================================================
