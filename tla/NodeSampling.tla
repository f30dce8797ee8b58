----------------------------- MODULE NodeSampling -----------------------------
(***************************************************************************)
(* What the agent makes of the counters of the host (agent/src/linux/*,    *)
(* telemetry_collector.cpp): the constructor of TelemetryCollector takes a *)
(* first sample, collect() one per cycle, and all figures of a snapshot    *)
(* that are rates are differences between two samples.  Memory and         *)
(* pressure are no rates: only collect() reads them.                       *)
(*                                                                         *)
(* The kernel counts on while the agent is down.  Files of /proc can be    *)
(* unreadable: some of them make collect() throw, which ends the process,  *)
(* others read as zeros.  One of them, meminfo, stops collect() but not    *)
(* the constructor, so that the agent starts, dies and is started again    *)
(* for as long as it is unreadable.  Devices and processes come and go,    *)
(* and a pid is used again.                                                *)
(***************************************************************************)
EXTENDS Sums

CONSTANTS
  Device,     \* network interfaces and disks
  Disk,       \* the disks among them
  Ignored,    \* lo; loop, ram and zram devices, partitions
  Hotplug,    \* devices that come and go: the interfaces of pods
  Pid,
  MaxTasks,   \* bound on the processes started, whatever their pids
  MaxEvents,  \* bound on what happens outside the agent
  MayFail,    \* files that can become unreadable
  Word        \* the counters are printed modulo this (2^64)

Task == 1..MaxTasks
Cpu  == {"busy", "idle", "iowait"}

(* The files without which a collector throws, and those that it can do    *)
(* without.  meminfo counts as unreadable also when MemAvailable is 0,     *)
(* which MemoryCollector takes for a parse error.                          *)
Required == {"stat", "meminfo", "net/dev", "snmp", "diskstats"}
Optional == {"netstat", "pressure"}

ASSUME NodeAssumption ==
  /\ IsFiniteSet(Device) /\ {Disk, Ignored, Hotplug} \subseteq SUBSET Device
  /\ 0 \notin Pid
  /\ MaxEvents \in Nat /\ {MaxTasks, Word} \subseteq Nat \ {0}
  /\ MayFail \subseteq Required \cup Optional

VARIABLES
  cpu,         \* /proc/stat: ticks spent busy, idle and waiting for I/O
  segments,    \* /proc/net/snmp: a counter of Tcp
  timeouts,    \* /proc/net/netstat: a counter of TcpExt
  bytes,       \* per device: what it has transferred since it was attached
  attached,    \* devices that exist
  task,        \* per pid: the process that has it, 0 if none
  ticks,       \* per process: its CPU time
  unreadable,  \* files that cannot be read at present
  events,      \* how much of the budget is spent
  up,          \* the agent runs
  previous,    \* previous_*_sample_ of TelemetryCollector
  cycle,       \* history: parity of the snapshots taken
  moved,       \* history: bytes transferred by the devices that are not ignored
  started,     \* history: the true counters when this life began
  last,        \* history: the true counters at the last sample
  stepped,     \* history: iowait has stepped back since the last sample
  detached,    \* history: the kinds of which a device has gone away in this life
  erased,      \* history: readings of netstat that a blackout has erased
  counted,     \* history: sums of what the snapshots of this life report
  charged      \* history: per process, the CPU time ever reported for it

kernelVars  == <<cpu, segments, timeouts, bytes, attached, task, ticks, unreadable>>
historyVars == <<moved, started, last, stepped, detached, erased, counted, charged>>
agentVars   == <<up, previous, cycle>>
vars        == <<kernelVars, events, agentVars, historyVars>>

Live == {p \in Pid : task[p] # 0}

-------------------------------------------------------------------------------
(* One sample of the collectors whose figures are rates.  A file that is   *)
(* required but unreadable makes all of it fail, see StartThrows, Throws.  *)

Kind == {"network", "disk"}
KindOf(d) == IF d \in Disk THEN "disk" ELSE "network"

ReadCpu == [k \in Cpu |-> cpu[k] % Word]

(* netstat reads as zeros if it cannot be opened. *)
ReadSnmp    == segments
ReadNetstat == IF "netstat" \in unreadable THEN 0 ELSE timeouts

(* All interfaces, and the whole disks that are not virtual. *)
ReadInterfaces == [d \in attached \ Disk |-> bytes[d]]
ReadDisks      == [d \in (attached \cap Disk) \ Ignored |-> bytes[d]]

ReadPressure == "pressure" \notin unreadable

(* A process of which the stat file cannot be read, because it ends         *)
(* meanwhile, is skipped.                                                   *)
ReadStat(p)            == ticks[task[p]]
ReadProcesses(skipped) == [p \in Live \ skipped |-> ReadStat(p)]

Sample(skipped) ==
  [cpu |-> ReadCpu, segments |-> ReadSnmp, timeouts |-> ReadNetstat,
   network |-> ReadInterfaces, disk |-> ReadDisks,
   ticks |-> ReadProcesses(skipped)]

(* Mutant: netstat is required as snmp is. *)
ThrowsWithoutNetstat == unreadable \cap (Required \cup {"netstat"}) # {}

(* The constructor takes its first sample without meminfo. *)
StartThrows == unreadable \cap (Required \ {"meminfo"}) # {}

(* collect() reads all of it, and one file is enough for it to throw. *)
Throws == unreadable \cap Required # {}

(* Mutant: a counter that has stepped back is reported by its distance. *)
Distance(before, now) == IF now < before THEN before - now ELSE now - before

(* Mutant: the difference is not guarded. *)
PlainDelta(before, now) == now - before

PositiveDelta(before, now) == IF now < before THEN 0 ELSE now - before

(* Mutant: the time waited for I/O is left out. *)
TotalTimeWithoutIowait(time) == (time["busy"] + time["idle"]) % Word

TotalTime(time) == (time["busy"] + time["idle"] + time["iowait"]) % Word
IdleTime(time)  == (time["idle"] + time["iowait"]) % Word

(* calculate_utilization(): the difference of two unsigned numbers wraps   *)
(* around.  Numerator and denominator of the percentage.                   *)
Utilization(before, now) ==
  LET total == (TotalTime(now) - TotalTime(before)) % Word
      idle  == (IdleTime(now) - IdleTime(before)) % Word
  IN  [busy |-> IF total = 0 THEN 0 ELSE total - idle, total |-> total]

(* The sum over the interfaces but lo. *)
AggregateBytes(counter) == Total(counter, DOMAIN counter \ Ignored)

(* aggregate_*(): the sum over the disks of a sample. *)
Aggregate(counter) == Total(counter, DOMAIN counter)

(* calculate_rx_bytes_per_second() and its twin. *)
NetworkBytes(before, now) == PositiveDelta(AggregateBytes(before), AggregateBytes(now))

(* build_process_metrics(): a process is known by its pid; the first sample *)
(* of a pid reports nothing, and neither does a cycle in which the host     *)
(* seems to have spent no time.                                             *)
ProcessTime(before, now) ==
  [p \in DOMAIN now.ticks |->
     IF /\ p \in DOMAIN before.ticks
        /\ PositiveDelta(TotalTime(before.cpu), TotalTime(now.cpu)) > 0
     THEN PositiveDelta(before.ticks[p], now.ticks[p])
     ELSE 0]

(* The figures of a snapshot, from two samples and the pressure of now. *)
Report(before, now) ==
  [cpu      |-> Utilization(before.cpu, now.cpu),
   segments |-> PositiveDelta(before.segments, now.segments),
   timeouts |-> PositiveDelta(before.timeouts, now.timeouts),
   network  |-> NetworkBytes(before.network, now.network),
   disk     |-> PositiveDelta(Aggregate(before.disk), Aggregate(now.disk)),
   pressure |-> ReadPressure,
   ticks    |-> ProcessTime(before, now)]

(* The true counters of a moment. *)
Truth ==
  [busy |-> cpu["busy"], total |-> cpu["busy"] + cpu["idle"] + cpu["iowait"],
   segments |-> segments, moved |-> moved]

Counted == {"segments", "timeouts"} \cup Kind

-------------------------------------------------------------------------------
(* The host has been up for a while, and one process has run on it. *)
Init ==
  /\ cpu = [k \in Cpu |-> 1] /\ segments = 1 /\ timeouts = 1
  /\ bytes = [d \in Device |-> 1] /\ attached = Device
  /\ \E p \in Pid : task = [q \in Pid |-> IF q = p THEN 1 ELSE 0]
  /\ ticks = [t \in Task |-> IF t = 1 THEN 1 ELSE 0]
  /\ unreadable = {} /\ events = 0
  /\ up = FALSE /\ previous = Sample({}) /\ cycle = 0
  /\ moved = [k \in Kind |-> 0] /\ last = Truth
  /\ started = [segments |-> 0, timeouts |-> 0, moved |-> moved]
  /\ stepped = FALSE /\ detached = {} /\ erased = 0
  /\ counted = [m \in Counted |-> 0]
  /\ charged = [t \in Task |-> 0]

Event == events < MaxEvents /\ events' = events + 1

-------------------------------------------------------------------------------
(* The host.                                                               *)

TimePasses ==
  /\ Event
  /\ \E k \in Cpu : cpu' = [cpu EXCEPT ![k] = @ + 1]
  /\ UNCHANGED <<segments, timeouts, bytes, attached, task, ticks, unreadable,
                 agentVars, historyVars>>

(* proc(5): the value of iowait may decrease. *)
IowaitStepsBack ==
  /\ Event /\ cpu["iowait"] > 0
  /\ cpu' = [cpu EXCEPT !["iowait"] = @ - 1]
  /\ stepped' = TRUE
  /\ UNCHANGED <<segments, timeouts, bytes, attached, task, ticks, unreadable, agentVars,
                 moved, started, last, detached, erased, counted, charged>>

TcpCounts ==
  /\ Event
  /\ \/ segments' = segments + 1 /\ timeouts' = timeouts
     \/ timeouts' = timeouts + 1 /\ segments' = segments
  /\ UNCHANGED <<cpu, bytes, attached, task, ticks, unreadable, agentVars, historyVars>>

Transfer(d) ==
  /\ Event /\ d \in attached
  /\ bytes' = [bytes EXCEPT ![d] = @ + 1]
  /\ moved' = IF d \in Ignored THEN moved ELSE [moved EXCEPT ![KindOf(d)] = @ + 1]
  /\ UNCHANGED <<cpu, segments, timeouts, attached, task, ticks, unreadable, agentVars,
                 started, last, stepped, detached, erased, counted, charged>>

(* A pod's interface goes with the pod, and its counters go with it. *)
Detach(d) ==
  /\ Event /\ d \in attached
  /\ attached' = attached \ {d}
  /\ bytes' = [bytes EXCEPT ![d] = 0]
  /\ detached' = detached \cup {KindOf(d)}
  /\ UNCHANGED <<cpu, segments, timeouts, task, ticks, unreadable, agentVars,
                 moved, started, last, stepped, erased, counted, charged>>

Attach(d) ==
  /\ Event /\ d \notin attached
  /\ attached' = attached \cup {d}
  /\ UNCHANGED <<cpu, segments, timeouts, bytes, task, ticks, unreadable,
                 agentVars, historyVars>>

(* A process starts under a free pid, which may have been another's. *)
Starts(p, t) ==
  /\ Event /\ task[p] = 0
  /\ \A q \in Pid : task[q] < t
  /\ ticks[t] = 0
  /\ task' = [task EXCEPT ![p] = t]
  /\ UNCHANGED <<cpu, segments, timeouts, bytes, attached, ticks, unreadable,
                 agentVars, historyVars>>

Runs(p) ==
  /\ Event /\ p \in Live
  /\ ticks' = [ticks EXCEPT ![task[p]] = @ + 1]
  /\ cpu' = [cpu EXCEPT !["busy"] = @ + 1]
  /\ UNCHANGED <<segments, timeouts, bytes, attached, task, unreadable,
                 agentVars, historyVars>>

Ends(p) ==
  /\ Event /\ p \in Live
  /\ task' = [task EXCEPT ![p] = 0]
  /\ UNCHANGED <<cpu, segments, timeouts, bytes, attached, ticks, unreadable,
                 agentVars, historyVars>>

FileFails(f) ==
  /\ Event /\ f \in MayFail \ unreadable
  /\ unreadable' = unreadable \cup {f}
  /\ UNCHANGED <<cpu, segments, timeouts, bytes, attached, task, ticks,
                 agentVars, historyVars>>

FileRecovers(f) ==
  /\ f \in unreadable
  /\ unreadable' = unreadable \ {f}
  /\ UNCHANGED <<cpu, segments, timeouts, bytes, attached, task, ticks, events,
                 agentVars, historyVars>>

Host ==
  \/ TimePasses \/ IowaitStepsBack \/ TcpCounts
  \/ \E d \in Device : Transfer(d)
  \/ \E d \in Hotplug : Detach(d) \/ Attach(d)
  \/ \E p \in Pid : (\E t \in Task : Starts(p, t)) \/ Runs(p) \/ Ends(p)
  \/ \E f \in MayFail : FileFails(f) \/ FileRecovers(f)

-------------------------------------------------------------------------------
(* The agent.                                                              *)

(* The constructor.  If it throws, systemd tries again.  What it does not   *)
(* read does not stop it: a life can begin that its first collect() ends.   *)
Start ==
  /\ ~up /\ ~StartThrows
  /\ \E skipped \in SUBSET Live : previous' = Sample(skipped)
  /\ up' = TRUE
  /\ started' = [segments |-> segments, timeouts |-> timeouts, moved |-> moved]
  /\ last' = Truth
  /\ stepped' = FALSE /\ detached' = {}
  /\ erased' = IF "netstat" \in unreadable THEN timeouts ELSE 0
  /\ counted' = [m \in Counted |-> 0]
  /\ UNCHANGED <<kernelVars, events, cycle, moved, charged>>

(* What a snapshot reports for a process. *)
Charge(reported, t) == IF \E p \in DOMAIN reported : task[p] = t
                       THEN reported[CHOOSE p \in DOMAIN reported : task[p] = t]
                       ELSE 0

(* Mutant: the samples of the last cycle but one are kept. *)
NextPreviousStale(now) == [now EXCEPT !.segments = previous.segments, !.ticks = previous.ticks]

(* The samples that the next cycle starts from. *)
NextPrevious(now) == now

Collect ==
  /\ up /\ ~Throws
  /\ \E skipped \in SUBSET Live :
       LET now      == Sample(skipped)
           snapshot == Report(previous, now)
       IN  /\ previous' = NextPrevious(now)
           /\ counted' = [m \in Counted |-> counted[m] + snapshot[m]]
           /\ charged' = [t \in Task |-> charged[t] + Charge(snapshot.ticks, t)]
  /\ erased' = IF "netstat" \in unreadable THEN erased + previous.timeouts ELSE erased
  /\ last' = Truth /\ stepped' = FALSE
  /\ cycle' = 1 - cycle
  /\ UNCHANGED <<kernelVars, events, up, moved, started, detached>>

(* collect() throws and main() returns 1. *)
Fails ==
  /\ up /\ Throws
  /\ up' = FALSE
  /\ UNCHANGED <<kernelVars, events, previous, cycle, historyVars>>

(* A signal, or the end of the process for another reason. *)
Stop ==
  /\ Event /\ up
  /\ up' = FALSE
  /\ UNCHANGED <<kernelVars, previous, cycle, historyVars>>

Next == Host \/ Start \/ Collect \/ Fails \/ Stop

Spec == Init /\ [][Next]_vars

(* The loop of main() goes on, and systemd starts the agent again. *)
FairSpec == Spec /\ WF_vars(Start \/ Collect)

-------------------------------------------------------------------------------
(* Properties.                                                             *)

Times == [Cpu -> 0..Word - 1]

SampleOK(s) ==
  /\ s.cpu \in Times /\ s.segments \in Nat /\ s.timeouts \in Nat
  /\ DOMAIN s.network \subseteq Device \ Disk /\ \A d \in DOMAIN s.network : s.network[d] \in Nat
  /\ DOMAIN s.disk \subseteq Disk \ Ignored /\ \A d \in DOMAIN s.disk : s.disk[d] \in Nat
  /\ DOMAIN s.ticks \subseteq Pid /\ \A p \in DOMAIN s.ticks : s.ticks[p] \in Nat

(* Every variable keeps its type; in particular no sum of what collect()   *)
(* reports falls below zero.                                               *)
TypeOK ==
  /\ cpu \in [Cpu -> Nat] /\ segments \in Nat /\ timeouts \in Nat
  /\ bytes \in [Device -> Nat] /\ attached \subseteq Device
  /\ task \in [Pid -> 0..MaxTasks] /\ ticks \in [Task -> Nat]
  /\ unreadable \subseteq MayFail /\ events \in 0..MaxEvents
  /\ up \in BOOLEAN /\ cycle \in {0, 1}
  /\ SampleOK(previous)
  /\ counted \in [Counted -> Nat] /\ charged \in [Task -> Nat]

(* Over the snapshots of one life of the agent, every increment of a TCP    *)
(* counter is reported exactly once, from the sample of the constructor to  *)
(* the last one: nothing that was counted while the agent was down, nothing *)
(* twice, nothing lost.  An unreadable netstat is the exception: when it    *)
(* can be read again, exactly what the blackout erased is reported anew.    *)
CountedExactly ==
  up => /\ counted.segments = last.segments - started.segments
        /\ counted.timeouts = previous.timeouts - started.timeouts + erased

(* The transfers reported for the node, per kind of device, never exceed    *)
(* what its devices have transferred since the agent started, whatever is   *)
(* attached and detached meanwhile.  They are exact until a device goes     *)
(* away, which hides as much traffic of the others as it had counted.       *)
BytesCountedOnce ==
  up => \A k \in Kind :
          /\ counted[k] <= last.moved[k] - started.moved[k]
          /\ k \notin detached => counted[k] = last.moved[k] - started.moved[k]

(* Over its whole life a process is charged with no more CPU time than it  *)
(* has used, although its pid may have been another's in the sample before *)
(* and the agent may have been restarted in between.                       *)
ChargedWithinLife == \A t \in Task : charged[t] <= ticks[t]

(* The CPU utilization of a cycle is the true one, also when a counter     *)
(* wraps around, as long as iowait does not step back.                     *)
UtilizationIsTrue ==
  [][LET total == Truth.total - last.total
     IN  (cycle' # cycle /\ ~stepped /\ total < Word) =>
           Utilization(previous.cpu, previous'.cpu) =
             [busy |-> Truth.busy - last.busy, total |-> total]]_vars

(* As long as the files that it cannot do without are readable, the agent   *)
(* goes on taking snapshots: netstat and the pressure files never stop it,  *)
(* and it comes back after whatever made it fail before, be it a constructor*)
(* that could not take its first sample or a series of lives that began     *)
(* without meminfo and ended in their first collect().                      *)
KeepsReporting ==
  <>[](unreadable \cap Required = {}) => []<>(cycle = 0) /\ []<>(cycle = 1)

===============================================================================
