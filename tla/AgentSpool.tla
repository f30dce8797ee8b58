------------------------------ MODULE AgentSpool ------------------------------
(***************************************************************************)
(* The host agent's disk spool and the two threads that share it           *)
(* (agent/src/infrastructure_exporter.cpp, agent/src/main.cpp).            *)
(*                                                                         *)
(* The main thread collects a snapshot every second and enqueues it: it    *)
(* writes NAME.json.tmp, renames it to NAME.json and drops the oldest      *)
(* files while the spool is over its limit, all under spool_mutex_.  The   *)
(* exporter thread picks a batch under the mutex, sends it WITHOUT the     *)
(* mutex, and takes the mutex again to remove the files of a batch that    *)
(* was answered.  The process may be stopped or killed at any step; only   *)
(* the directory survives.                                                 *)
(*                                                                         *)
(* How a request is answered is not decided here: Accepted, Rejected and   *)
(* SendFails are the three results of send(), and the module that composes *)
(* the agent with the server says when each happens.                       *)
(***************************************************************************)
EXTENDS DeliveryBase, Sums

CONSTANTS
  SizeOf,             \* bytes of each snapshot's file
  SpoolMaxBytes,      \* --spool-max-bytes
  MaxBatchSnapshots,  \* kMaximumBatchSnapshots
  MaxBatchBytes,      \* kMaximumBatchBytes
  FailureCap,         \* the failure counter saturates here (5 in the code)
  Unreadable          \* snapshots whose file cannot be read back

ASSUME SpoolAssumption ==
  /\ SizeOf \in [Snapshot -> Nat \ {0}]
  /\ SpoolMaxBytes \in Nat \ {0}
  /\ MaxBatchSnapshots \in Nat \ {0}
  /\ MaxBatchBytes \in Nat
  /\ FailureCap \in Nat \ {0}
  /\ Unreadable \subseteq Snapshot

VARIABLES
  now,        \* the host's clock
  agentUp,    \* the process is running
  stopping,   \* stop_requested
  producer,   \* main thread: "idle", "writing" the .tmp file, "enforcing" the limit
  current,    \* the snapshot the main thread is enqueueing (0: none)
  spool,      \* NAME.json files
  tmp,        \* NAME.json.tmp files
  damaged,    \* NAME.json files whose last bytes never reached the disk
  exporter,   \* exporter thread: "idle", "sending", the answer, "removing", "backoff"
  batch,      \* the files of the request in progress
  failures,   \* consecutive failed requests
  queued,     \* history: every snapshot that reached the spool
  evicted,    \* history: files the spool limit dropped
  refused,    \* history: files of a batch the server rejected
  overfull    \* history: enforce_spool_limit() was not completed

processVars  == <<agentUp, stopping>>
producerVars == <<producer, current>>
diskVars     == <<spool, tmp, damaged>>
exporterVars == <<exporter, batch, failures>>
historyVars  == <<queued, evicted, refused, overfull>>
agentVars    == <<now, processVars, producerVars, diskVars, exporterVars, historyVars>>

-------------------------------------------------------------------------------
TotalSize(S) == Total(SizeOf, S)

(* Mutant: the batch is assembled from the newest file on. *)
UpToNewestFirst(S, s) == {t \in S : t >= s}

UpTo(S, s) == {t \in S : t <= s}

(* Mutant: a file that exceeds the byte limit on its own is never taken. *)
FitsUnlessLarge(taken) ==
  Cardinality(taken) <= MaxBatchSnapshots /\ TotalSize(taken) <= MaxBatchBytes

(* The limits of a batch; its first file always fits. *)
Fits(taken) ==
  \/ Cardinality(taken) = 1
  \/ Cardinality(taken) <= MaxBatchSnapshots /\ TotalSize(taken) <= MaxBatchBytes

(* The batch run() assembles: files in name order, until the next one does *)
(* not fit any more.                                                       *)
NextBatch(S) == {s \in S : \A last \in UpTo(S, s) : Fits(UpTo(S, last))}

(* Mutant: the comparison is off by one. *)
OverLimitByMoreThanOne == TotalSize(spool) > SpoolMaxBytes + 1

OverLimit == TotalSize(spool) > SpoolMaxBytes

(* spool_mutex_ is free: enqueue() holds it throughout, run() while it *)
(* removes a batch; picking a batch is a single step.                  *)
MutexFree == producer = "idle" /\ exporter # "removing"

InitAgent ==
  /\ now = 0
  /\ agentUp = TRUE /\ stopping = FALSE
  /\ producer = "idle" /\ current = 0
  /\ spool = {} /\ tmp = {} /\ damaged = {}
  /\ exporter = "idle" /\ batch = {} /\ failures = 0
  /\ queued = {} /\ evicted = {} /\ refused = {} /\ overfull = FALSE

(* Time passes without a snapshot: the agent is down or collects slowly. *)
Tick ==
  /\ now < MaxTime
  /\ now' = now + 1
  /\ UNCHANGED <<processVars, producerVars, diskVars, exporterVars, historyVars, faults>>

-------------------------------------------------------------------------------
(* The main thread. *)

(* collect() and the first half of enqueue(): the .tmp file is created. *)
Collect ==
  /\ agentUp /\ ~stopping /\ MutexFree
  /\ now < MaxTime
  /\ now' = now + 1
  /\ current' = now + 1
  /\ tmp' = tmp \cup {now + 1}
  /\ producer' = "writing"
  /\ UNCHANGED <<processVars, spool, damaged, exporterVars, historyVars, faults>>

(* The write or the rename throws, and the .tmp file is left behind, or  *)
(* enforce_spool_limit() does, which leaves the spool over its limit: in  *)
(* either case main() asks the exporter to stop and the process exits.    *)
EnqueueThrows ==
  /\ producer \in {"writing", "enforcing"}
  /\ Strike
  /\ producer' = "idle" /\ current' = 0
  /\ stopping' = TRUE
  /\ overfull' = (overfull \/ producer = "enforcing")
  /\ UNCHANGED <<now, agentUp, diskVars, exporterVars, queued, evicted, refused>>

(* The .tmp file is renamed into the spool.  The stream is checked before *)
(* it is flushed by its destructor, so a disk that fills up during that   *)
(* flush goes unnoticed and the renamed file is incomplete.               *)
Publish ==
  /\ producer = "writing"
  /\ tmp' = tmp \ {current}
  /\ spool' = spool \cup {current}
  /\ queued' = queued \cup {current}
  /\ \/ UNCHANGED <<damaged, faults>>
     \/ Strike /\ damaged' = damaged \cup {current}
  /\ producer' = "enforcing"
  /\ UNCHANGED <<now, processVars, current, exporterVars, evicted, refused, overfull>>

(* One turn of enforce_spool_limit(): it may drop a file that is part of *)
(* the request in progress, and even the file just enqueued.             *)
DropOldest ==
  /\ producer = "enforcing"
  /\ OverLimit
  /\ \E s \in Oldest(spool) :
       /\ spool' = spool \ {s}
       /\ evicted' = evicted \cup {s}
  /\ UNCHANGED <<now, processVars, producerVars, tmp, damaged, exporterVars,
                 queued, refused, overfull, faults>>

EndEnqueue ==
  /\ producer = "enforcing"
  /\ ~OverLimit
  /\ producer' = "idle" /\ current' = 0
  /\ overfull' = FALSE
  /\ UNCHANGED <<now, processVars, diskVars, exporterVars, queued, evicted, refused, faults>>

-------------------------------------------------------------------------------
(* The exporter thread. *)

MayPoll == agentUp /\ ~stopping /\ exporter = "idle" /\ MutexFree

PickBatch ==
  /\ MayPoll
  /\ NextBatch(spool) # {}
  /\ NextBatch(spool) \cap Unreadable = {}
  /\ batch' = NextBatch(spool)
  /\ exporter' = "sending"
  /\ UNCHANGED <<now, processVars, producerVars, diskVars, failures, historyVars, faults>>

(* Nothing to send, or a file of the batch cannot be read: the failure *)
(* counter is cleared and the thread sleeps for 100 ms.                *)
IdlePoll ==
  /\ MayPoll
  /\ NextBatch(spool) = {} \/ NextBatch(spool) \cap Unreadable # {}
  /\ failures' = 0
  /\ UNCHANGED <<now, processVars, producerVars, diskVars, exporter, batch, historyVars, faults>>

(* The three results of send(). *)
Answered(result) ==
  /\ exporter = "sending"
  /\ exporter' = result
  /\ UNCHANGED <<now, processVars, producerVars, diskVars, batch, failures, historyVars>>

Accepted == Answered("accepted")

Rejected == Answered("rejected")

(* Mutant: the counter is not capped. *)
OneMoreFailureUncapped == failures + 1

OneMoreFailure == IF failures < FailureCap THEN failures + 1 ELSE FailureCap

SendFails ==
  /\ exporter = "sending"
  /\ exporter' = "backoff"
  /\ batch' = {}
  /\ failures' = OneMoreFailure
  /\ UNCHANGED <<now, processVars, producerVars, diskVars, historyVars>>

(* The mutex is taken again to remove the batch, whichever answer it got. *)
StartRemoval ==
  /\ exporter \in {"accepted", "rejected"}
  /\ MutexFree
  /\ exporter' = "removing"
  /\ refused' = IF exporter = "rejected" THEN refused \cup (batch \cap spool) ELSE refused
  /\ UNCHANGED <<now, processVars, producerVars, diskVars, batch, failures,
                 queued, evicted, overfull, faults>>

(* Mutant: the whole spool is cleared. *)
RemovableEverything == spool

(* What is left of the batch: some of it may have been evicted meanwhile. *)
Removable == batch \cap spool

RemoveOne ==
  /\ exporter = "removing"
  /\ \E s \in Oldest(Removable) : spool' = spool \ {s}
  /\ UNCHANGED <<now, processVars, producerVars, tmp, damaged, exporterVars, historyVars, faults>>

EndRemoval ==
  /\ exporter = "removing"
  /\ Removable = {}
  /\ exporter' = "idle" /\ batch' = {} /\ failures' = 0
  /\ UNCHANGED <<now, processVars, producerVars, diskVars, historyVars, faults>>

BackoffElapsed ==
  /\ exporter = "backoff"
  /\ exporter' = "idle"
  /\ UNCHANGED <<now, processVars, producerVars, diskVars, batch, failures, historyVars, faults>>

-------------------------------------------------------------------------------
(* The process. *)

GoDown ==
  /\ agentUp' = FALSE /\ stopping' = FALSE
  /\ producer' = "idle" /\ current' = 0
  /\ exporter' = "idle" /\ batch' = {} /\ failures' = 0
  /\ UNCHANGED <<now, diskVars, queued, evicted, refused>>

(* SIGINT or SIGTERM. *)
RequestStop ==
  /\ agentUp /\ ~stopping
  /\ Strike
  /\ stopping' = TRUE
  /\ UNCHANGED <<now, agentUp, producerVars, diskVars, exporterVars, historyVars>>

(* main() returns once the exporter thread has left its loop, which it *)
(* does only at the top of the loop or out of a back-off.              *)
Exit ==
  /\ agentUp /\ stopping
  /\ producer = "idle" /\ exporter \in {"idle", "backoff"}
  /\ GoDown
  /\ UNCHANGED <<overfull, faults>>

(* The process dies between any two steps. *)
Crash ==
  /\ agentUp
  /\ Strike
  /\ GoDown
  /\ overfull' = (overfull \/ producer = "enforcing")

(* systemd restarts the service (Restart=always). *)
Restart ==
  /\ ~agentUp
  /\ agentUp' = TRUE
  /\ UNCHANGED <<now, stopping, producerVars, diskVars, exporterVars, historyVars, faults>>

-------------------------------------------------------------------------------
ProducerStep == Collect \/ EnqueueThrows \/ Publish \/ DropOldest \/ EndEnqueue

ExporterStep ==
  PickBatch \/ IdlePoll \/ StartRemoval \/ RemoveOne \/ EndRemoval \/ BackoffElapsed

(* The agent on its own: any request may get any answer. *)
AnyAnswer == (Accepted \/ Rejected \/ SendFails) /\ UNCHANGED faults

AgentNext ==
  \/ Tick \/ ProducerStep \/ ExporterStep \/ AnyAnswer
  \/ RequestStop \/ Exit \/ Crash \/ Restart

AgentInit == InitAgent /\ faults = 0

AgentSpec == AgentInit /\ [][AgentNext]_<<agentVars, faults>>

-------------------------------------------------------------------------------
(* Every variable has its type. *)
AgentTypeOK ==
  /\ now \in 0..MaxTime
  /\ faults \in 0..MaxFaults
  /\ agentUp \in BOOLEAN /\ stopping \in BOOLEAN
  /\ producer \in {"idle", "writing", "enforcing"}
  /\ current \in IF producer = "idle" THEN {0} ELSE Snapshot
  /\ spool \subseteq Snapshot /\ tmp \subseteq Snapshot /\ damaged \subseteq Snapshot
  /\ exporter \in {"idle", "sending", "accepted", "rejected", "removing", "backoff"}
  /\ batch \subseteq Snapshot
  /\ failures \in 0..FailureCap
  /\ queued \subseteq Snapshot /\ evicted \subseteq Snapshot /\ refused \subseteq Snapshot
  /\ overfull \in BOOLEAN

(* Whenever the mutex is free the .json files are within --spool-max-bytes, *)
(* unless enforce_spool_limit() threw or the process died in the middle of  *)
(* it, and no enqueue() has been completed since.                           *)
SpoolWithinLimit ==
  producer # "enforcing" /\ ~overfull => TotalSize(spool) <= SpoolMaxBytes

(* Snapshots leave the spool oldest first, whoever removes them: the exporter *)
(* removing a batch it picked long ago, or the main thread evicting files     *)
(* (some of them of that very batch) in the meantime.                         *)
DrainsInOrder ==
  [][\A gone \in spool \ spool', kept \in spool \cap spool' : gone < kept]_spool

(* README.md calls the spool bounded: the directory should never hold more    *)
(* than its limit and the one file being enqueued.                            *)
DirectoryBounded ==
  TotalSize(spool \cup tmp) <= SpoolMaxBytes + Max({SizeOf[s] : s \in Snapshot})
===============================================================================
