--------------------------- MODULE AgentSpool_Proofs ---------------------------
(***************************************************************************)
(* The agent, for every size of its files, every limit and every answer of *)
(* the server: its types, that the spool keeps its limit and drains oldest *)
(* first although two threads remove files from it, and that neither       *)
(* thread gets stuck with the mutex.                                       *)
(*                                                                         *)
(* The lemmas on types are stated of the agent's own steps, so that the    *)
(* pipeline, which decides how requests are answered, can use them too.    *)
(***************************************************************************)
EXTENDS AgentSpool, Sums_Proofs

(* What the agent does whoever answers its requests. *)
AgentOwnStep ==
  Tick \/ ProducerStep \/ ExporterStep \/ RequestStop \/ Exit \/ Crash \/ Restart

(* What run() sends is a part of the spool. *)
LEMMA BatchComesFromTheSpool ==
  ASSUME NEW S PROVE NextBatch(S) \subseteq S
BY DEF NextBatch

(* The oldest and the latest of a set are members of it. *)
LEMMA ExtremesAreMembers ==
  ASSUME NEW S PROVE Oldest(S) \subseteq S /\ Latest(S) \subseteq S
BY DEF Oldest, Latest

-------------------------------------------------------------------------------
(* Types. *)

(* Every step of the agent's two threads and of its process keeps its types. *)
LEMMA AgentKeepsTypes == AgentTypeOK /\ AgentOwnStep => AgentTypeOK'
<1> SUFFICES ASSUME AgentTypeOK, AgentOwnStep PROVE AgentTypeOK'
  OBVIOUS
<1> USE BoundAssumption
    DEF AgentTypeOK, processVars, producerVars, diskVars, exporterVars, historyVars
<1>1. CASE Tick
  BY <1>1 DEF Tick
<1>2. CASE Collect
  BY <1>2 DEF Collect, Snapshot
<1>3. CASE EnqueueThrows
  BY <1>3 DEF EnqueueThrows, Strike
<1>4. CASE Publish
  <2>1. current \in Snapshot
    BY <1>4 DEF Publish
  <2>2. faults' \in 0..MaxFaults
    BY <1>4 DEF Publish, Strike
  <2>3. damaged' \subseteq Snapshot
    BY <1>4, <2>1 DEF Publish
  <2>4. spool' \subseteq Snapshot /\ tmp' \subseteq Snapshot /\ queued' \subseteq Snapshot
    BY <1>4, <2>1 DEF Publish
  <2> QED
    BY <1>4, <2>1, <2>2, <2>3, <2>4 DEF Publish
<1>5. CASE DropOldest
  BY <1>5, ExtremesAreMembers DEF DropOldest
<1>6. CASE EndEnqueue
  BY <1>6 DEF EndEnqueue
<1>7. CASE PickBatch
  BY <1>7, BatchComesFromTheSpool DEF PickBatch
<1>8. CASE IdlePoll
  BY <1>8, SpoolAssumption DEF IdlePoll
<1>9. CASE StartRemoval
  BY <1>9 DEF StartRemoval
<1>10. CASE RemoveOne
  BY <1>10 DEF RemoveOne
<1>11. CASE EndRemoval
  BY <1>11, SpoolAssumption DEF EndRemoval
<1>12. CASE BackoffElapsed
  BY <1>12 DEF BackoffElapsed
<1>13. CASE RequestStop
  BY <1>13 DEF RequestStop, Strike
<1>14. ASSUME GoDown, overfull' \in BOOLEAN, faults' \in 0..MaxFaults PROVE AgentTypeOK'
  <2>1. failures' \in 0..FailureCap
    BY <1>14, SpoolAssumption DEF GoDown
  <2> QED
    BY <1>14, <2>1 DEF GoDown
<1>15. CASE Exit \/ Crash
  BY <1>14, <1>15 DEF Exit, Crash, Strike
<1>16. CASE Restart
  BY <1>16 DEF Restart
<1> QED
  BY <1>1, <1>2, <1>3, <1>4, <1>5, <1>6, <1>7, <1>8, <1>9, <1>10, <1>11, <1>12, <1>13,
     <1>14, <1>15, <1>16 DEF AgentOwnStep, ProducerStep, ExporterStep

(* So does the result of a request. *)
LEMMA AnswerKeepsTypes ==
  ASSUME AgentTypeOK, faults' \in 0..MaxFaults, Accepted \/ Rejected \/ SendFails
  PROVE  AgentTypeOK'
<1> USE DEF AgentTypeOK, processVars, producerVars, diskVars, historyVars
<1>1. CASE Accepted \/ Rejected
  BY <1>1 DEF Accepted, Rejected, Answered
<1>2. CASE SendFails
  <2>1. failures' \in 0..FailureCap
    BY <1>2, SpoolAssumption DEF SendFails, OneMoreFailure
  <2> QED
    BY <1>2, <2>1 DEF SendFails
<1> QED
  BY <1>1, <1>2

(* And a step that leaves the agent alone. *)
LEMMA AgentAtRest ==
  ASSUME AgentTypeOK, UNCHANGED agentVars, faults' \in 0..MaxFaults
  PROVE  AgentTypeOK'
BY DEF AgentTypeOK, agentVars, processVars, producerVars, diskVars, exporterVars, historyVars

(* A fault leaves the budget within its bound. *)
LEMMA StrikeKeepsBudget == ASSUME faults \in 0..MaxFaults, Strike PROVE faults' \in 0..MaxFaults
BY BoundAssumption DEF Strike

LEMMA AgentStartsTyped == AgentInit => AgentTypeOK
<1> SUFFICES ASSUME AgentInit PROVE AgentTypeOK
  OBVIOUS
<1>1. 0 \in 0..MaxTime /\ 0 \in 0..MaxFaults /\ 0 \in 0..FailureCap
  BY BoundAssumption, SpoolAssumption
<1> QED
  BY <1>1 DEF AgentInit, InitAgent, AgentTypeOK

(* In every reachable state of the agent every variable has its type. *)
THEOREM AgentTypeCorrect == AgentSpec => []AgentTypeOK
<1>1. AgentTypeOK /\ [AgentNext]_<<agentVars, faults>> => AgentTypeOK'
  <2> SUFFICES ASSUME AgentTypeOK, [AgentNext]_<<agentVars, faults>> PROVE AgentTypeOK'
    OBVIOUS
  <2>0. faults \in 0..MaxFaults
    BY DEF AgentTypeOK
  <2>1. CASE AgentOwnStep
    BY <2>1, AgentKeepsTypes
  <2>2. CASE AnyAnswer
    BY <2>0, <2>2, AnswerKeepsTypes DEF AnyAnswer
  <2>3. CASE UNCHANGED <<agentVars, faults>>
    BY <2>0, <2>3, AgentAtRest
  <2> QED
    BY <2>1, <2>2, <2>3 DEF AgentNext, AgentOwnStep
<1> QED
  BY <1>1, AgentStartsTyped, PTL DEF AgentSpec

-------------------------------------------------------------------------------
(* The order in which the spool drains. *)

(* A batch is made of the first files of the spool, and stays that way: the   *)
(* main thread evicts the first of them and publishes behind them all.        *)
BatchComesFirst ==
  /\ \A s \in spool \cup batch : s <= now
  /\ producer # "idle" => current <= now
  /\ producer = "writing" => \A s \in spool \cup batch : s < current
  /\ \A b \in batch, s \in spool \ batch : b < s

(* A file that is not taken is behind every file that is. *)
LEMMA BatchIsAPrefix ==
  ASSUME NEW S, S \subseteq Int, NEW b \in NextBatch(S), NEW s \in S \ NextBatch(S)
  PROVE  b < s
<1> SUFFICES ASSUME s <= b PROVE FALSE
  BY DEF NextBatch
<1>1. b \in Int /\ s \in Int /\ S \subseteq Int
  BY DEF NextBatch
<1>2. UpTo(S, s) \subseteq UpTo(S, b)
  <2> SUFFICES ASSUME NEW t \in S, t <= s PROVE t <= b
    BY DEF UpTo
  <2>1. t \in Int
    BY <1>1
  <2> QED
    BY <1>1, <2>1
<1>3. \A last \in UpTo(S, b) : Fits(UpTo(S, last))
  BY DEF NextBatch
<1> QED
  BY <1>2, <1>3 DEF NextBatch

LEMMA BatchStaysFirst ==
  ASSUME AgentTypeOK, BatchComesFirst, AgentOwnStep \/ Accepted \/ Rejected \/ SendFails
  PROVE  BatchComesFirst'
<1> USE DEF BatchComesFirst, processVars, producerVars, diskVars, exporterVars, historyVars
<1>1. now \in Int /\ current \in Int /\ spool \subseteq Int /\ batch \subseteq Int
  BY BoundAssumption DEF AgentTypeOK, Snapshot
<1>2. CASE Tick
  BY <1>1, <1>2 DEF Tick
<1>3. CASE Collect
  BY <1>1, <1>3 DEF Collect
<1>4. CASE EnqueueThrows \/ EndEnqueue
  BY <1>4 DEF EnqueueThrows, EndEnqueue
<1>5. CASE Publish
  BY <1>1, <1>5 DEF Publish
<1>6. CASE DropOldest
  BY <1>6 DEF DropOldest
<1>7. CASE PickBatch
  BY <1>1, <1>7, BatchIsAPrefix, BatchComesFromTheSpool DEF PickBatch, MayPoll, MutexFree
<1>8. CASE IdlePoll \/ StartRemoval \/ BackoffElapsed
  BY <1>8 DEF IdlePoll, StartRemoval, BackoffElapsed
<1>9. CASE RemoveOne \/ EndRemoval
  BY <1>9 DEF RemoveOne, EndRemoval
<1>10. CASE Accepted \/ Rejected \/ SendFails
  BY <1>10 DEF Accepted, Rejected, Answered, SendFails
<1>11. CASE RequestStop \/ Restart
  BY <1>11 DEF RequestStop, Restart
<1>12. CASE Exit \/ Crash
  BY <1>12 DEF Exit, Crash, GoDown
<1> QED
  BY <1>2, <1>3, <1>4, <1>5, <1>6, <1>7, <1>8, <1>9, <1>10, <1>11, <1>12
     DEF AgentOwnStep, ProducerStep, ExporterStep

(* Whoever removes a file, the spool keeps only later ones. *)
LEMMA FirstFilesLeave ==
  ASSUME AgentTypeOK, BatchComesFirst, AgentOwnStep \/ Accepted \/ Rejected \/ SendFails
  PROVE  \A gone \in spool \ spool', kept \in spool \cap spool' : gone < kept
<1>1. spool \subseteq Int
  BY DEF AgentTypeOK, Snapshot
<1>2. CASE DropOldest
  BY <1>1, <1>2 DEF DropOldest, Oldest
<1>3. CASE RemoveOne
  BY <1>1, <1>3 DEF RemoveOne, Oldest, Removable, BatchComesFirst
<1>4. CASE spool \subseteq spool'
  BY <1>4
<1> QED
  BY <1>2, <1>3, <1>4
     DEF AgentOwnStep, ProducerStep, ExporterStep, Tick, Collect, EnqueueThrows, Publish, EndEnqueue,
         PickBatch, IdlePoll, StartRemoval, EndRemoval, BackoffElapsed, Accepted, Rejected,
         Answered, SendFails, RequestStop, Exit, Crash, GoDown, Restart, diskVars

(* Snapshots leave the spool oldest first, whichever thread removes them and *)
(* however evictions, a batch in flight and crashes fall together.           *)
THEOREM SpoolDrainsInOrder == AgentSpec => DrainsInOrder
<1>1. AgentInit => BatchComesFirst
  BY DEF AgentInit, InitAgent, BatchComesFirst
<1>2. AgentTypeOK /\ BatchComesFirst /\ [AgentNext]_<<agentVars, faults>> => BatchComesFirst'
  BY BatchStaysFirst
     DEF AgentNext, AgentOwnStep, AnyAnswer, BatchComesFirst, agentVars, producerVars, diskVars,
         exporterVars
<1>3. AgentTypeOK /\ BatchComesFirst /\ [AgentNext]_<<agentVars, faults>>
        => [\A gone \in spool \ spool', kept \in spool \cap spool' : gone < kept]_spool
  BY FirstFilesLeave DEF AgentNext, AgentOwnStep, AnyAnswer, agentVars, diskVars
<1> QED
  BY <1>1, <1>2, <1>3, AgentTypeCorrect, PTL DEF AgentSpec, DrainsInOrder

-------------------------------------------------------------------------------
(* The limit of the spool. *)

(* The files that the agent can have are finitely many, and have sizes. *)
LEMMA FilesHaveSizes ==
  ASSUME NEW S \in SUBSET Snapshot
  PROVE  IsFiniteSet(S) /\ \A s \in S : SizeOf[s] \in Nat \ {0}
<1>1. IsFiniteSet(Snapshot)
  BY BoundAssumption, FS_Interval DEF Snapshot
<1> QED
  BY <1>1, FS_Subset, SpoolAssumption

(* A file that leaves does not make the spool larger. *)
LEMMA FewerFilesAreSmaller ==
  ASSUME NEW S \in SUBSET Snapshot, NEW T \in SUBSET S
  PROVE  TotalSize(T) \in Nat /\ TotalSize(S) \in Nat /\ TotalSize(T) <= TotalSize(S)
<1>1. IsFiniteSet(S) /\ IsFiniteSet(T) /\ \A s \in S : SizeOf[s] \in Nat
  BY FilesHaveSizes
<1> QED
  BY <1>1, TotalOfPart, TotalIsNat DEF TotalSize

(* The main thread leaves enforce_spool_limit() only when the limit holds, and *)
(* until it is in there again files only go.                                   *)
LEMMA StaysWithinLimit ==
  ASSUME AgentTypeOK, SpoolWithinLimit, AgentOwnStep \/ Accepted \/ Rejected \/ SendFails
  PROVE  SpoolWithinLimit'
<1> USE DEF SpoolWithinLimit
<1>1. spool \subseteq Snapshot /\ SpoolMaxBytes \in Nat
  BY SpoolAssumption DEF AgentTypeOK
<1>2. spool' \subseteq spool => TotalSize(spool)' <= TotalSize(spool)
                               /\ TotalSize(spool)' \in Nat /\ TotalSize(spool) \in Nat
  BY <1>1, FewerFilesAreSmaller DEF TotalSize
<1>3. CASE EndEnqueue
  <2>1. TotalSize(spool) \in Nat
    BY <1>1, FewerFilesAreSmaller
  <2> QED
    BY <1>1, <1>3, <2>1 DEF EndEnqueue, OverLimit, diskVars, TotalSize
<1>4. CASE RemoveOne
  BY <1>1, <1>2, <1>4 DEF RemoveOne, producerVars, historyVars
<1>5. CASE Crash \/ EnqueueThrows
  BY <1>1, <1>2, <1>5 DEF Crash, GoDown, EnqueueThrows, diskVars
<1>6. CASE Exit
  BY <1>1, <1>2, <1>6 DEF Exit, GoDown, diskVars
<1>7. CASE Publish \/ DropOldest
  BY <1>7 DEF Publish, DropOldest, producerVars
<1>8. CASE Collect
  BY <1>1, <1>2, <1>8 DEF Collect, MutexFree, diskVars, historyVars
<1>9. CASE Tick \/ PickBatch \/ IdlePoll \/ StartRemoval \/ EndRemoval \/ BackoffElapsed
           \/ Accepted \/ Rejected \/ SendFails \/ RequestStop \/ Restart
  <2>1. UNCHANGED <<producer, spool, overfull>>
    BY <1>9 DEF Tick, PickBatch, IdlePoll, StartRemoval, EndRemoval, BackoffElapsed, Accepted,
                Rejected, Answered, SendFails, RequestStop, Restart, producerVars, diskVars,
                historyVars
  <2> QED
    BY <1>2, <2>1
<1> QED
  BY <1>3, <1>4, <1>5, <1>6, <1>7, <1>8, <1>9 DEF AgentOwnStep, ProducerStep, ExporterStep

LEMMA StartsWithinLimit == InitAgent => SpoolWithinLimit
BY TotalOfNone, SpoolAssumption DEF InitAgent, SpoolWithinLimit, TotalSize

(* Whatever both threads remove and however often the process dies, the spool *)
(* is within --spool-max-bytes whenever enforce_spool_limit() has returned.   *)
THEOREM SpoolKeepsItsLimit == AgentSpec => []SpoolWithinLimit
<1>1. AgentTypeOK /\ SpoolWithinLimit /\ [AgentNext]_<<agentVars, faults>> => SpoolWithinLimit'
  <2> SUFFICES ASSUME AgentTypeOK, SpoolWithinLimit, [AgentNext]_<<agentVars, faults>>
               PROVE  SpoolWithinLimit'
    OBVIOUS
  <2>1. CASE UNCHANGED <<agentVars, faults>>
    BY <2>1 DEF SpoolWithinLimit, TotalSize, agentVars, producerVars, diskVars, historyVars
  <2> QED
    BY <2>1, StaysWithinLimit DEF AgentNext, AgentOwnStep, AnyAnswer
<1> QED
  BY <1>1, StartsWithinLimit, AgentTypeCorrect, PTL DEF AgentSpec, AgentInit

-------------------------------------------------------------------------------
(* The loops that hold the mutex. *)

(* Some file is the oldest. *)
LEMMA OldestExists ==
  ASSUME NEW S \in SUBSET Snapshot, S # {} PROVE Oldest(S) # {}
<1>1. S \subseteq Nat
  BY DEF Snapshot
<1>2. PICK s \in S : \A t \in S : <<t, s>> \notin OpToRel(<, Nat)
  BY <1>1, NatLessThanWellFounded, WFMin
<1>3. \A t \in S : ~(t < s)
  BY <1>1, <1>2 DEF OpToRel
<1>4. \A t \in S : s <= t
  BY <1>1, <1>3
<1> QED
  BY <1>4 DEF Oldest

(* The loop of enforce_spool_limit() finds a file to drop as long as it goes  *)
(* on, and so does the loop that removes a batch; a spool that is not empty   *)
(* yields a batch, however large its oldest file is.                          *)
NeverStuck ==
  /\ producer = "enforcing" /\ OverLimit => Oldest(spool) # {}
  /\ exporter = "removing" /\ Removable # {} => Oldest(Removable) # {}
  /\ spool # {} => NextBatch(spool) # {}

(* The first file alone is a batch. *)
LEMMA FirstFileFits ==
  ASSUME NEW S \in SUBSET Snapshot, S # {} PROVE NextBatch(S) # {}
<1>1. PICK s \in S : \A t \in S : s <= t
  BY OldestExists DEF Oldest
<1>2. S \subseteq Int
  BY DEF Snapshot
<1>3. UpTo(S, s) = {s}
  <2>1. \A t \in S : t <= s => t = s
    BY <1>1, <1>2
  <2>2. s <= s
    BY <1>2
  <2> QED
    BY <2>1, <2>2 DEF UpTo
<1>4. Cardinality({s}) = 1
  BY FS_Singleton
<1>5. Fits(UpTo(S, s))
  BY <1>3, <1>4 DEF Fits
<1>6. \A last \in UpTo(S, s) : Fits(UpTo(S, last))
  BY <1>3, <1>5
<1> QED
  BY <1>6 DEF NextBatch

(* No loop of the two threads has to wait for a file that does not come while *)
(* it holds the mutex, and no file is too large to be sent.                   *)
THEOREM LoopsNeverStuck == AgentSpec => []NeverStuck
<1>1. AgentTypeOK => NeverStuck
  <2> SUFFICES ASSUME AgentTypeOK PROVE NeverStuck
    OBVIOUS
  <2>1. spool \in SUBSET Snapshot /\ Removable \in SUBSET Snapshot
    BY DEF AgentTypeOK, Removable
  <2>2. OverLimit => spool # {}
    BY TotalOfNone, SpoolAssumption DEF OverLimit, TotalSize
  <2> QED
    BY <2>1, <2>2, OldestExists, FirstFileFits DEF NeverStuck
<1> QED
  BY <1>1, AgentTypeCorrect, PTL
===============================================================================
