------------------------ MODULE TelemetryDelivery_Proofs ------------------------
(***************************************************************************)
(* The pipeline, for every number of handlers, every limit and every bound *)
(* on the clock: the types, that no snapshot vanishes, that Live is stored *)
(* and does not go back in time, that the pipeline implements its abstract *)
(* specification, and in which order snapshots reach the database.         *)
(*                                                                         *)
(* A step of the pipeline belongs to the agent, to the exporter's request, *)
(* to a handler or to a host; each lemma takes one of the four.            *)
(***************************************************************************)
EXTENDS TelemetryDelivery, AgentSpool_Proofs

(* A transaction leaves the rows with their types. *)
LEMMA CommitKeepsTypes ==
  ASSUME ServerTypeOK, NEW s \in Snapshot, Commit(s)
  PROVE  /\ stored' \subseteq Snapshot
         /\ resource' \in [first : 0..MaxTime, last : 0..MaxTime, shown : 0..MaxTime]
<1>1. s \in 0..MaxTime
  BY BoundAssumption DEF Snapshot
<1> QED
  BY <1>1 DEF ServerTypeOK, Commit, Upserted

(* The types of the server alone: its handlers, its process and its database. *)
LEMMA HandlerKeepsServerTypes ==
  ASSUME TypeOK, NEW h \in Handlers,
         Begin(h, batch) \/ Persist(h) \/ Expose(h) \/ PersistFails(h)
  PROVE  ServerTypeOK'
<1>0. batch \subseteq Snapshot
  BY DEF TypeOK, AgentTypeOK
<1> USE DEF ServerTypeOK, HandlerState, Free
<1>1. ServerTypeOK
  BY DEF TypeOK
<1>2. CASE Begin(h, batch)
  BY <1>0, <1>1, <1>2 DEF Begin
<1>3. CASE Persist(h)
  <2>1. PICK s \in Oldest(handler[h].left) :
          /\ handler' = [handler EXCEPT ![h].left = @ \ {s}]
          /\ Commit(s)
    BY <1>3 DEF Persist
  <2>2. s \in Snapshot /\ handler[h].left \ {s} \subseteq Snapshot
    BY <1>1, ExtremesAreMembers
  <2>3. handler' \in [Handlers -> HandlerState]
    BY <1>1, <2>1, <2>2
  <2> QED
    BY <1>1, <1>3, <2>1, <2>2, <2>3, CommitKeepsTypes DEF Persist
<1>4. CASE Expose(h)
  <2>1. PICK s \in Latest(handler[h].request) : Update(s)
    BY <1>4 DEF Expose
  <2>2. s \in Snapshot
    BY <1>1, ExtremesAreMembers
  <2>3. live' \in 0..MaxTime
    BY <1>1, <2>1, <2>2 DEF Update, Snapshot
  <2> QED
    BY <1>1, <1>4, <2>3 DEF Expose
<1>5. CASE PersistFails(h)
  <2>1. Oldest(handler[h].left) \subseteq Snapshot
    BY <1>1, ExtremesAreMembers
  <2>2. CASE UNCHANGED <<stored, resource>>
    BY <1>1, <1>5, <2>2 DEF PersistFails
  <2>3. CASE \E s \in Oldest(handler[h].left) : Commit(s)
    <3>1. stored' \subseteq Snapshot
          /\ resource' \in [first : 0..MaxTime, last : 0..MaxTime, shown : 0..MaxTime]
      BY <1>1, <2>1, <2>3, CommitKeepsTypes
    <3> QED
      BY <1>1, <1>5, <3>1 DEF PersistFails
  <2> QED
    BY <1>5, <2>2, <2>3 DEF PersistFails
<1> QED
  BY <1>2, <1>3, <1>4, <1>5

LEMMA ServerLifeKeepsTypes ==
  ASSUME ServerTypeOK,
         ServerCrash \/ ServerStart \/ OpenDatabase \/ DatabaseDown \/ DatabaseUp
  PROVE  ServerTypeOK'
<1> USE DEF ServerTypeOK
<1>1. CASE ServerCrash
  <2>1. Free \in HandlerState
    BY DEF Free, HandlerState
  <2>2. handler' \in [Handlers -> HandlerState]
    BY <1>1, <2>1 DEF ServerCrash
  <2>3. live' \in 0..MaxTime
    BY <1>1, BoundAssumption DEF ServerCrash
  <2> QED
    BY <1>1, <2>2, <2>3 DEF ServerCrash
<1>2. CASE ServerStart \/ OpenDatabase \/ DatabaseDown \/ DatabaseUp
  BY <1>2 DEF ServerStart, OpenDatabase, DatabaseDown, DatabaseUp
<1> QED
  BY <1>1, <1>2

(* The four kinds of step, and the initial state. *)
LEMMA InitHasTypes == Init => TypeOK
<1> SUFFICES ASSUME Init PROVE TypeOK
  OBVIOUS
<1>1. 0 \in 0..MaxTime /\ 0 \in 0..MaxFaults /\ 0 \in 0..FailureCap
  BY BoundAssumption, SpoolAssumption
<1>2. AgentTypeOK
  BY <1>1 DEF Init, InitAgent, AgentTypeOK
<1>3. Free \in HandlerState
  BY DEF Free, HandlerState
<1>4. handler \in [Handlers -> HandlerState]
  BY <1>3 DEF Init, InitServer
<1>5. ServerTypeOK
  BY <1>1, <1>4 DEF Init, InitServer, NoRow, ServerTypeOK
<1> QED
  BY <1>2, <1>5 DEF Init, TypeOK

LEMMA RequestsKeepTypes == TypeOK /\ RequestStep => TypeOK'
<1> SUFFICES ASSUME TypeOK, RequestStep PROVE TypeOK'
  OBVIOUS
<1> USE DEF TypeOK
<1>0. faults \in 0..MaxFaults
  BY DEF AgentTypeOK
<1>1. ASSUME NEW h \in Handlers, Deliver(h) PROVE TypeOK'
  BY <1>0, <1>1, AgentAtRest, HandlerKeepsServerTypes DEF Deliver
<1>2. ASSUME UNCHANGED serverVars PROVE ServerTypeOK'
  BY <1>2 DEF ServerTypeOK, serverVars
<1>3. CASE RefuseBatch \/ NotReady \/ Unreachable
  BY <1>0, <1>2, <1>3, AnswerKeepsTypes DEF RefuseBatch, NotReady, Unreachable
<1>4. CASE TimesOut
  BY <1>0, <1>2, <1>4, AnswerKeepsTypes, StrikeKeepsBudget DEF TimesOut
<1> QED
  BY <1>1, <1>3, <1>4 DEF RequestStep

LEMMA HandlersKeepTypes ==
  ASSUME TypeOK, NEW h \in Handlers, HandlerStep(h) PROVE TypeOK'
<1>0. faults \in 0..MaxFaults
  BY DEF TypeOK, AgentTypeOK
<1>1. ServerTypeOK'
  BY HandlerKeepsServerTypes DEF HandlerStep, Complete, GiveUp
<1>2. faults' \in 0..MaxFaults
  BY <1>0, StrikeKeepsBudget DEF HandlerStep, Complete, GiveUp, Persist, Expose, PersistFails
<1>3. UNCHANGED agentVars \/ Accepted \/ SendFails
  BY DEF HandlerStep, Complete, GiveUp, Answer
<1>4. AgentTypeOK'
  BY <1>2, <1>3, AgentAtRest, AnswerKeepsTypes DEF TypeOK
<1>5. conn' \in Handlers \cup {NoHandler}
  BY DEF TypeOK, HandlerStep, Complete, GiveUp, Answer
<1> QED
  BY <1>1, <1>4, <1>5 DEF TypeOK

LEMMA HostsKeepTypes == TypeOK /\ HostStep => TypeOK'
<1> SUFFICES ASSUME TypeOK, HostStep PROVE TypeOK'
  OBVIOUS
<1>0. faults \in 0..MaxFaults
  BY DEF TypeOK, AgentTypeOK
<1>1. ServerTypeOK'
  BY ServerLifeKeepsTypes DEF TypeOK, HostStep, ServerDies
<1>2. faults' \in 0..MaxFaults
  BY <1>0, StrikeKeepsBudget
     DEF HostStep, ServerDies, ServerCrash, ServerStart, OpenDatabase, DatabaseDown, DatabaseUp
<1>3. UNCHANGED agentVars \/ SendFails
  BY DEF HostStep, ServerDies, Answer
<1>4. AgentTypeOK'
  BY <1>2, <1>3, AgentAtRest, AnswerKeepsTypes DEF TypeOK
<1>5. conn' \in Handlers \cup {NoHandler}
  BY DEF TypeOK, HostStep, ServerDies, Answer
<1> QED
  BY <1>1, <1>4, <1>5 DEF TypeOK

(* In every reachable state every variable has its type. *)
THEOREM TypeCorrect == Spec => []TypeOK
<1>1. TypeOK /\ [Next]_vars => TypeOK'
  <2>1. ASSUME TypeOK, AgentStep PROVE TypeOK'
    BY <2>1, AgentKeepsTypes DEF TypeOK, AgentStep, AgentOwnStep, ServerTypeOK, serverVars
  <2>2. ASSUME TypeOK, UNCHANGED vars PROVE TypeOK'
    BY <2>2 DEF TypeOK, AgentTypeOK, ServerTypeOK, vars, agentVars, serverVars, processVars,
                producerVars, diskVars, exporterVars, historyVars
  <2> QED
    BY <2>1, <2>2, RequestsKeepTypes, HandlersKeepTypes, HostsKeepTypes DEF Next
<1> QED
  BY <1>1, InitHasTypes, PTL DEF Spec

-------------------------------------------------------------------------------
(* Nothing is lost. *)

(* AnswersAreFounded is what the steps of the exporter need; the other two *)
(* depend on it and on nothing else.                                       *)
DeliveryInv == TypeOK /\ AnswersAreFounded /\ NoSilentLoss /\ LiveIsStored

LEMMA AgentKeepsInv ==
  ASSUME DeliveryInv, AgentStep
  PROVE  AnswersAreFounded' /\ NoSilentLoss' /\ LiveIsStored'
<1> USE DEF DeliveryInv, AnswersAreFounded, NoSilentLoss, serverVars,
            processVars, producerVars, diskVars, exporterVars, historyVars
<1>1. UNCHANGED <<handler, stored, live>>
  BY DEF AgentStep
<1>2. LiveIsStored'
  BY <1>1 DEF LiveIsStored
<1>3. CASE (Tick \/ Collect \/ EnqueueThrows \/ EndEnqueue \/ IdlePoll \/ RequestStop \/ Restart)
           /\ UNCHANGED conn
  BY <1>1, <1>2, <1>3 DEF Tick, Collect, MutexFree, EnqueueThrows, EndEnqueue, IdlePoll,
                    RequestStop, Restart
<1>4. CASE Publish /\ UNCHANGED conn
  BY <1>1, <1>2, <1>4 DEF Publish
<1>5. CASE DropOldest /\ UNCHANGED conn
  BY <1>1, <1>2, <1>5 DEF DropOldest
<1>6. CASE PickBatch /\ UNCHANGED conn
  BY <1>1, <1>2, <1>6 DEF PickBatch, MayPoll
<1>7. CASE StartRemoval /\ UNCHANGED conn
  BY <1>1, <1>2, <1>7 DEF StartRemoval, MutexFree
<1>8. CASE RemoveOne /\ UNCHANGED conn
  BY <1>1, <1>2, <1>8, ExtremesAreMembers DEF RemoveOne, Removable
<1>9. CASE (EndRemoval \/ BackoffElapsed) /\ UNCHANGED conn
  BY <1>1, <1>2, <1>9 DEF EndRemoval, BackoffElapsed
<1>10. CASE Exit /\ UNCHANGED conn
  BY <1>1, <1>2, <1>10 DEF Exit, GoDown
<1>11. CASE Crash /\ conn' = NoHandler
  BY <1>1, <1>2, <1>11 DEF Crash, GoDown
<1> QED
  BY <1>2, <1>3, <1>4, <1>5, <1>6, <1>7, <1>8, <1>9, <1>10, <1>11
     DEF AgentStep, ProducerStep, ExporterStep

LEMMA RequestsKeepInv ==
  ASSUME DeliveryInv, RequestStep
  PROVE  AnswersAreFounded' /\ NoSilentLoss' /\ LiveIsStored'
<1> USE DEF DeliveryInv, AnswersAreFounded, NoSilentLoss, LiveIsStored, serverVars,
            processVars, producerVars, diskVars, exporterVars, historyVars
<1>1. ASSUME NEW h \in Handlers, Deliver(h)
      PROVE  AnswersAreFounded' /\ NoSilentLoss' /\ LiveIsStored'
  <2>1. handler \in [Handlers -> HandlerState]
    BY DEF TypeOK, ServerTypeOK
  <2> QED
    BY <1>1, <2>1 DEF Deliver, Begin, agentVars
<1>2. CASE RefuseBatch
  BY <1>2 DEF RefuseBatch, Rejected, Answered
<1>3. CASE NotReady \/ Unreachable
  BY <1>3 DEF NotReady, Unreachable, SendFails
<1>4. CASE TimesOut
  BY <1>4 DEF TimesOut, SendFails
<1> QED
  BY <1>1, <1>2, <1>3, <1>4 DEF RequestStep

LEMMA HandlersKeepInv ==
  ASSUME DeliveryInv, NEW h \in Handlers, HandlerStep(h)
  PROVE  AnswersAreFounded' /\ NoSilentLoss' /\ LiveIsStored'
<1> USE DEF DeliveryInv, AnswersAreFounded, NoSilentLoss, LiveIsStored, serverVars,
            processVars, producerVars, diskVars, exporterVars, historyVars
<1>1. handler \in [Handlers -> HandlerState] /\ h # NoHandler
  BY HandlerAssumption DEF TypeOK, ServerTypeOK
<1>2. CASE Persist(h) /\ UNCHANGED <<agentVars, conn>>
  <2>1. PICK s \in Oldest(handler[h].left) :
          /\ handler' = [handler EXCEPT ![h].left = @ \ {s}]
          /\ stored' = stored \cup {s}
    BY <1>2 DEF Persist, Commit
  <2>2. handler'[h].busy = handler[h].busy /\ handler'[h].request = handler[h].request
        /\ handler'[h].left = handler[h].left \ {s}
    BY <1>1, <2>1 DEF HandlerState
  <2>3. \A g \in Handlers \ {h} : handler'[g] = handler[g]
    BY <1>1, <2>1
  <2>4. \A g \in Handlers : handler'[g].request \ handler'[g].left \subseteq stored'
    BY <2>1, <2>2, <2>3
  <2>5. conn \in Handlers \cup {NoHandler}
    BY DEF TypeOK
  <2> QED
    BY <1>2, <2>1, <2>2, <2>3, <2>4, <2>5 DEF Persist, agentVars
<1>3. CASE Complete(h)
  <2>1. handler[h].request \subseteq stored /\ UNCHANGED stored
    BY <1>3 DEF Complete, Expose, AllPersisted
  <2>2. handler' = [handler EXCEPT ![h] = Free]
    BY <1>3 DEF Complete, Expose
  <2>3. \A g \in Handlers : handler'[g].request \ handler'[g].left \subseteq stored'
    BY <1>1, <2>1, <2>2 DEF Free
  <2>4. LiveIsStored'
    <3>1. PICK s \in Latest(handler[h].request) : Update(s)
      BY <1>3 DEF Complete, Expose
    <3>2. s \in stored
      BY <2>1, ExtremesAreMembers
    <3> QED
      BY <2>1, <3>1, <3>2 DEF Update
  <2>5. CASE conn = h
    <3>1. Accepted /\ conn' = NoHandler
      BY <1>3, <2>5 DEF Complete, Answer
    <3>2. batch \subseteq stored
      BY <1>1, <2>1, <2>5
    <3> QED
      BY <2>1, <2>3, <2>4, <3>1, <3>2 DEF Accepted, Answered
  <2>6. CASE conn # h
    <3>1. conn # NoHandler => handler'[conn] = handler[conn]
      BY <1>1, <2>2, <2>6 DEF TypeOK
    <3> QED
      BY <1>3, <2>1, <2>3, <2>4, <2>6, <3>1 DEF Complete, Answer, agentVars
  <2> QED
    BY <2>5, <2>6
<1>4. CASE GiveUp(h)
  <2>1. stored \subseteq stored' /\ live' = live
    BY <1>4 DEF GiveUp, PersistFails, Commit
  <2>2. handler' = [handler EXCEPT ![h] = Free]
    BY <1>4 DEF GiveUp, PersistFails
  <2>3. \A g \in Handlers : handler'[g].request \ handler'[g].left \subseteq stored'
    BY <1>1, <2>1, <2>2 DEF Free
  <2>4. CASE conn = h
    BY <1>4, <2>1, <2>3, <2>4 DEF GiveUp, Answer, SendFails
  <2>5. CASE conn # h
    <3>1. conn # NoHandler => handler'[conn] = handler[conn]
      BY <1>1, <2>2, <2>5 DEF TypeOK
    <3> QED
      BY <1>4, <2>1, <2>3, <2>5, <3>1 DEF GiveUp, Answer, agentVars
  <2> QED
    BY <2>4, <2>5
<1> QED
  BY <1>2, <1>3, <1>4 DEF HandlerStep

LEMMA HostsKeepInv ==
  ASSUME DeliveryInv, HostStep
  PROVE  AnswersAreFounded' /\ NoSilentLoss' /\ LiveIsStored'
<1> USE DEF DeliveryInv, AnswersAreFounded, NoSilentLoss, LiveIsStored, agentVars,
            processVars, producerVars, diskVars, exporterVars, historyVars
<1>1. CASE ServerDies
  <2>1. live' = 0 /\ UNCHANGED stored
    BY <1>1 DEF ServerDies, ServerCrash
  <2>2. \A h \in Handlers : handler'[h].request \ handler'[h].left \subseteq stored'
    BY <1>1 DEF ServerDies, ServerCrash, Free
  <2>3. conn' = NoHandler
    BY <1>1 DEF ServerDies, Answer
  <2> QED
    BY <1>1, <2>1, <2>2, <2>3 DEF ServerDies, Answer, SendFails
<1>2. CASE (ServerStart \/ OpenDatabase \/ DatabaseDown \/ DatabaseUp) /\ UNCHANGED <<agentVars, conn>>
  BY <1>2 DEF ServerStart, OpenDatabase, DatabaseDown, DatabaseUp
<1> QED
  BY <1>1, <1>2 DEF HostStep

(* The three are invariant together. *)
LEMMA Delivery == Spec => []DeliveryInv
<1>1. Init => DeliveryInv
  BY InitHasTypes DEF DeliveryInv, AnswersAreFounded, NoSilentLoss, LiveIsStored, Init,
     InitAgent, InitServer, Free
<1>2. TypeOK' /\ DeliveryInv /\ [Next]_vars => DeliveryInv'
  <2>1. ASSUME DeliveryInv, UNCHANGED vars
        PROVE  AnswersAreFounded' /\ NoSilentLoss' /\ LiveIsStored'
    BY <2>1 DEF DeliveryInv, AnswersAreFounded, NoSilentLoss, LiveIsStored, vars, agentVars,
                serverVars, processVars, producerVars, diskVars, exporterVars, historyVars
  <2> QED
    BY <2>1, AgentKeepsInv, RequestsKeepInv, HandlersKeepInv, HostsKeepInv
       DEF Next, DeliveryInv
<1> QED
  BY <1>1, <1>2, TypeCorrect, PTL DEF Spec

(* Every snapshot that was ever queued is in the spool, in the database, or  *)
(* was evicted or refused, whatever failed in between.                       *)
THEOREM NothingVanishes == Spec => []NoSilentLoss
BY Delivery, PTL DEF DeliveryInv

(* An answer that the exporter acts on covers the files it is acted on. *)
THEOREM AnswersFounded == Spec => []AnswersAreFounded
BY Delivery, PTL DEF DeliveryInv

(* What is exposed as Live is in the database. *)
THEOREM LiveStored == Spec => []LiveIsStored
BY Delivery, PTL DEF DeliveryInv

-------------------------------------------------------------------------------
(* Live moves forward. *)

(* Only an answered handler and a crash of the dashboard touch Live; the      *)
(* first never lowers it, whatever requests overlapped.                       *)
THEOREM LiveMovesForward == Spec => LiveNeverRegresses
<1>1. TypeOK /\ TypeOK' /\ [Next]_vars => (serverUp' => live' >= live) \/ UNCHANGED vars
  <2> SUFFICES ASSUME TypeOK, TypeOK', Next, serverUp' PROVE live' >= live
    OBVIOUS
  <2>0. live \in Int /\ live' \in Int
    BY BoundAssumption DEF TypeOK, ServerTypeOK
  <2>1. CASE AgentStep \/ RequestStep
    <3>1. UNCHANGED live
      BY <2>1 DEF AgentStep, RequestStep, Deliver, Begin, RefuseBatch, NotReady, Unreachable,
                  TimesOut, serverVars
    <3> QED
      BY <2>0, <3>1
  <2>2. ASSUME NEW h \in Handlers, HandlerStep(h) PROVE live' >= live
    <3>1. UNCHANGED live \/ \E s \in Latest(handler[h].request) : Update(s)
      BY <2>2 DEF HandlerStep, Persist, Complete, Expose, GiveUp, PersistFails
    <3>2. handler[h].request \subseteq Snapshot
      BY DEF TypeOK, ServerTypeOK, HandlerState
    <3>3. Latest(handler[h].request) \subseteq Int
      BY <3>2, ExtremesAreMembers DEF Snapshot
    <3>4. CASE UNCHANGED live
      BY <2>0, <3>4
    <3>5. CASE \E s \in Latest(handler[h].request) : Update(s)
      <4>1. PICK s \in Latest(handler[h].request) : Update(s)
        BY <3>5
      <4>2. s \in Int
        BY <3>3
      <4> QED
        BY <2>0, <4>1, <4>2 DEF Update
    <3> QED
      BY <3>1, <3>4, <3>5
  <2>3. CASE HostStep
    <3>1. ~ServerDies
      BY DEF ServerDies, ServerCrash
    <3>2. UNCHANGED live
      BY <2>3, <3>1 DEF HostStep, ServerStart, OpenDatabase, DatabaseDown, DatabaseUp
    <3> QED
      BY <2>0, <3>2
  <2> QED
    BY <2>1, <2>2, <2>3 DEF Next
<1> QED
  BY <1>1, TypeCorrect, PTL DEF Spec, LiveNeverRegresses

-------------------------------------------------------------------------------
(* The pipeline implements SnapshotFeed. *)

(* Nothing is handled that has not been queued, and nothing is queued twice: *)
(* snapshots are named by a clock that only moves forward.                   *)
QueuedOnce ==
  /\ \A s \in queued : s <= now
  /\ producer # "idle" => current <= now
  /\ producer = "writing" => current \notin queued
  /\ spool \subseteq queued /\ batch \subseteq queued
  /\ \A h \in Handlers : handler[h].request \subseteq queued /\ handler[h].left \subseteq queued

LEMMA AgentQueuesOnce ==
  ASSUME TypeOK, QueuedOnce, AgentStep PROVE QueuedOnce'
<1> USE DEF QueuedOnce, serverVars, processVars, producerVars, diskVars, exporterVars, historyVars
<1>0. UNCHANGED handler
  BY DEF AgentStep
<1>1. now \in Int /\ current \in Int /\ queued \subseteq Int
  BY BoundAssumption DEF TypeOK, AgentTypeOK, Snapshot
<1>2. CASE Tick
  BY <1>0, <1>1, <1>2 DEF Tick
<1>3. CASE Collect
  BY <1>0, <1>1, <1>3 DEF Collect
<1>4. CASE EnqueueThrows \/ EndEnqueue
  BY <1>0, <1>4 DEF EnqueueThrows, EndEnqueue
<1>5. CASE Publish
  BY <1>0, <1>1, <1>5 DEF Publish
<1>6. CASE DropOldest
  BY <1>0, <1>6 DEF DropOldest
<1>7. CASE PickBatch \/ IdlePoll
  BY <1>0, <1>7, BatchComesFromTheSpool DEF PickBatch, IdlePoll
<1>8. CASE StartRemoval \/ RemoveOne \/ EndRemoval \/ BackoffElapsed
  BY <1>0, <1>8 DEF StartRemoval, RemoveOne, EndRemoval, BackoffElapsed
<1>9. CASE RequestStop \/ Restart
  BY <1>0, <1>9 DEF RequestStop, Restart
<1>10. CASE Exit \/ Crash
  BY <1>0, <1>10 DEF Exit, Crash, GoDown
<1> QED
  BY <1>2, <1>3, <1>4, <1>5, <1>6, <1>7, <1>8, <1>9, <1>10
     DEF AgentStep, ProducerStep, ExporterStep

LEMMA OthersQueueNothing ==
  ASSUME TypeOK, QueuedOnce, RequestStep \/ HostStep \/ \E h \in Handlers : HandlerStep(h)
  PROVE  QueuedOnce'
<1> USE DEF QueuedOnce, agentVars, serverVars, processVars, producerVars, diskVars,
            exporterVars, historyVars
<1>0. handler \in [Handlers -> HandlerState]
  BY DEF TypeOK, ServerTypeOK
<1>1. UNCHANGED <<now, producer, current, spool, queued>> /\ (batch' = batch \/ batch' = {})
  BY DEF RequestStep, Deliver, RefuseBatch, Rejected, Answered, NotReady, Unreachable, TimesOut,
         SendFails, HandlerStep, Complete, GiveUp, Answer, Accepted, HostStep, ServerDies
<1>2. \A h \in Handlers : handler'[h].request \subseteq queued /\ handler'[h].left \subseteq queued
  <2>1. ASSUME NEW h \in Handlers, Begin(h, batch)
        PROVE  \A g \in Handlers : handler'[g].request \subseteq queued /\ handler'[g].left \subseteq queued
    BY <1>0, <2>1 DEF Begin
  <2>2. ASSUME NEW h \in Handlers, Persist(h)
        PROVE  \A g \in Handlers : handler'[g].request \subseteq queued /\ handler'[g].left \subseteq queued
    BY <1>0, <2>2 DEF Persist, HandlerState
  <2>3. ASSUME NEW h \in Handlers, Expose(h) \/ PersistFails(h)
        PROVE  \A g \in Handlers : handler'[g].request \subseteq queued /\ handler'[g].left \subseteq queued
    BY <1>0, <2>3 DEF Expose, PersistFails, Free
  <2>4. CASE ServerCrash
    BY <2>4 DEF ServerCrash, Free
  <2>5. CASE UNCHANGED handler
    BY <2>5
  <2> QED
    BY <2>1, <2>2, <2>3, <2>4, <2>5
       DEF RequestStep, Deliver, RefuseBatch, NotReady, Unreachable, TimesOut, HandlerStep, Complete,
           GiveUp, HostStep, ServerDies, ServerStart, OpenDatabase, DatabaseDown, DatabaseUp
<1> QED
  BY <1>1, <1>2

LEMMA AlwaysQueuedOnce == Spec => []QueuedOnce
<1>1. Init => QueuedOnce
  BY DEF Init, InitAgent, InitServer, Free, QueuedOnce
<1>2. TypeOK /\ QueuedOnce /\ [Next]_vars => QueuedOnce'
  <2>1. ASSUME QueuedOnce, UNCHANGED vars PROVE QueuedOnce'
    BY <2>1 DEF QueuedOnce, vars, agentVars, serverVars, processVars, producerVars, diskVars,
                exporterVars, historyVars
  <2> QED
    BY <2>1, AgentQueuesOnce, OthersQueueNothing DEF Next
<1> QED
  BY <1>1, <1>2, TypeCorrect, PTL DEF Spec

FeedStep == [Feed!FeedNext]_(Feed!feedVars)

LEMMA AgentRefines ==
  ASSUME DeliveryInv, QueuedOnce, AgentStep PROVE FeedStep
<1> USE DEF FeedStep, Feed!FeedNext, Feed!feedVars, serverVars, processVars, producerVars,
            diskVars, exporterVars, historyVars
<1>0. UNCHANGED <<stored, live>>
  BY DEF AgentStep
<1>1. CASE Publish
  <2>1. current \in Snapshot
    BY <1>1 DEF Publish, DeliveryInv, TypeOK, AgentTypeOK
  <2>2. Feed!Queue(current)
    BY <1>0, <1>1 DEF Publish, QueuedOnce, Feed!Queue
  <2> QED
    BY <2>1, <2>2
<1>2. CASE DropOldest
  <2>1. PICK s \in Oldest(spool) : spool' = spool \ {s} /\ evicted' = evicted \cup {s}
    BY <1>2 DEF DropOldest
  <2>2. s \in spool /\ s \in Snapshot
    BY ExtremesAreMembers DEF DeliveryInv, TypeOK, AgentTypeOK
  <2>3. Feed!Evict(s)
    BY <1>0, <1>2, <2>1, <2>2 DEF DropOldest, Feed!Evict
  <2> QED
    BY <2>2, <2>3
<1>3. CASE StartRemoval
  <2>1. CASE exporter = "rejected"
    <3>1. batch \cap spool \in SUBSET Snapshot
      BY DEF DeliveryInv, TypeOK, AgentTypeOK
    <3>2. Feed!Refuse(batch \cap spool)
      BY <1>0, <1>3, <2>1 DEF StartRemoval, Feed!Refuse
    <3> QED
      BY <3>1, <3>2
  <2>2. CASE exporter # "rejected"
    BY <1>0, <1>3, <2>2 DEF StartRemoval
  <2> QED
    BY <2>1, <2>2
<1>4. CASE RemoveOne
  <2>1. PICK s \in Oldest(Removable) : spool' = spool \ {s}
    BY <1>4 DEF RemoveOne
  <2>2. s \in batch \cap spool
    BY ExtremesAreMembers DEF Removable
  <2>3. s \in stored \cup refused /\ s \in Snapshot
    BY <1>4, <2>2 DEF RemoveOne, DeliveryInv, AnswersAreFounded, TypeOK, AgentTypeOK
  <2>4. Feed!Release(s)
    BY <1>0, <1>4, <2>1, <2>2, <2>3 DEF RemoveOne, Feed!Release
  <2> QED
    BY <2>3, <2>4
<1>5. CASE Tick \/ Collect \/ EnqueueThrows \/ EndEnqueue \/ RequestStop \/ Restart
  BY <1>0, <1>5 DEF Tick, Collect, EnqueueThrows, EndEnqueue, RequestStop, Restart
<1>6. CASE PickBatch \/ IdlePoll \/ EndRemoval \/ BackoffElapsed
  BY <1>0, <1>6 DEF PickBatch, IdlePoll, EndRemoval, BackoffElapsed
<1>7. CASE Exit \/ Crash
  BY <1>0, <1>7 DEF Exit, Crash, GoDown
<1> QED
  BY <1>1, <1>2, <1>3, <1>4, <1>5, <1>6, <1>7 DEF AgentStep, ProducerStep, ExporterStep

LEMMA HandlersRefine ==
  ASSUME DeliveryInv, QueuedOnce, NEW h \in Handlers, HandlerStep(h) PROVE FeedStep
<1> USE DEF FeedStep, Feed!FeedNext, Feed!feedVars
<1>0. UNCHANGED <<queued, spool, evicted, refused>>
  BY DEF HandlerStep, Complete, GiveUp, Answer, Accepted, Answered, SendFails, agentVars,
         diskVars, historyVars
<1>1. handler[h].left \subseteq queued /\ handler[h].left \subseteq Snapshot
      /\ handler[h].request \subseteq Snapshot
  BY DEF QueuedOnce, DeliveryInv, TypeOK, ServerTypeOK, HandlerState
<1>2. ASSUME NEW s \in Oldest(handler[h].left), stored' = stored \cup {s}, UNCHANGED live
      PROVE  FeedStep
  <2>1. s \in queued /\ s \in Snapshot
    BY <1>1, ExtremesAreMembers
  <2>2. Feed!Store(s)
    BY <1>0, <1>2, <2>1 DEF Feed!Store
  <2> QED
    BY <2>1, <2>2
<1>3. CASE Persist(h)
  BY <1>2, <1>3 DEF Persist, Commit
<1>4. CASE PersistFails(h)
  BY <1>0, <1>2, <1>4 DEF PersistFails, Commit
<1>5. CASE Expose(h)
  <2>1. PICK s \in Latest(handler[h].request) : Update(s)
    BY <1>5 DEF Expose
  <2>2. s \in stored /\ s \in Snapshot
    BY <1>1, <1>5, ExtremesAreMembers
       DEF Expose, AllPersisted, DeliveryInv, AnswersAreFounded
  <2>3. CASE s < live
    BY <1>0, <1>5, <2>1, <2>3 DEF Expose, Update
  <2>4. CASE ~(s < live)
    <3>1. s >= live
      BY <2>2, <2>4, BoundAssumption DEF DeliveryInv, TypeOK, ServerTypeOK, Snapshot
    <3>2. Feed!Show(s)
      BY <1>0, <1>5, <2>1, <2>2, <2>4, <3>1 DEF Expose, Update, Feed!Show
    <3> QED
      BY <2>2, <3>2
  <2> QED
    BY <2>3, <2>4
<1> QED
  BY <1>3, <1>4, <1>5 DEF HandlerStep, Complete, GiveUp

LEMMA OthersRefine ==
  ASSUME RequestStep \/ HostStep PROVE FeedStep
<1> USE DEF FeedStep, Feed!FeedNext, Feed!feedVars
<1>1. UNCHANGED <<queued, spool, evicted, refused, stored>>
  BY DEF RequestStep, Deliver, Begin, RefuseBatch, Rejected, Answered, NotReady, Unreachable,
         TimesOut, SendFails, HostStep, ServerDies, ServerCrash, ServerStart, OpenDatabase,
         DatabaseDown, DatabaseUp, Answer, agentVars, serverVars, diskVars, historyVars
<1>2. live' = 0 \/ UNCHANGED live
  BY DEF RequestStep, Deliver, Begin, RefuseBatch, NotReady, Unreachable, TimesOut, HostStep,
         ServerDies, ServerCrash, ServerStart, OpenDatabase, DatabaseDown, DatabaseUp, serverVars
<1>3. CASE live' = 0
  BY <1>1, <1>3 DEF Feed!Forget
<1>4. CASE UNCHANGED live
  BY <1>1, <1>4
<1> QED
  BY <1>2, <1>3, <1>4

(* Agent, requests, handlers and failures together do what SnapshotFeed      *)
(* allows, and nothing else: a snapshot is queued once, leaves the agent     *)
(* only when its fate is settled, and is shown only when it is stored.       *)
THEOREM DeliveryImplementsFeed == Spec => ImplementsFeed
<1>1. Init => Feed!FeedInit
  BY DEF Init, InitAgent, InitServer, Feed!FeedInit
<1>2. DeliveryInv /\ QueuedOnce /\ [Next]_vars => FeedStep
  <2>1. ASSUME UNCHANGED vars PROVE FeedStep
    BY <2>1 DEF FeedStep, Feed!feedVars, vars, agentVars, serverVars, diskVars, historyVars
  <2> QED
    BY <2>1, AgentRefines, HandlersRefine, OthersRefine DEF Next
<1> QED
  BY <1>1, <1>2, AlwaysQueuedOnce, Delivery, PTL
     DEF Spec, ImplementsFeed, Feed!FeedSpec, FeedStep

-------------------------------------------------------------------------------
(* The order in which snapshots reach the database. *)

Settled == stored \cup evicted \cup refused

(* Snapshots are queued in order, the exporter takes them in order, and a    *)
(* handler that has a snapshot to store has only settled ones before it,     *)
(* those apart that it stores itself first.                                  *)
InOrder ==
  /\ BatchComesFirst
  /\ producer = "writing" => \A s \in queued : s < current
  /\ stored \subseteq queued
  /\ \A h \in Handlers : \A s \in handler[h].left, earlier \in queued :
       earlier < s => earlier \in handler[h].left \cup Settled
  /\ NoGaps
  /\ SightingsAreTrue

OrderInv == DeliveryInv /\ QueuedOnce /\ InOrder

(* A snapshot that has only settled ones before it can be committed. *)
LEMMA CommitInOrder ==
  ASSUME OrderInv, NEW s \in queued, Commit(s), UNCHANGED <<queued, evicted, refused>>,
         \A earlier \in queued : earlier < s => earlier \in Settled
  PROVE  stored' \subseteq queued' /\ NoGaps' /\ SightingsAreTrue'
<1> USE DEF OrderInv, InOrder, NoGaps, SightingsAreTrue, Settled, Commit
<1>1. /\ stored \subseteq Int /\ queued \subseteq Int /\ 0 \notin queued /\ s > 0
      /\ resource.first \in Int /\ resource.last \in Int
  BY BoundAssumption DEF DeliveryInv, TypeOK, AgentTypeOK, ServerTypeOK, Snapshot
<1>2. stored' \subseteq queued' /\ NoGaps'
  BY <1>1
<1>3. CASE stored = {}
  <2>0. resource = NoRow /\ stored' = {s}
    BY <1>3
  <2>1. resource' = [first |-> s, last |-> s, shown |-> s] /\ stored' = {s}
    BY <1>1, <2>0 DEF Upserted, NoRow
  <2>2. resource' # NoRow
    BY <1>1, <2>1 DEF NoRow
  <2> QED
    BY <1>1, <1>2, <2>1, <2>2
<1>4. CASE stored # {}
  <2>1. /\ resource'.first = resource.first
        /\ resource'.last = IF s < resource.last THEN resource.last ELSE s
    BY <1>4 DEF Upserted
  <2>2. /\ resource'.first \in stored /\ resource'.last \in stored' /\ 0 \notin stored
        /\ resource'.shown \in stored'
    BY <1>1, <1>4, <2>1 DEF Upserted
  <2>3. resource' # NoRow /\ stored' # {}
    BY <2>2 DEF NoRow
  <2>4. \A t \in stored' : t <= resource'.last
    <3> SUFFICES ASSUME NEW t \in stored \cup {s} PROVE t <= resource'.last
      OBVIOUS
    <3>1. t \in Int /\ s \in Int /\ (t \in stored => t <= resource.last)
      BY <1>1
    <3> QED
      BY <1>1, <2>1, <3>1
  <2>5. \A t \in stored' : t < resource'.first => t \in evicted' \cup refused'
    <3>1. ASSUME s < resource.first, s \notin stored PROVE s \in evicted \cup refused
      BY <1>1, <1>4, <3>1
    <3> QED
      BY <1>4, <2>1, <3>1
  <2> QED
    BY <1>2, <2>2, <2>3, <2>4, <2>5
<1> QED
  BY <1>2, <1>3, <1>4

(* The agent queues behind everything and settles what it removes. *)
LEMMA AgentKeepsOrder ==
  ASSUME OrderInv, QueuedOnce', BatchComesFirst', AgentStep PROVE InOrder'
<1> USE DEF OrderInv, InOrder, NoGaps, SightingsAreTrue, Settled, QueuedOnce, processVars,
            producerVars, diskVars, exporterVars, historyVars, serverVars
<1>0. UNCHANGED <<handler, stored, resource>>
  BY DEF AgentStep
<1>1. now \in Int /\ current \in Int /\ queued \subseteq Int
  BY BoundAssumption DEF DeliveryInv, TypeOK, AgentTypeOK, Snapshot
<1>2. CASE Collect
  <2>1. UNCHANGED <<queued, evicted, refused>> /\ current' = now + 1
    BY <1>2 DEF Collect
  <2>2. \A s \in queued' : s < current'
    BY <1>1, <2>1
  <2> QED
    BY <1>0, <2>1, <2>2
<1>3. CASE Publish
  <2>1. /\ queued' = queued \cup {current} /\ producer' = "enforcing"
        /\ UNCHANGED <<evicted, refused>>
        /\ \A s \in queued : s < current
    BY <1>3 DEF Publish
  <2>2. \A h \in Handlers : handler[h].left \subseteq queued
    OBVIOUS
  <2>3. \A h \in Handlers : \A s \in handler'[h].left, earlier \in queued' :
          earlier < s => earlier \in handler'[h].left \cup Settled'
    <3> SUFFICES ASSUME NEW h \in Handlers, NEW s \in handler[h].left,
                        NEW earlier \in queued \cup {current}, earlier < s
                 PROVE  earlier \in handler[h].left \cup Settled
      BY <1>0, <2>1
    <3>1. s \in queued /\ s < current /\ s \in Int
      BY <1>1, <2>1, <2>2
    <3>2. earlier \in queued
      BY <1>1, <3>1
    <3> QED
      BY <3>2
  <2>4. stored' \subseteq queued' /\ NoGaps' /\ SightingsAreTrue'
    BY <1>0, <1>1, <2>1
  <2> QED
    BY <2>1, <2>3, <2>4
<1>4. CASE UNCHANGED queued /\ evicted \subseteq evicted' /\ refused \subseteq refused'
           /\ (producer' = "writing" => producer = "writing" /\ UNCHANGED current)
  BY <1>0, <1>4
<1> QED
  BY <1>2, <1>3, <1>4
     DEF AgentStep, ProducerStep, ExporterStep, Tick, EnqueueThrows, DropOldest, EndEnqueue,
         PickBatch, IdlePoll, StartRemoval, RemoveOne, EndRemoval, BackoffElapsed, RequestStop,
         Exit, Crash, GoDown, Restart

(* What the exporter sends has only settled snapshots before it: they are not *)
(* in the spool any more.                                                     *)
LEMMA RequestsKeepOrder ==
  ASSUME OrderInv, BatchComesFirst', RequestStep PROVE InOrder'
<1> USE DEF OrderInv, InOrder, NoGaps, SightingsAreTrue, Settled, serverVars, agentVars,
            producerVars, diskVars, historyVars
<1>0. UNCHANGED <<producer, current, queued, evicted, refused, stored, resource>>
  BY DEF RequestStep, Deliver, Begin, RefuseBatch, Rejected, Answered, NotReady, Unreachable,
         TimesOut, SendFails
<1>1. ASSUME NEW h \in Handlers, Deliver(h) PROVE InOrder'
  <2>1. handler \in [Handlers -> HandlerState]
    BY DEF DeliveryInv, TypeOK, ServerTypeOK
  <2>2. handler' = [handler EXCEPT ![h] = [busy |-> TRUE, request |-> batch, left |-> batch]]
    BY <1>1 DEF Deliver, Begin
  <2>3. ASSUME NEW s \in batch, NEW earlier \in queued, earlier < s
        PROVE  earlier \in batch \cup Settled
    <3>1. CASE earlier \in spool
      <4>1. s \in Int /\ earlier \in Int
        BY DEF QueuedOnce, DeliveryInv, TypeOK, AgentTypeOK, Snapshot
      <4> QED
        BY <2>3, <3>1, <4>1 DEF BatchComesFirst
    <3>2. CASE earlier \notin spool
      BY <3>2 DEF DeliveryInv, NoSilentLoss
    <3> QED
      BY <3>1, <3>2
  <2>4. \A g \in Handlers : \A s \in handler'[g].left, earlier \in queued' :
          earlier < s => earlier \in handler'[g].left \cup Settled'
    BY <1>0, <2>1, <2>2, <2>3
  <2> QED
    BY <1>0, <2>4
<1>2. CASE UNCHANGED handler
  BY <1>0, <1>2
<1> QED
  BY <1>1, <1>2 DEF RequestStep, RefuseBatch, NotReady, Unreachable, TimesOut

(* A handler commits its snapshots in order. *)
LEMMA HandlersKeepOrder ==
  ASSUME OrderInv, BatchComesFirst', NEW h \in Handlers, HandlerStep(h) PROVE InOrder'
<1> USE DEF OrderInv, InOrder, Settled
<1>0. UNCHANGED <<producer, current, queued, evicted, refused>>
  BY DEF HandlerStep, Complete, GiveUp, Answer, Accepted, Answered, SendFails, agentVars,
         producerVars, historyVars
<1>1. handler \in [Handlers -> HandlerState]
  BY DEF DeliveryInv, TypeOK, ServerTypeOK
<1>2. handler[h].left \subseteq queued /\ queued \subseteq Int
  BY DEF QueuedOnce, DeliveryInv, TypeOK, AgentTypeOK, Snapshot
<1>3. ASSUME NEW s \in Oldest(handler[h].left), Commit(s)
      PROVE  stored' \subseteq queued' /\ NoGaps' /\ SightingsAreTrue'
  <2>1. s \in queued
    BY <1>2 DEF Oldest
  <2>2. ASSUME NEW earlier \in queued, earlier < s PROVE earlier \in Settled
    <3>1. s \in handler[h].left /\ earlier \in handler[h].left \cup Settled
      BY <2>2 DEF Oldest
    <3>2. earlier \notin handler[h].left
      BY <1>2, <2>1, <2>2 DEF Oldest
    <3> QED
      BY <3>1, <3>2
  <2> QED
    BY <1>0, <1>3, <2>1, <2>2, CommitInOrder
<1>4. CASE Persist(h)
  <2>1. PICK s \in Oldest(handler[h].left) :
          handler' = [handler EXCEPT ![h].left = @ \ {s}] /\ Commit(s)
    BY <1>4 DEF Persist
  <2>2. stored' = stored \cup {s}
    BY <2>1 DEF Commit
  <2>3. handler'[h].left = handler[h].left \ {s}
    BY <1>1, <2>1 DEF HandlerState
  <2>4. \A g \in Handlers \ {h} : handler'[g] = handler[g]
    BY <1>1, <2>1
  <2>5. \A g \in Handlers : \A t \in handler'[g].left, earlier \in queued' :
          earlier < t => earlier \in handler'[g].left \cup Settled'
    BY <1>0, <2>2, <2>3, <2>4
  <2> QED
    BY <1>0, <1>3, <2>1, <2>5
<1>5. CASE Expose(h) \/ PersistFails(h)
  <2>1. handler' = [handler EXCEPT ![h] = Free]
    BY <1>5 DEF Expose, PersistFails
  <2>2. stored \subseteq stored'
    BY <1>5 DEF Expose, PersistFails, Commit
  <2>3. \A g \in Handlers : \A t \in handler'[g].left, earlier \in queued' :
          earlier < t => earlier \in handler'[g].left \cup Settled'
    BY <1>0, <1>1, <2>1, <2>2 DEF Free
  <2>4. stored' \subseteq queued' /\ NoGaps' /\ SightingsAreTrue'
    <3>1. CASE UNCHANGED <<stored, resource>>
      BY <1>0, <3>1 DEF NoGaps, SightingsAreTrue
    <3> QED
      BY <1>3, <1>5, <3>1 DEF Expose, PersistFails
  <2> QED
    BY <1>0, <2>3, <2>4
<1> QED
  BY <1>4, <1>5 DEF HandlerStep, Complete, GiveUp

(* Hosts forget requests, never rows. *)
LEMMA HostsKeepOrder ==
  ASSUME OrderInv, BatchComesFirst', HostStep PROVE InOrder'
<1> USE DEF OrderInv, InOrder, NoGaps, SightingsAreTrue, Settled
<1>0. UNCHANGED <<producer, current, queued, evicted, refused, stored, resource>>
  BY DEF HostStep, ServerDies, ServerCrash, ServerStart, OpenDatabase, DatabaseDown, DatabaseUp,
         Answer, SendFails, agentVars, producerVars, historyVars
<1>1. CASE \A h \in Handlers : handler'[h].left = {}
  BY <1>0, <1>1
<1>2. CASE UNCHANGED handler
  BY <1>0, <1>2
<1> QED
  BY <1>1, <1>2 DEF HostStep, ServerDies, ServerCrash, Free, ServerStart, OpenDatabase,
                    DatabaseDown, DatabaseUp

(* Whatever happens in the pipeline, the agent makes a step of its own, gets a *)
(* result or rests.                                                            *)
LEMMA PipelineMovesAgent ==
  ASSUME [Next]_vars
  PROVE  AgentOwnStep \/ Accepted \/ Rejected \/ SendFails \/ UNCHANGED agentVars
BY DEF Next, vars, AgentStep, AgentOwnStep, RequestStep, Deliver, RefuseBatch, NotReady,
       Unreachable, TimesOut, HandlerStep, Complete, GiveUp, Answer, HostStep, ServerDies

LEMMA BatchAlwaysComesFirst ==
  ASSUME TypeOK, BatchComesFirst, [Next]_vars PROVE BatchComesFirst'
<1>1. AgentTypeOK
  BY DEF TypeOK
<1>2. CASE AgentOwnStep \/ Accepted \/ Rejected \/ SendFails
  BY <1>1, <1>2, BatchStaysFirst
<1>3. CASE UNCHANGED agentVars
  BY <1>3 DEF BatchComesFirst, agentVars, producerVars, diskVars, exporterVars
<1> QED
  BY <1>2, <1>3, PipelineMovesAgent

LEMMA AlwaysInOrder == Spec => []InOrder
<1>1. Init => InOrder
  BY DEF Init, InitAgent, InitServer, Free, InOrder, BatchComesFirst, NoGaps, SightingsAreTrue
<1>2. DeliveryInv /\ QueuedOnce /\ QueuedOnce' /\ InOrder /\ [Next]_vars => InOrder'
  <2> SUFFICES ASSUME OrderInv, QueuedOnce', [Next]_vars PROVE InOrder'
    BY DEF OrderInv
  <2>1. BatchComesFirst'
    BY BatchAlwaysComesFirst DEF OrderInv, DeliveryInv, InOrder
  <2>2. CASE UNCHANGED vars
    BY <2>1, <2>2 DEF OrderInv, InOrder, NoGaps, SightingsAreTrue, Settled, vars, agentVars,
                      serverVars, producerVars, historyVars
  <2> QED
    BY <2>1, <2>2, AgentKeepsOrder, RequestsKeepOrder, HandlersKeepOrder, HostsKeepOrder DEF Next
<1> QED
  BY <1>1, <1>2, AlwaysQueuedOnce, Delivery, PTL DEF Spec

(* The database has no gaps: whatever precedes a stored snapshot is stored   *)
(* as well, or was evicted or refused.                                       *)
THEOREM StoredWithoutGaps == Spec => []NoGaps
BY AlwaysInOrder, PTL DEF InOrder

(* The sightings of a resource are those of its samples, whatever handlers *)
(* were given up and write late.                                           *)
THEOREM SightingsAlwaysTrue == Spec => []SightingsAreTrue
BY AlwaysInOrder, PTL DEF InOrder

(* Older attributes replace newer ones only when a snapshot is written again *)
(* or was given up by the agent.                                             *)
THEOREM AttributesGoForward == Spec => OnlyReplaysGoBack
<1>1. DeliveryInv /\ QueuedOnce /\ InOrder /\ [Next]_vars
        => [resource'.shown < resource.shown
              => resource'.shown \in stored \cup evicted \cup refused]_resource
  <2> SUFFICES ASSUME OrderInv, Next, resource' # resource, resource'.shown < resource.shown
               PROVE  resource'.shown \in stored \cup evicted \cup refused
    BY DEF OrderInv, vars, serverVars
  <2>0. \E h \in Handlers : \E s \in Oldest(handler[h].left) : Commit(s)
    BY DEF Next, AgentStep, RequestStep, Deliver, Begin, RefuseBatch, NotReady, Unreachable,
           TimesOut, HandlerStep, Persist, Complete, Expose, GiveUp, PersistFails, HostStep,
           ServerDies, ServerCrash, ServerStart, OpenDatabase, DatabaseDown, DatabaseUp, serverVars
  <2>1. PICK h \in Handlers : \E s \in Oldest(handler[h].left) : Commit(s)
    BY <2>0
  <2>2. PICK s \in Oldest(handler[h].left) : Commit(s)
    BY <2>1
  <2>3. resource'.shown = s /\ s \in queued
    BY <2>2 DEF Commit, Upserted, OrderInv, QueuedOnce, Oldest
  <2>4. resource.shown \in stored
    <3>1. s \in Int /\ s > 0
      BY <2>3 DEF OrderInv, DeliveryInv, TypeOK, AgentTypeOK, Snapshot
    <3>2. stored # {}
      BY <2>3, <3>1 DEF OrderInv, InOrder, SightingsAreTrue, NoRow
    <3> QED
      BY <3>2 DEF OrderInv, InOrder, SightingsAreTrue
  <2> QED
    BY <2>3, <2>4 DEF OrderInv, InOrder, NoGaps
<1> QED
  BY <1>1, AlwaysInOrder, AlwaysQueuedOnce, Delivery, PTL DEF Spec, OnlyReplaysGoBack

-------------------------------------------------------------------------------
(* The agent of the pipeline is the agent of AgentSpool: whatever the dashboard, *)
(* the database and the connection do, it sees one of the three results.         *)
THEOREM PipelineRunsAgent ==
  Spec => InitAgent /\ [][AgentOwnStep \/ Accepted \/ Rejected \/ SendFails]_agentVars
<1>1. Init => InitAgent
  BY DEF Init
<1>2. [Next]_vars => [AgentOwnStep \/ Accepted \/ Rejected \/ SendFails]_agentVars
  BY PipelineMovesAgent
<1> QED
  BY <1>1, <1>2, PTL DEF Spec

(* So snapshots leave the spool oldest first in the pipeline, too. *)
THEOREM PipelineDrainsInOrder == Spec => DrainsInOrder
<1>1. TypeOK /\ BatchComesFirst /\ [Next]_vars
        => [\A gone \in spool \ spool', kept \in spool \cap spool' : gone < kept]_spool
  BY FirstFilesLeave, PipelineMovesAgent DEF TypeOK, agentVars, diskVars
<1>2. InOrder => BatchComesFirst
  BY DEF InOrder
<1> QED
  BY <1>1, <1>2, TypeCorrect, AlwaysInOrder, PTL DEF Spec, DrainsInOrder

(* The limit of the spool holds in the pipeline as it does of the agent alone: *)
(* no answer, lost or late, makes the spool outgrow --spool-max-bytes.         *)
THEOREM PipelineKeepsLimit == Spec => []SpoolWithinLimit
<1>1. TypeOK /\ SpoolWithinLimit /\ [Next]_vars => SpoolWithinLimit'
  <2> SUFFICES ASSUME TypeOK, SpoolWithinLimit, [Next]_vars PROVE SpoolWithinLimit'
    OBVIOUS
  <2>1. AgentTypeOK
    BY DEF TypeOK
  <2>2. CASE AgentOwnStep \/ Accepted \/ Rejected \/ SendFails
    BY <2>1, <2>2, StaysWithinLimit
  <2>3. CASE UNCHANGED agentVars
    BY <2>3 DEF SpoolWithinLimit, TotalSize, agentVars, producerVars, diskVars, historyVars
  <2> QED
    BY <2>2, <2>3, PipelineMovesAgent
<1>2. Init => SpoolWithinLimit
  BY StartsWithinLimit DEF Init
<1> QED
  BY <1>1, <1>2, TypeCorrect, PTL DEF Spec
===============================================================================
