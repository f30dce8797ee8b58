-------------------------- MODULE TelemetryDelivery ---------------------------
(***************************************************************************)
(* The agent and the dashboard together: every request of the exporter     *)
(* thread is served by a handler, and is answered, refused, or times out   *)
(* while the handler goes on without a client.  Delivery is therefore at   *)
(* least once, and requests of one agent may overlap on the server.        *)
(***************************************************************************)
EXTENDS AgentSpool, IngestServer

CONSTANT NoHandler    \* the exporter waits for no handler

ASSUME HandlerAssumption == NoHandler \notin Handlers

VARIABLE conn    \* the handler whose answer the exporter is waiting for

vars == <<agentVars, serverVars, conn, faults>>

Init == InitAgent /\ InitServer /\ faults = 0 /\ conn = NoHandler

-------------------------------------------------------------------------------
(* The exporter's request reaches the server, or does not. *)

BatchIsValid == Valid(batch, now, TotalSize(batch), damaged)

Deliver(h) ==
  /\ exporter = "sending" /\ conn = NoHandler
  /\ BatchIsValid
  /\ Begin(h, batch)
  /\ conn' = h
  /\ UNCHANGED <<agentVars, faults>>

(* 400, 413 or 422. *)
RefuseBatch ==
  /\ conn = NoHandler /\ serverUp
  /\ ~BatchIsValid
  /\ Rejected
  /\ UNCHANGED <<serverVars, conn, faults>>

(* 503 while the database has not been opened yet. *)
NotReady ==
  /\ conn = NoHandler /\ serverUp /\ ~ready
  /\ BatchIsValid
  /\ SendFails
  /\ UNCHANGED <<serverVars, conn, faults>>

Unreachable ==
  /\ conn = NoHandler /\ ~serverUp
  /\ SendFails
  /\ UNCHANGED <<serverVars, conn, faults>>

(* The client gives up; a handler that has started goes on.  A lost answer *)
(* looks the same to the client.                                           *)
TimesOut ==
  /\ Strike
  /\ SendFails
  /\ conn' = NoHandler
  /\ UNCHANGED serverVars

Answer(h, result) ==
  IF conn = h THEN result /\ conn' = NoHandler ELSE UNCHANGED <<agentVars, conn>>

Complete(h) == Expose(h) /\ Answer(h, Accepted)

GiveUp(h) == PersistFails(h) /\ Answer(h, SendFails)

-------------------------------------------------------------------------------
AgentStep ==
  /\ \/ (Tick \/ ProducerStep \/ ExporterStep \/ RequestStop \/ Exit \/ Restart) /\ UNCHANGED conn
     \/ Crash /\ conn' = NoHandler
  /\ UNCHANGED serverVars

RequestStep ==
  \/ \E h \in Handlers : Deliver(h)
  \/ RefuseBatch \/ NotReady \/ Unreachable \/ TimesOut

HandlerStep(h) == (Persist(h) /\ UNCHANGED <<agentVars, conn>>) \/ Complete(h) \/ GiveUp(h)

(* The connection of the request being served, if any, is reset. *)
ServerDies ==
  /\ ServerCrash
  /\ IF conn = NoHandler THEN UNCHANGED <<agentVars, conn>> ELSE Answer(conn, SendFails)

HostStep ==
  \/ ServerDies
  \/ /\ ServerStart \/ OpenDatabase \/ DatabaseDown \/ DatabaseUp
     /\ UNCHANGED <<agentVars, conn>>

Next ==
  \/ AgentStep
  \/ RequestStep
  \/ \E h \in Handlers : HandlerStep(h)
  \/ HostStep

Spec == Init /\ [][Next]_vars

(* The two threads and the handlers are scheduled, requests are answered    *)
(* or time out, systemd restarts the agent, Kubernetes restarts the server  *)
(* and PostgreSQL.  Nothing obliges a fault to happen.                      *)
Fairness ==
  /\ WF_vars((Publish \/ DropOldest \/ EndEnqueue) /\ UNCHANGED <<serverVars, conn>>)
  /\ WF_vars(ExporterStep /\ UNCHANGED <<serverVars, conn>>)
  /\ WF_vars((Exit \/ Restart) /\ UNCHANGED <<serverVars, conn>>)
  /\ WF_vars((\E h \in Handlers : Deliver(h)) \/ RefuseBatch \/ NotReady \/ Unreachable)
  /\ \A h \in Handlers : WF_vars(HandlerStep(h))
  /\ WF_vars(ServerStart /\ UNCHANGED <<agentVars, conn>>)
  /\ WF_vars(OpenDatabase /\ UNCHANGED <<agentVars, conn>>)
  /\ WF_vars(DatabaseUp /\ UNCHANGED <<agentVars, conn>>)

FairSpec == Spec /\ Fairness

-------------------------------------------------------------------------------
(* Every variable has its type. *)
TypeOK == AgentTypeOK /\ ServerTypeOK /\ conn \in Handlers \cup {NoHandler}

(* A snapshot that was queued is in the spool, in the database, or was given *)
(* up for a reason the agent logs: lost answers, half-stored batches, stale  *)
(* handlers and crashes on either side never make it vanish.                 *)
NoSilentLoss == queued \subseteq spool \cup stored \cup evicted \cup refused

(* Why nothing is lost: whoever is about to act on an answer, however long ago *)
(* the answer was given, acts on files whose fate is settled.                  *)
(*  - A request that is awaited is the exporter's batch, and the handler that  *)
(*    serves it is still at work.                                              *)
(*  - What a handler has no longer to store is committed.                      *)
(*  - A batch that was accepted is committed; of a batch that is being         *)
(*    removed, so is every file that is left and was not refused.              *)
(*  - While a batch is being removed nothing is enqueued.                      *)
AnswersAreFounded ==
  /\ conn # NoHandler =>
       exporter = "sending" /\ handler[conn].busy /\ handler[conn].request = batch
  /\ \A h \in Handlers : handler[h].request \ handler[h].left \subseteq stored
  /\ exporter = "accepted" => batch \subseteq stored
  /\ exporter = "removing" => producer = "idle" /\ batch \cap spool \subseteq stored \cup refused

(* README.md: the backend persists a snapshot before exposing it as Live. *)
LiveIsStored == live # 0 => live \in stored

(* Live never goes back in time while the dashboard runs, although requests *)
(* time out, are retried and finish in any order.                           *)
LiveNeverRegresses == [][serverUp' => live' >= live]_vars

(* What is stored has no gaps: once a snapshot is in the database, every       *)
(* earlier one is too, or was given up, whatever handlers overtook each other  *)
(* and wherever a batch was cut off.                                           *)
NoGaps ==
  \A s \in stored, earlier \in queued :
    earlier < s => earlier \in stored \cup evicted \cup refused

(* The times at which a resource was seen are those of its samples, although   *)
(* handlers that were given up write late: it was last seen in the newest      *)
(* snapshot that is stored, and no sample is older than its first sighting but *)
(* one that the agent had already given up when it was stored.                 *)
SightingsAreTrue ==
  /\ resource = NoRow <=> stored = {}
  /\ stored # {} => {resource.first, resource.last, resource.shown} \subseteq stored
  /\ \A s \in stored :
       s <= resource.last /\ (s < resource.first => s \in evicted \cup refused)

(* A resource gets older attributes back only from a snapshot that is written  *)
(* again, or that the agent has given up: what is new never arrives behind     *)
(* what is newer.                                                              *)
OnlyReplaysGoBack ==
  [][resource'.shown < resource.shown
       => resource'.shown \in stored \cup evicted \cup refused]_resource

(* The pipeline implements the feed. *)
Feed == INSTANCE SnapshotFeed WITH
  Item <- Snapshot, accepted <- queued, held <- spool, kept <- stored,
  lost <- evicted \cup refused, shown <- live

ImplementsFeed == Feed!FeedSpec

(* Every snapshot leaves the spool; with NoSilentLoss, it is then stored, or *)
(* was evicted or refused.  No batch is retried for ever and no answer is    *)
(* waited for for ever.                                                      *)
SpoolDrains == \A s \in Snapshot : s \in spool ~> s \notin spool

(* README.md says the spool protects delivery while the API or the database *)
(* is unavailable: only a snapshot the server itself objects to (incomplete, *)
(* out of retention, too large) is given up by a rejection.                  *)
OnlyBadSnapshotsRefused ==
  \A s \in refused :
    \/ s \in damaged
    \/ s < now - MaxSnapshotAge
    \/ SizeOf[s] > MaxPayloadBytes
===============================================================================
