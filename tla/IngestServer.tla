----------------------------- MODULE IngestServer -----------------------------
(***************************************************************************)
(* The dashboard's ingestion of infrastructure snapshots: the handler of   *)
(* POST /v1/infra-snapshots, the maintain_database task, the Live store    *)
(* (dashboard/server.py) and the rows it commits (dashboard/database.py).  *)
(*                                                                         *)
(* A handler persists the snapshots of its request one transaction at a    *)
(* time, each in a worker thread, so handlers of different requests        *)
(* interleave between transactions.  A client that gave up does not stop   *)
(* the handler that serves it.  Live is a variable of the process: it is   *)
(* empty again after a restart, the rows are not.                          *)
(***************************************************************************)
EXTENDS DeliveryBase

CONSTANTS
  Handlers,          \* slots for requests being served; bounds their number
  MaxInfraSnapshots, \* MAX_INFRA_SNAPSHOTS
  MaxSnapshotAge,    \* MAX_SNAPSHOT_AGE
  MaxPayloadBytes    \* MAX_INFRA_PAYLOAD_BYTES

ASSUME ServerAssumption ==
  /\ MaxInfraSnapshots \in Nat \ {0}
  /\ MaxSnapshotAge \in Nat
  /\ MaxPayloadBytes \in Nat

VARIABLES
  serverUp,  \* the dashboard process is running
  dbUp,      \* PostgreSQL answers
  ready,     \* TelemetryDatabase.ready
  handler,   \* what each slot is doing
  stored,    \* snapshots whose rows are committed
  resource,  \* the row, in telemetry.resources, of a resource that every snapshot holds
  live       \* timestamp of the Live snapshot (0: none since the process started)

serverVars == <<serverUp, dbUp, ready, handler, stored, resource, live>>

(* first_seen_at, last_seen_at and the snapshot the attributes are taken from. *)
NoRow == [first |-> 0, last |-> 0, shown |-> 0]

Free == [busy |-> FALSE, request |-> {}, left |-> {}]

HandlerState == [busy : BOOLEAN, request : SUBSET Snapshot, left : SUBSET Snapshot]

InitServer ==
  /\ serverUp = TRUE /\ dbUp = TRUE /\ ready = FALSE
  /\ handler = [h \in Handlers |-> Free]
  /\ stored = {} /\ resource = NoRow
  /\ live = 0

(* The checks of ingest_infrastructure() and validate_infra_envelope(): one *)
(* snapshot that is too old, or one file that is not JSON, fails them all.  *)
Valid(request, clock, bytes, broken) ==
  /\ bytes <= MaxPayloadBytes
  /\ Cardinality(request) <= MaxInfraSnapshots
  /\ request \cap broken = {}
  /\ \A s \in request : s >= clock - MaxSnapshotAge

Begin(h, request) ==
  /\ serverUp /\ ready
  /\ ~handler[h].busy
  /\ handler' = [handler EXCEPT ![h] = [busy |-> TRUE, request |-> request, left |-> request]]
  /\ UNCHANGED <<serverUp, dbUp, ready, stored, resource, live>>

(* Mutant: last_seen_at is the time of the latest upsert. *)
UpsertedWithoutGreatest(s) ==
  [first |-> IF resource = NoRow THEN s ELSE resource.first, last |-> s, shown |-> s]

(* _upsert_resource(): last_seen_at never goes back, first_seen_at stays and *)
(* the attributes are those of the last writer.                              *)
Upserted(s) ==
  [first |-> IF resource = NoRow THEN s ELSE resource.first,
   last  |-> IF s < resource.last THEN resource.last ELSE s,
   shown |-> s]

(* The transaction of ingest_snapshot().  Samples that are already there are *)
(* left as they are (ON CONFLICT DO NOTHING); resources are written again.   *)
Commit(s) ==
  /\ stored' = stored \cup {s}
  /\ resource' = Upserted(s)

(* The next snapshot of the request is committed. *)
Persist(h) ==
  /\ dbUp
  /\ \E s \in Oldest(handler[h].left) :
       /\ handler' = [handler EXCEPT ![h].left = @ \ {s}]
       /\ Commit(s)
  /\ UNCHANGED <<serverUp, dbUp, ready, live, faults>>

(* Mutant: the last writer wins. *)
UpdateAlways(s) == live' = s

(* LatestSnapshotStore.update(): an older snapshot never replaces a newer one. *)
Update(s) == live' = IF s < live THEN live ELSE s

(* Mutant: the answer is given after the first transaction. *)
FirstPersisted(h) == handler[h].left # handler[h].request

AllPersisted(h) == handler[h].left = {}

(* Everything is committed: the snapshots are exposed as Live, in order, *)
(* and the request is answered with success.                             *)
Expose(h) ==
  /\ handler[h].busy
  /\ AllPersisted(h)
  /\ \E s \in Latest(handler[h].request) : Update(s)
  /\ handler' = [handler EXCEPT ![h] = Free]
  /\ UNCHANGED <<serverUp, dbUp, ready, stored, resource, faults>>

(* ingest_snapshot() raises and the request is answered 503; what earlier    *)
(* transactions committed stays.  The error may also be the loss of the      *)
(* acknowledgement of a commit that took place.  TelemetryDatabase.ready is  *)
(* not taken back.                                                           *)
PersistFails(h) ==
  /\ handler[h].left # {}
  /\ \/ ~dbUp /\ UNCHANGED <<stored, resource, faults>>
     \/ Strike /\ UNCHANGED <<stored, resource>>
     \/ Strike /\ \E s \in Oldest(handler[h].left) : Commit(s)
  /\ handler' = [handler EXCEPT ![h] = Free]
  /\ UNCHANGED <<serverUp, dbUp, ready, live>>

ServerCrash ==
  /\ serverUp
  /\ Strike
  /\ serverUp' = FALSE /\ ready' = FALSE
  /\ handler' = [h \in Handlers |-> Free]
  /\ live' = 0
  /\ UNCHANGED <<dbUp, stored, resource>>

ServerStart ==
  /\ ~serverUp
  /\ serverUp' = TRUE
  /\ UNCHANGED <<dbUp, ready, handler, stored, resource, live, faults>>

(* maintain_database() opens the database once; it is not looked at again. *)
OpenDatabase ==
  /\ serverUp /\ dbUp /\ ~ready
  /\ ready' = TRUE
  /\ UNCHANGED <<serverUp, dbUp, handler, stored, resource, live, faults>>

DatabaseDown ==
  /\ dbUp
  /\ Strike
  /\ dbUp' = FALSE
  /\ UNCHANGED <<serverUp, ready, handler, stored, resource, live>>

DatabaseUp ==
  /\ ~dbUp
  /\ dbUp' = TRUE
  /\ UNCHANGED <<serverUp, ready, handler, stored, resource, live, faults>>

(* Every variable has its type. *)
ServerTypeOK ==
  /\ serverUp \in BOOLEAN /\ dbUp \in BOOLEAN /\ ready \in BOOLEAN
  /\ handler \in [Handlers -> HandlerState]
  /\ stored \subseteq Snapshot
  /\ resource \in [first : 0..MaxTime, last : 0..MaxTime, shown : 0..MaxTime]
  /\ live \in 0..MaxTime

===============================================================================
