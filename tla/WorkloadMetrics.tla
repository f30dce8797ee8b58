---------------------------- MODULE WorkloadMetrics ----------------------------
(***************************************************************************)
(* The figures of containers, pods and Deployments in a snapshot, from two *)
(* samples of the cgroups and the Kubernetes metadata at hand              *)
(* (agent/src/container_metric_calculator.cpp, pod_metric_aggregator.cpp,  *)
(* deployment_metric_aggregator.cpp, kubernetes_metadata_collector.cpp).   *)
(*                                                                         *)
(* A sample maps the containers found to their CPU usage and memory limit; *)
(* a limit of 0 stands for none.  The other counters of a container        *)
(* (throttling, memory events) are treated as its usage is.  Names, images *)
(* and reasons are copied along with the identity and are left out.        *)
(***************************************************************************)
EXTENDS Sums

-------------------------------------------------------------------------------
(* Containers.                                                             *)

Delta(before, now) == IF now >= before THEN now - before ELSE 0

(* A usage is reported only if the same container was in the sample before *)
(* and its counter has not stepped back.                                   *)
ContainerMetrics(previous, current, elapsed) ==
  [c \in DOMAIN current |->
     LET now       == current[c]
         available == /\ c \in DOMAIN previous
                      /\ elapsed > 0
                      /\ now.usage >= previous[c].usage
     IN  [available |-> available,
          usage     |-> IF available THEN Delta(previous[c].usage, now.usage) ELSE 0,
          limit     |-> now.limit]]

-------------------------------------------------------------------------------
(* Pods: sums over the containers whose identity is known.                 *)

(* A pod's usage is available if that of every container is; so is its     *)
(* limit, and the sum that the code leaves behind otherwise is not used.   *)
PodMetric(identity, metrics, members) ==
  LET bounded == \A c \in members : metrics[c].limit # 0
  IN  [namespace |-> identity.namespace,
       workload  |-> identity.workload,
       containers |-> members,
       available |-> \A c \in members : metrics[c].available,
       usage     |-> Total([c \in members |-> metrics[c].usage], members),
       limit     |-> IF bounded THEN Total([c \in members |-> metrics[c].limit], members) ELSE 0]

(* attach_kubernetes_identity(): the containers of a sample that the       *)
(* metadata knows.                                                         *)
Attached(identities, metrics) == DOMAIN metrics \cap DOMAIN identities

(* All containers of a pod come from one line of the pod listing, so any   *)
(* of them gives the identity of the pod.                                  *)
PodMetrics(identities, metrics) ==
  LET attached   == Attached(identities, metrics)
      members(p) == {c \in attached : identities[c].pod = p}
  IN  [p \in {identities[c].pod : c \in attached} |->
         PodMetric(identities[CHOOSE c \in members(p) : TRUE], metrics, members(p))]

-------------------------------------------------------------------------------
(* Deployments: what Kubernetes says of them, and sums over their pods.    *)

(* Mutant: Deployments are told apart by their names alone. *)
NamespacedKeyByName(namespace, name) == <<"", name>>

NamespacedKey(namespace, name) == <<namespace, name>>

InDeployment(pod) == pod.workload.kind = "Deployment" /\ pod.workload.name # ""

(* A row for every Deployment of the metadata, and one for every other     *)
(* Deployment that a pod names; the latter has generation 0 and no         *)
(* replicas.  Without pods there is no usage.                              *)
DeploymentMetrics(pods, known) ==
  LET owned  == {p \in DOMAIN pods : InDeployment(pods[p])}
      key(p) == NamespacedKey(pods[p].namespace, pods[p].workload.name)
      of(k)  == {p \in owned : key(p) = k}
  IN  [k \in DOMAIN known \cup {key(p) : p \in owned} |->
         [generation |-> IF k \in DOMAIN known THEN known[k] ELSE 0,
          pods       |-> of(k),
          available  |-> of(k) # {} /\ \A p \in of(k) : pods[p].available,
          usage      |-> Total([p \in of(k) |-> pods[p].usage], of(k))]]

-------------------------------------------------------------------------------
(* Kubernetes metadata, from the rows that the commands print.             *)

(* parse_replica_sets(): a replica set by its key. *)
OwnersBySet(rows) ==
  [k \in {NamespacedKey(r.namespace, r.name) : r \in rows} |->
     (CHOOSE r \in rows : NamespacedKey(r.namespace, r.name) = k).owner]

(* resolve_workload(): the owner of a pod is the owner of its replica set  *)
(* if that is known and has one, and the replica set itself otherwise.     *)
ResolveWorkload(namespace, owner, owners) ==
  LET key == NamespacedKey(namespace, owner.name)
  IN  IF owner.kind = "ReplicaSet" /\ key \in DOMAIN owners /\ owners[key].name # ""
      THEN owners[key]
      ELSE owner

(* parse_kubernetes_metadata(): the identity of every container listed. *)
Identities(rows, owners) ==
  [c \in {r.container : r \in rows} |->
     LET r == CHOOSE s \in rows : s.container = c
     IN  [pod |-> r.pod, namespace |-> r.namespace,
          workload |-> ResolveWorkload(r.namespace, r.owner, owners)]]

(* parse_deployments(). *)
DeploymentsByKey(rows) ==
  [k \in {NamespacedKey(r.namespace, r.name) : r \in rows} |->
     (CHOOSE r \in rows : NamespacedKey(r.namespace, r.name) = k).generation]

(* Mutant: the oldest events are kept. *)
OldestEvents(rows, kept) == {e \in rows : Cardinality({d \in rows : d < e}) < kept}

(* Mutant: the event that is one too many is kept. *)
OneMoreEvent(rows, kept) == {e \in rows : Cardinality({d \in rows : d > e}) <= kept}

(* parse_events(): of the rows, oldest first, the last kept (50) ones. *)
LastEvents(rows, kept) == {e \in rows : Cardinality({d \in rows : d > e}) < kept}

===============================================================================
