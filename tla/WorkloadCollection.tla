--------------------------- MODULE WorkloadCollection ---------------------------
(***************************************************************************)
(* The cycle of TelemetryCollector::collect() as far as it concerns        *)
(* containers: the cgroups are sampled, and every few seconds four kubectl *)
(* commands are run one after the other to learn what the containers are.  *)
(* The cluster changes at any time, also between two of the commands; each *)
(* command takes time and can fail; the agent can be restarted.            *)
(***************************************************************************)
EXTENDS WorkloadMetrics, Sequences

CONSTANTS
  Container,     \* container ids; a restarted container has a new one
  Pod,
  PodOf,         \* the pod of a container
  NamespaceOf,   \* the namespace of a pod
  OwnerOf,       \* the owner of a pod: its kind and name
  SetOwner,      \* the owner of a replica set, by <<namespace, name>>
  Deployment,    \* <<namespace, name>>
  LimitOf,       \* the memory limit of a container, 0 if it has none
  Busy,          \* containers that use the CPU, the others being idle
  First,         \* the sets of containers that may run at the beginning
  Interval,      \* kKubernetesMetadataRefreshInterval
  KeptEvents,    \* kMaximumEvents
  MaxElapsed,    \* bound on the time from a sample to the next sleep
  MaxUsage,      \* bound on the CPU time of a container
  MaxChanges,    \* bound on the changes of the cluster
  MaxFaults,     \* bound on failed commands, missed readings and restarts
  MaxGeneration  \* bound on the generation of a Deployment

ReplicaSet == DOMAIN SetOwner

(* Namespaced names are pairs.  A replica set of a Deployment is in the     *)
(* namespace of it, and a Deployment owns replica sets but no pods.         *)
ASSUME WorkloadAssumption ==
  /\ IsFiniteSet(Container) /\ IsFiniteSet(Pod) /\ IsFiniteSet(Deployment)
  /\ Busy \subseteq Container /\ First \subseteq SUBSET Container
  /\ PodOf \in [Container -> Pod] /\ LimitOf \in [Container -> Nat]
  /\ \A p \in Pod : OwnerOf[p].kind = "ReplicaSet" => <<NamespaceOf[p], OwnerOf[p].name>> \in ReplicaSet
  /\ \A k \in ReplicaSet \cup Deployment : k = <<k[1], k[2]>>
  /\ \A s \in ReplicaSet : SetOwner[s].kind = "Deployment" => <<s[1], SetOwner[s].name>> \in Deployment
  /\ \A p \in Pod : OwnerOf[p].kind # "Deployment"
  /\ {Interval, KeptEvents, MaxElapsed, MaxGeneration} \subseteq Nat \ {0}
  /\ {MaxUsage, MaxChanges, MaxFaults} \subseteq Nat

VARIABLES
  running,     \* containers that have processes
  ended,       \* containers that have run
  usage,       \* CPU time of the running containers
  listed,      \* containers in the status of a pod that the API server lists
  sets,        \* per replica set: "new", "there" or "gone"
  generation,  \* per Deployment: its generation, 0 while it does not exist
  reached,     \* history: the highest generation that a Deployment of the name has had
  happened,    \* number of events so far
  changes, faults,  \* how much of the bounds is spent
  pc,          \* "down", "asleep", "awake" or the command that runs
  elapsed,     \* time since the cgroups were sampled
  previous,    \* previous_cgroup_sample_
  metrics,     \* snapshot.containers
  attempted,   \* has_attempted_kubernetes_metadata_refresh_
  age,         \* time since last_kubernetes_metadata_refresh_, up to Interval
  reading,     \* the results of the commands of this refresh
  known,       \* has_kubernetes_metadata_
  cache,       \* kubernetes_metadata_
  answered,    \* history: the last refresh was answered
  staleness    \* history: time since the pods were last listed, up to Interval

clusterVars == <<running, ended, usage, listed, sets, generation, reached, happened>>
boundVars   == <<changes, faults>>
viewVars    == <<attempted, age, reading, known, cache, answered, staleness>>
agentVars   == <<pc, elapsed, previous, metrics, viewVars>>
vars        == <<clusterVars, boundVars, agentVars>>

Empty == [x \in {} |-> 0]

-------------------------------------------------------------------------------
(* What the commands print.                                                *)

(* Mutant: the replica sets are listed before the pods. *)
CommandsSetsFirst == <<"sets", "pods", "deployments", "events">>

Commands == <<"pods", "sets", "deployments", "events">>

Command    == {Commands[i] : i \in 1..4}
After(cmd) == Commands[1 + CHOOSE i \in 1..3 : Commands[i] = cmd]
Unread     == [cmd \in Command |-> [succeeded |-> FALSE, output |-> {}]]

PodRows ==
  {[container |-> c, pod |-> PodOf[c], namespace |-> NamespaceOf[PodOf[c]],
    owner |-> OwnerOf[PodOf[c]]] : c \in listed}

Deployed == {d \in Deployment : generation[d] # 0}

Rows(cmd) ==
  CASE cmd = "pods"        -> PodRows
    [] cmd = "sets"        -> {[namespace |-> s[1], name |-> s[2], owner |-> SetOwner[s]] :
                                 s \in {r \in ReplicaSet : sets[r] = "there"}}
    [] cmd = "deployments" -> {[namespace |-> d[1], name |-> d[2], generation |-> generation[d]] :
                                 d \in Deployed}
    [] cmd = "events"      -> 1..happened

(* run_command(): the output is used only if the exit status is 0. *)
Output(results, cmd) == IF results[cmd].succeeded THEN results[cmd].output ELSE {}

(* read_snapshot(): a failed command other than the first prints nothing. *)
Metadata(results) ==
  [identities  |-> Identities(Output(results, "pods"), OwnersBySet(Output(results, "sets"))),
   deployments |-> DeploymentsByKey(Output(results, "deployments")),
   events      |-> LastEvents(Output(results, "events"), KeptEvents)]

NoMetadata == [identities |-> Empty, deployments |-> Empty, events |-> {}]

-------------------------------------------------------------------------------
(* What the collectors read of the cgroups.                                *)

(* A container is found through its processes.  If it ends while it is     *)
(* being read, its files read as zeros and as without limit.               *)
ReadCgroup(c, torn) == IF c \in torn THEN [usage |-> 0, limit |-> 0]
                                     ELSE [usage |-> usage[c], limit |-> LimitOf[c]]

ReadSample(missed, torn) == [c \in running \ missed |-> ReadCgroup(c, torn)]

-------------------------------------------------------------------------------
SetIsThere(p) ==
  OwnerOf[p].kind = "ReplicaSet" => sets[<<NamespaceOf[p], OwnerOf[p].name>>] = "there"

(* The agent starts on a cluster in any state of its pods. *)
Init ==
  /\ running \in First /\ listed = running /\ ended = {}
  /\ usage = [c \in Container |-> 0]
  /\ sets \in [ReplicaSet -> {"new", "there"}]
  /\ \A c \in running : SetIsThere(PodOf[c])
  /\ generation \in [Deployment -> 0..MaxGeneration] /\ reached = generation
  /\ Deployed = {d \in Deployment : \E s \in ReplicaSet : /\ s[1] = d[1] /\ s[2] # d[2]
                                                          /\ sets[s] = "there"
                                                          /\ SetOwner[s].name = d[2]}
  /\ happened = 0 /\ changes = 0 /\ faults = 0
  /\ pc = "down" /\ elapsed = 0 /\ previous = Empty /\ metrics = Empty
  /\ attempted = FALSE /\ age = 0 /\ reading = Unread
  /\ known = FALSE /\ cache = NoMetadata
  /\ answered = FALSE /\ staleness = 0

-------------------------------------------------------------------------------
(* The cluster.                                                            *)

Change == changes < MaxChanges /\ changes' = changes + 1 /\ UNCHANGED faults

(* A container starts; its pod's replica set is there by then.  The status *)
(* of the pod names it at once or some time later.                         *)
Starts(c) ==
  /\ Change /\ c \notin running \cup ended /\ SetIsThere(PodOf[c])
  /\ running' = running \cup {c}
  /\ listed' \in {listed, listed \cup {c}}
  /\ UNCHANGED <<ended, usage, sets, generation, reached, happened, agentVars>>

(* The kubelet reports the container in the status of its pod. *)
Reported(c) ==
  /\ Change /\ c \in running \ listed
  /\ listed' = listed \cup {c}
  /\ UNCHANGED <<running, ended, usage, sets, generation, reached, happened, agentVars>>

End(C) ==
  /\ running' = running \ C /\ ended' = ended \cup C
  /\ usage' = [c \in Container |-> IF c \in C THEN 0 ELSE usage[c]]

(* A container ends, for example with its pod. *)
Ends(c) ==
  /\ Change /\ c \in running /\ End({c})
  /\ listed' \in {listed, listed \ {c}}
  /\ UNCHANGED <<sets, generation, reached, happened, agentVars>>

(* The pod is deleted, or its status names the container that came after. *)
Forgotten(c) ==
  /\ Change /\ c \in listed \ running
  /\ listed' = listed \ {c}
  /\ UNCHANGED <<running, ended, usage, sets, generation, reached, happened, agentVars>>

(* A replica set comes before its pods.  It may go before them, too: owners *)
(* are deleted first.                                                       *)
SetChanges(s) ==
  /\ Change
  /\ \/ sets[s] = "new"   /\ sets' = [sets EXCEPT ![s] = "there"]
     \/ sets[s] = "there" /\ sets' = [sets EXCEPT ![s] = "gone"]
  /\ UNCHANGED <<running, ended, usage, listed, generation, reached, happened, agentVars>>

(* A Deployment is created or changed, or deleted.  It can be created again *)
(* under the same name, and its generations begin with 1 once more.        *)
DeploymentChanges(d) ==
  /\ Change
  /\ \E g \in {0, generation[d] + 1} \cap (0..MaxGeneration) :
       /\ g # generation[d]
       /\ generation' = [generation EXCEPT ![d] = g]
       /\ reached' = [reached EXCEPT ![d] = IF @ < g THEN g ELSE @]
  /\ UNCHANGED <<running, ended, usage, listed, sets, happened, agentVars>>

EventHappens ==
  /\ Change /\ happened' = happened + 1
  /\ UNCHANGED <<running, ended, usage, listed, sets, generation, reached, agentVars>>

Cluster ==
  \/ \E c \in Container : Starts(c) \/ Reported(c) \/ Ends(c) \/ Forgotten(c)
  \/ \E s \in ReplicaSet : SetChanges(s)
  \/ \E d \in Deployment : DeploymentChanges(d)
  \/ EventHappens

Later(time) == IF time < Interval THEN time + 1 ELSE time

(* Time passes, and the busy containers use one CPU each.  The sleep of     *)
(* main() lasts one unit, a command any number.                             *)
Tick ==
  /\ pc # "down" /\ (pc = "asleep" \/ elapsed < MaxElapsed)
  /\ elapsed' = elapsed + 1 /\ age' = Later(age) /\ staleness' = Later(staleness)
  /\ usage' = [c \in Container |-> IF c \in running \cap Busy /\ usage[c] < MaxUsage
                                   THEN usage[c] + 1 ELSE usage[c]]
  /\ pc' = IF pc = "asleep" THEN "awake" ELSE pc
  /\ UNCHANGED <<running, ended, listed, sets, generation, reached, happened, boundVars,
                 previous, metrics, attempted, reading, known, cache, answered>>

-------------------------------------------------------------------------------
(* The agent.                                                              *)

(* The constructor of TelemetryCollector. *)
Start ==
  /\ pc = "down"
  /\ pc' = "asleep" /\ elapsed' = 0
  /\ previous' = ReadSample({}, {}) /\ metrics' = Empty
  /\ UNCHANGED <<clusterVars, boundVars, viewVars>>

(* The process ends and forgets everything. *)
Crash ==
  /\ pc # "down" /\ faults < MaxFaults /\ faults' = faults + 1
  /\ pc' = "down" /\ elapsed' = 0 /\ previous' = Empty /\ metrics' = Empty
  /\ attempted' = FALSE /\ age' = 0 /\ reading' = Unread
  /\ known' = FALSE /\ cache' = NoMetadata
  /\ answered' = FALSE /\ staleness' = 0
  /\ UNCHANGED <<clusterVars, changes>>

(* Mutant: the metadata is read once. *)
DueOnce == ~attempted

Due == ~attempted \/ age >= Interval

(* Mutant: containers that a sample has missed are remembered. *)
NextPreviousMerged(current) ==
  [c \in DOMAIN current \cup DOMAIN previous |->
     IF c \in DOMAIN current THEN current[c] ELSE previous[c]]

NextPrevious(current) == current

(* The first half of collect(), up to the decision whether to refresh.     *)
(* Nothing reads previous_cgroup_sample_ again in this cycle, so that it   *)
(* makes no difference that the code assigns it at the end.                *)
Sample ==
  /\ pc = "awake"
  /\ \E missed \in SUBSET running : \E torn \in SUBSET (running \ missed) :
       /\ faults' = faults + Cardinality(missed \cup torn) /\ faults' <= MaxFaults
       /\ metrics' = ContainerMetrics(previous, ReadSample(missed, torn), elapsed)
       /\ previous' = NextPrevious(ReadSample(missed, torn))
       /\ End(torn)
  /\ elapsed' = 0
  /\ pc' = IF Due THEN Commands[1] ELSE "asleep"
  /\ UNCHANGED <<listed, sets, generation, reached, happened, changes, viewVars>>

(* Mutant: the interval begins when the refresh is over. *)
AgeSinceEnd == 0

(* The interval begins with the sample of the cycle. *)
AgeAfterRefresh == IF elapsed < Interval THEN elapsed ELSE Interval

EndRefresh ==
  /\ attempted' = TRUE /\ age' = AgeAfterRefresh
  /\ reading' = Unread /\ pc' = "asleep"

(* Mutant: the result of the first command is not looked at. *)
AbandonsNever(results) == FALSE

(* read_snapshot() is unavailable if and only if the pods cannot be listed. *)
Abandons(results) == ~results["pods"].succeeded

(* The last command has returned: its results take the place of the cache, *)
(* and the snapshot is put together.                                       *)
Adopt(results) ==
  /\ known' = TRUE /\ cache' = Metadata(results)
  /\ answered' = TRUE
  /\ EndRefresh

(* One command, with its result. *)
Run(cmd, succeeded) ==
  /\ pc = cmd
  /\ faults' = (IF succeeded THEN faults ELSE faults + 1) /\ faults' <= MaxFaults
  /\ LET result  == [succeeded |-> succeeded, output |-> Rows(cmd)]
         results == [reading EXCEPT ![cmd] = result]
     IN  \/ /\ cmd = "pods" /\ Abandons(results)
            /\ answered' = FALSE /\ EndRefresh /\ UNCHANGED <<known, cache>>
         \/ cmd = "events" /\ Adopt(results)
         \/ /\ cmd # "events" /\ ~(cmd = "pods" /\ Abandons(results))
            /\ reading' = results /\ pc' = After(cmd)
            /\ UNCHANGED <<attempted, age, known, cache, answered>>
  /\ staleness' = IF cmd = "pods" /\ succeeded THEN 0 ELSE staleness
  /\ UNCHANGED <<clusterVars, changes, elapsed, previous, metrics>>

Agent == Start \/ Sample \/ \E cmd \in Command : \E succeeded \in BOOLEAN : Run(cmd, succeeded)

Next == Cluster \/ Tick \/ Agent \/ Crash

Spec == Init /\ [][Next]_vars

(* Time passes and the loop of main() goes on. *)
FairSpec == Spec /\ WF_vars(Tick) /\ WF_vars(Agent)

-------------------------------------------------------------------------------
(* The snapshot that the last cycle has put together, until the next       *)
(* sample is taken: snapshot.pods and snapshot.deployments.                *)

Published == pc \in {"asleep", "awake"}

Pods        == PodMetrics(cache.identities, metrics)
Deployments == DeploymentMetrics(Pods, cache.deployments)

-------------------------------------------------------------------------------
(* Properties.                                                             *)

Workloads == {OwnerOf[p] : p \in Pod} \cup {SetOwner[s] : s \in ReplicaSet}

MetadataOK(m) ==
  /\ DOMAIN m.identities \subseteq Container
  /\ \A c \in DOMAIN m.identities : /\ m.identities[c].pod = PodOf[c]
                                    /\ m.identities[c].workload \in Workloads
  /\ \A k \in DOMAIN m.deployments : m.deployments[k] \in 1..MaxGeneration
  /\ m.events \subseteq 1..MaxChanges /\ Cardinality(m.events) <= KeptEvents

(* Every variable keeps its type. *)
TypeOK ==
  /\ running \subseteq Container /\ ended \subseteq Container /\ listed \subseteq Container
  /\ usage \in [Container -> 0..MaxUsage]
  /\ sets \in [ReplicaSet -> {"new", "there", "gone"}]
  /\ {generation, reached} \subseteq [Deployment -> 0..MaxGeneration]
  /\ happened \in 0..MaxChanges /\ changes \in 0..MaxChanges /\ faults \in 0..MaxFaults
  /\ pc \in {"down", "asleep", "awake"} \cup Command
  /\ elapsed \in 0..MaxElapsed + 1 /\ age \in 0..Interval /\ staleness \in 0..Interval
  /\ DOMAIN previous \subseteq Container /\ DOMAIN metrics \subseteq Container
  /\ \A c \in DOMAIN metrics : metrics[c].usage \in 0..MaxUsage
  /\ DOMAIN reading = Command /\ {attempted, known, answered} \subseteq BOOLEAN
  /\ MetadataOK(cache)

(* A container is never reported to have used more CPU time than has gone   *)
(* by since the last sample: not in its first cycle, not in the one after a *)
(* cycle that has missed it, nor after a kubectl command that took long.    *)
UsageIsPossible ==
  [][pc = "awake" /\ pc' \notin {"awake", "down"} =>
       \A c \in DOMAIN metrics' : metrics'[c].usage <= elapsed]_vars

(* Of the pods that a refresh has listed, one whose replica set still exists *)
(* is found in the replica sets listed after it, if these were answered.     *)
OwnersResolve ==
  pc \in {"deployments", "events"} /\ reading["sets"].succeeded =>
    \A r \in reading["pods"].output :
      r.owner.kind = "ReplicaSet" /\ sets[<<r.namespace, r.owner.name>>] = "there" =>
        \E s \in reading["sets"].output : s.namespace = r.namespace /\ s.name = r.owner.name

(* A Deployment's row counts no pod but its own, says of its generation      *)
(* nothing that no Deployment of that namespace and name has reached (the    *)
(* metadata may know one that was deleted since), and the rows together      *)
(* report no more CPU time than the containers used since the last sample.   *)
DeploymentsToldApart ==
  Published =>
    LET rows == Deployments
    IN  /\ \A k \in DOMAIN rows :
             /\ k \in Deployment /\ rows[k].generation <= reached[k]
             /\ \A p \in rows[k].pods :
                  /\ NamespaceOf[p] = k[1]
                  /\ SetOwner[<<NamespaceOf[p], OwnerOf[p].name>>].name = k[2]
        /\ Total([k \in DOMAIN rows |-> rows[k].usage], DOMAIN rows)
             <= Total([c \in DOMAIN metrics |-> metrics[c].usage], DOMAIN metrics)

(* A container that the API server lists all along keeps its identity once   *)
(* it is known, whichever commands fail, as long as the agent runs.          *)
IdentityKept ==
  [][pc' # "down" =>
       DOMAIN cache.identities \cap listed \subseteq DOMAIN cache'.identities]_vars

(* A snapshot made without a refresh uses pods that were listed less than   *)
(* kKubernetesMetadataRefreshInterval before, if the last refresh worked.   *)
FreshEnough ==
  [][pc = "awake" /\ pc' = "asleep" /\ answered => staleness < Interval]_vars

(* What Kubernetes would answer if it were asked at once. *)
Seen       == running \cap listed
OwnedBy(d) == {p \in {PodOf[c] : c \in Seen} :
                 /\ NamespaceOf[p] = d[1] /\ OwnerOf[p].kind = "ReplicaSet"
                 /\ SetIsThere(p)
                 /\ SetOwner[<<d[1], OwnerOf[p].name>>] = [kind |-> "Deployment", name |-> d[2]]}

(* The snapshot agrees with the cluster: every pod has its containers and  *)
(* their limits, every Deployment its generation and its pods, and the     *)
(* events are the latest.                                                  *)
SnapshotIsTrue ==
  LET pods == Pods
      rows == Deployments
  IN  /\ known /\ DOMAIN metrics = running
      /\ DOMAIN pods = {PodOf[c] : c \in Seen}
      /\ \A p \in DOMAIN pods :
           LET members == {c \in Seen : PodOf[c] = p}
           IN  /\ pods[p].containers = members
               /\ pods[p].limit = IF \E c \in members : LimitOf[c] = 0 THEN 0
                                  ELSE Total(LimitOf, members)
               /\ pods[p].available
      /\ DOMAIN rows = Deployed \cup {d \in Deployment : OwnedBy(d) # {}}
      /\ \A d \in DOMAIN rows :
           /\ rows[d].generation = generation[d]
           /\ rows[d].pods = OwnedBy(d)
           /\ rows[d].available <=> OwnedBy(d) # {}
      /\ cache.events = {e \in 1..happened : e > happened - KeptEvents}

(* Once the cluster keeps still and the commands work, the snapshots come   *)
(* to agree with it and stay so, whatever was read before or in between.    *)
Converges == <>[](Published => SnapshotIsTrue) /\ []<>Published

===============================================================================
