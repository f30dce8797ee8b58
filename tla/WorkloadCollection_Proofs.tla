------------------------ MODULE WorkloadCollection_Proofs ------------------------
(***************************************************************************)
(* The collection of containers and Kubernetes metadata, for any number of *)
(* containers, pods, changes of the cluster, faults and any interval: the  *)
(* types, that usage is never impossible, that ReplicaSets are found, that *)
(* Deployments are told apart and no usage is counted twice for them, that *)
(* known identities are kept, and that the pods used are not older than    *)
(* the interval.                                                           *)
(***************************************************************************)
EXTENDS WorkloadCollection, Sums_Proofs

(* The types that the arguments below rest on. *)
Shape ==
  /\ running \subseteq Container /\ ended \subseteq Container /\ listed \subseteq Container
  /\ usage \in [Container -> Nat]
  /\ sets \in [ReplicaSet -> {"new", "there", "gone"}]
  /\ pc \in {"down", "asleep", "awake"} \cup Command
  /\ elapsed \in Nat /\ age \in 0..Interval /\ staleness \in 0..Interval
  /\ DOMAIN reading = Command

(* The commands of a refresh after the first. *)
Later3 == {"sets", "deployments", "events"}

(* A container runs once, and the API server lists none before it runs. *)
RunsOnce == running \cap ended = {} /\ listed \subseteq running \cup ended

SetNotNew(namespace, owner) ==
  owner.kind = "ReplicaSet" =>
    /\ <<namespace, owner.name>> \in ReplicaSet
    /\ sets[<<namespace, owner.name>>] # "new"

(* The replica set of a pod that has run, or was listed, exists or is gone. *)
SetsPrecedePods ==
  /\ \A c \in running \cup listed : SetNotNew(NamespaceOf[PodOf[c]], OwnerOf[PodOf[c]])
  /\ pc \in Later3 => \A r \in reading["pods"].output : SetNotNew(r.namespace, r.owner)

(* The containers of a listing. *)
Containers(rows) == {r.container : r \in rows}

(* A container that was listed once is listed for as long as it runs, and is *)
(* not listed again afterwards; so every known one that is listed now was    *)
(* listed when this refresh began.                                           *)
ListedThroughout ==
  /\ DOMAIN cache.identities \subseteq running \cup ended
  /\ DOMAIN cache.identities \cap running \subseteq listed
  /\ pc \in Later3 =>
       /\ reading["pods"].succeeded
       /\ Containers(reading["pods"].output) \subseteq running \cup ended
       /\ Containers(reading["pods"].output) \cap running \subseteq listed
       /\ DOMAIN cache.identities \cap listed \subseteq Containers(reading["pods"].output)

(* The cache is as old as the refresh that filled it, or younger. *)
AgeIsTrue ==
  /\ answered => staleness <= age
  /\ pc \in Later3 => staleness <= AgeAfterRefresh

(* No running container has used more since the last sample than time passed. *)
UsageInTime ==
  /\ DOMAIN previous \subseteq running \cup ended
  /\ \A c \in DOMAIN previous \cap running :
       /\ previous[c].usage \in Nat
       /\ previous[c].usage <= usage[c] /\ usage[c] <= previous[c].usage + elapsed

-------------------------------------------------------------------------------
(* The four commands. *)
LEMMA CommandNames ==
  /\ Command = {"pods", "sets", "deployments", "events"}
  /\ Commands[1] = "pods"
  /\ After("pods") = "sets" /\ After("sets") = "deployments" /\ After("deployments") = "events"
<1>1. Commands[1] = "pods" /\ Commands[2] = "sets" /\ Commands[3] = "deployments" /\ Commands[4] = "events"
  BY DEF Commands
<1>2. 1..4 = {1, 2, 3, 4} /\ 1..3 = {1, 2, 3}
  OBVIOUS
<1>3. Command = {"pods", "sets", "deployments", "events"}
  BY <1>1, <1>2 DEF Command
<1>4. ASSUME NEW i \in 1..3 PROVE After(Commands[i]) = Commands[1 + i]
  <2>1. \A j \in 1..3 : Commands[j] = Commands[i] => j = i
    BY <1>1, <1>2, <1>4
  <2>2. (CHOOSE j \in 1..3 : Commands[j] = Commands[i]) = i
    BY <1>4, <2>1
  <2> QED
    BY <2>2 DEF After
<1>5. After(Commands[1]) = Commands[1 + 1] /\ After(Commands[2]) = Commands[1 + 2]
      /\ After(Commands[3]) = Commands[1 + 3]
  BY <1>2, <1>4
<1> QED
  BY <1>1, <1>3, <1>5

(* The ways a command can end. *)
LEMMA RunCases ==
  ASSUME Shape, NEW cmd \in Command, NEW succeeded \in BOOLEAN, Run(cmd, succeeded)
  PROVE  LET results == [reading EXCEPT ![cmd] = [succeeded |-> succeeded, output |-> Rows(cmd)]]
         IN  \/ /\ cmd = "pods" /\ ~succeeded
                /\ answered' = FALSE /\ EndRefresh /\ UNCHANGED <<known, cache>>
             \/ cmd = "events" /\ Adopt(results)
             \/ /\ cmd \in {"pods", "sets", "deployments"} /\ (cmd = "pods" => succeeded)
                /\ reading' = results /\ pc' = After(cmd)
                /\ UNCHANGED <<attempted, age, known, cache, answered>>
<1> DEFINE results == [reading EXCEPT ![cmd] = [succeeded |-> succeeded, output |-> Rows(cmd)]]
<1>1. cmd = "pods" => (Abandons(results) <=> ~succeeded)
  BY CommandNames DEF Abandons, Shape
<1>2. \/ /\ cmd = "pods" /\ Abandons(results)
         /\ answered' = FALSE /\ EndRefresh /\ UNCHANGED <<known, cache>>
      \/ cmd = "events" /\ Adopt(results)
      \/ /\ cmd # "events" /\ ~(cmd = "pods" /\ Abandons(results))
         /\ reading' = results /\ pc' = After(cmd)
         /\ UNCHANGED <<attempted, age, known, cache, answered>>
  BY DEF Run
<1> QED
  BY <1>1, <1>2, CommandNames

(* A cluster that changes leaves the agent alone. *)
LEMMA ClusterIsApart == Cluster => UNCHANGED agentVars
BY DEF Cluster, Starts, Reported, Ends, Forgotten, SetChanges, DeploymentChanges, EventHappens

LEMMA Numbers == Interval \in Nat \ {0}
BY WorkloadAssumption

LEMMA LaterInInterval ==
  ASSUME NEW time \in 0..Interval PROVE Later(time) \in 0..Interval
BY Numbers DEF Later

LEMMA InitHasShape == Init => Shape
BY WorkloadAssumption, Numbers, CommandNames DEF Init, Shape, Unread

LEMMA StaysShape == Shape /\ [Next]_vars => Shape'
<1> SUFFICES ASSUME Shape, [Next]_vars PROVE Shape'
  OBVIOUS
<1> USE DEF Shape
<1>1. CASE Cluster
  <2>1. UNCHANGED agentVars
    BY <1>1, ClusterIsApart
  <2>2. UNCHANGED <<pc, elapsed, age, staleness, reading>>
    BY <2>1 DEF agentVars, viewVars
  <2>3. ASSUME NEW c \in Container, Starts(c) \/ Reported(c) \/ Ends(c) \/ Forgotten(c) PROVE Shape'
    BY <2>2, <2>3 DEF Starts, Reported, Ends, Forgotten, End
  <2>4. ASSUME NEW q \in ReplicaSet, SetChanges(q) PROVE Shape'
    BY <2>2, <2>4 DEF SetChanges
  <2>5. ASSUME NEW d \in Deployment, DeploymentChanges(d) PROVE Shape'
    BY <2>2, <2>5 DEF DeploymentChanges
  <2>6. CASE EventHappens
    BY <2>2, <2>6 DEF EventHappens
  <2> QED
    BY <1>1, <2>3, <2>4, <2>5, <2>6 DEF Cluster
<1>2. CASE Tick
  <2>1. usage' \in [Container -> Nat]
    BY <1>2 DEF Tick
  <2>2. age' \in 0..Interval /\ staleness' \in 0..Interval
    BY <1>2, LaterInInterval DEF Tick
  <2> QED
    BY <1>2, <2>1, <2>2 DEF Tick
<1>3. CASE Start
  BY <1>3 DEF Start, clusterVars, viewVars
<1>4. CASE Crash
  BY <1>4, Numbers, CommandNames DEF Crash, clusterVars, Unread
<1>5. CASE Sample
  <2>1. PICK missed \in SUBSET running, torn \in SUBSET running : End(torn)
    BY <1>5 DEF Sample
  <2>2. running' \subseteq Container /\ ended' \subseteq Container /\ usage' \in [Container -> Nat]
    BY <2>1 DEF End
  <2>3. pc' \in {"asleep"} \cup Command
    BY <1>5, CommandNames DEF Sample
  <2> QED
    BY <1>5, <2>2, <2>3 DEF Sample, viewVars
<1>6. ASSUME NEW cmd \in Command, NEW succeeded \in BOOLEAN, Run(cmd, succeeded) PROVE Shape'
  <2>1. UNCHANGED <<running, ended, listed, usage, sets, elapsed>> /\ staleness' \in 0..Interval
    BY <1>6, Numbers DEF Run, clusterVars
  <2>2. AgeAfterRefresh \in 0..Interval
    BY Numbers DEF AgeAfterRefresh
  <2>3. EndRefresh => pc' = "asleep" /\ age' \in 0..Interval /\ DOMAIN reading' = Command
    BY <2>2 DEF EndRefresh, Unread
  <2>4. CASE EndRefresh
    BY <2>1, <2>3, <2>4
  <2>5. CASE /\ cmd \in {"pods", "sets", "deployments"} /\ pc' = After(cmd) /\ UNCHANGED age
             /\ reading' = [reading EXCEPT ![cmd] = [succeeded |-> succeeded, output |-> Rows(cmd)]]
    BY <2>1, <2>5, CommandNames
  <2> QED
    BY <1>6, <2>4, <2>5, RunCases DEF Adopt
<1>7. CASE UNCHANGED vars
  BY <1>7 DEF vars, clusterVars, agentVars, viewVars
<1> QED
  BY <1>1, <1>2, <1>3, <1>4, <1>5, <1>6, <1>7 DEF Next, Agent

LEMMA ShapeKept == Spec => []Shape
BY InitHasShape, StaysShape, PTL DEF Spec

-------------------------------------------------------------------------------
(* Containers run once. *)

(* How each step changes what runs and what is listed. *)
LEMMA ContainerSteps ==
  ASSUME Shape, [Next]_vars
  PROVE  \/ UNCHANGED <<running, ended, listed>>
         \/ \E c \in Container : Starts(c) \/ Reported(c) \/ Ends(c) \/ Forgotten(c)
         \/ Sample /\ UNCHANGED listed /\ \E torn \in SUBSET running : End(torn)
<1>1. CASE Cluster
  BY <1>1 DEF Cluster, SetChanges, DeploymentChanges, EventHappens
<1>2. CASE Sample
  BY <1>2 DEF Sample
<1>3. CASE Tick \/ Start \/ Crash
  BY <1>3 DEF Tick, Start, Crash, clusterVars
<1>4. ASSUME NEW cmd \in Command, NEW succeeded \in BOOLEAN, Run(cmd, succeeded)
      PROVE  UNCHANGED <<running, ended, listed>>
  BY <1>4 DEF Run, clusterVars
<1>5. CASE UNCHANGED vars
  BY <1>5 DEF vars, clusterVars
<1> QED
  BY <1>1, <1>2, <1>3, <1>4, <1>5 DEF Next, Agent

(* A container that has run stays known as one, and one that is no longer *)
(* listed, or no longer runs, does not come back.                         *)
LEMMA NoComeback ==
  ASSUME Shape, RunsOnce, [Next]_vars
  PROVE  /\ RunsOnce'
         /\ running \cup ended \subseteq running' \cup ended'
         /\ \A c \in running \cup ended : c \in running' => c \in running
         /\ \A c \in running' : c \in listed => c \in listed'
         /\ \A c \in running \cup ended :
              (c \in running => c \in listed) /\ c \in listed' => c \in listed
<1> USE DEF RunsOnce
<1>1. CASE UNCHANGED <<running, ended, listed>>
  BY <1>1
<1>2. ASSUME NEW c \in Container, Starts(c) \/ Reported(c) \/ Ends(c) \/ Forgotten(c)
      PROVE  /\ RunsOnce'
             /\ running \cup ended \subseteq running' \cup ended'
             /\ \A d \in running \cup ended : d \in running' => d \in running
             /\ \A d \in running' : d \in listed => d \in listed'
             /\ \A d \in running \cup ended :
                  (d \in running => d \in listed) /\ d \in listed' => d \in listed
  <2>1. CASE Starts(c)
    BY <2>1 DEF Starts
  <2>2. CASE Reported(c)
    BY <2>2 DEF Reported
  <2>3. CASE Ends(c)
    BY <2>3 DEF Ends, End
  <2>4. CASE Forgotten(c)
    BY <2>4 DEF Forgotten
  <2> QED
    BY <1>2, <2>1, <2>2, <2>3, <2>4
<1>3. CASE Sample /\ UNCHANGED listed /\ \E torn \in SUBSET running : End(torn)
  BY <1>3 DEF End
<1> QED
  BY <1>1, <1>2, <1>3, ContainerSteps

LEMMA RunsOnceKept == Spec => []RunsOnce
<1>1. Init => RunsOnce
  BY DEF Init, RunsOnce
<1>2. Shape /\ RunsOnce /\ [Next]_vars => RunsOnce'
  BY NoComeback
<1> QED
  BY <1>1, <1>2, ShapeKept, PTL DEF Spec

-------------------------------------------------------------------------------
(* Replica sets precede their pods, and a refresh lists them after the pods. *)

(* The replica set of a pod is one of the model's. *)
LEMMA SetOfPod ==
  ASSUME NEW p \in Pod, OwnerOf[p].kind = "ReplicaSet"
  PROVE  <<NamespaceOf[p], OwnerOf[p].name>> \in ReplicaSet
BY WorkloadAssumption

LEMMA PodOfContainer == \A c \in Container : PodOf[c] \in Pod
BY WorkloadAssumption

(* A set is new only before it is there, and never again. *)
LEMMA SetsMoveOn ==
  ASSUME Shape, [Next]_vars, NEW s \in ReplicaSet
  PROVE  /\ sets[s] # "new" => sets'[s] # "new"
         /\ sets'[s] = "there" => sets[s] = "there" \/ sets[s] = "new"
         /\ sets[s] # "new" /\ sets'[s] = "there" => sets[s] = "there"
<1>1. CASE UNCHANGED sets
  BY <1>1
<1>2. ASSUME NEW q \in ReplicaSet, SetChanges(q)
      PROVE  /\ sets[s] # "new" => sets'[s] # "new"
             /\ sets'[s] = "there" => sets[s] = "there" \/ sets[s] = "new"
             /\ sets[s] # "new" /\ sets'[s] = "there" => sets[s] = "there"
  BY <1>2 DEF SetChanges, Shape
<1>3. UNCHANGED sets \/ \E q \in ReplicaSet : SetChanges(q)
  BY DEF Next, Cluster, Starts, Reported, Ends, Forgotten, DeploymentChanges, EventHappens, Tick,
         Agent, Start, Sample, Run, Crash, clusterVars, vars
<1> QED
  BY <1>1, <1>2, <1>3

LEMMA SetNotNewKept ==
  ASSUME Shape, [Next]_vars, NEW n, NEW owner, SetNotNew(n, owner)
  PROVE  SetNotNew(n, owner)'
BY SetsMoveOn DEF SetNotNew

(* What a refresh knows of the pods changes with the first command only. *)
LEMMA ReadingOfPods ==
  ASSUME Shape, [Next]_vars, pc' \in Later3
  PROVE  \/ pc \in Later3 /\ reading'["pods"] = reading["pods"]
         \/ /\ Run("pods", TRUE)
            /\ reading'["pods"] = [succeeded |-> TRUE, output |-> PodRows]
<1> USE CommandNames DEF Later3
<1>1. CASE Cluster \/ UNCHANGED vars
  BY <1>1, ClusterIsApart DEF agentVars, viewVars, vars
<1>2. CASE Tick
  BY <1>2 DEF Tick
<1>3. CASE Start \/ Crash
  BY <1>3 DEF Start, Crash
<1>4. CASE Sample
  BY <1>4 DEF Sample
<1>5. ASSUME NEW cmd \in Command, NEW succeeded \in BOOLEAN, Run(cmd, succeeded)
      PROVE  \/ pc \in Later3 /\ reading'["pods"] = reading["pods"]
             \/ /\ Run("pods", TRUE)
                /\ reading'["pods"] = [succeeded |-> TRUE, output |-> PodRows]
  <2>1. pc = cmd
    BY <1>5 DEF Run
  <2>2. ~EndRefresh
    BY DEF EndRefresh
  <2>3. /\ cmd \in {"pods", "sets", "deployments"} /\ (cmd = "pods" => succeeded)
        /\ reading' = [reading EXCEPT ![cmd] = [succeeded |-> succeeded, output |-> Rows(cmd)]]
    BY <1>5, <2>2, RunCases DEF Adopt
  <2>4. CASE cmd = "pods"
    <3>1. succeeded = TRUE /\ Rows(cmd) = PodRows
      BY <2>3, <2>4 DEF Rows
    <3> QED
      BY <1>5, <2>3, <2>4, <3>1 DEF Shape
  <2>5. CASE cmd # "pods"
    BY <2>1, <2>3, <2>5 DEF Shape
  <2> QED
    BY <2>4, <2>5
<1> QED
  BY <1>1, <1>2, <1>3, <1>4, <1>5 DEF Next, Agent

LEMMA StaysSetsPrecedePods ==
  Shape /\ RunsOnce /\ SetsPrecedePods /\ [Next]_vars => SetsPrecedePods'
<1> SUFFICES ASSUME Shape, RunsOnce, SetsPrecedePods, [Next]_vars PROVE SetsPrecedePods'
  OBVIOUS
<1> DEFINE Old(c) == SetNotNew(NamespaceOf[PodOf[c]], OwnerOf[PodOf[c]])
<1>1. \A c \in running' \cup listed' : c \in running \cup listed \/ Old(c)
  <2>1. ASSUME NEW c \in Container, Starts(c) PROVE Old(c)
    <3>1. SetIsThere(PodOf[c]) /\ PodOf[c] \in Pod
      BY <2>1, PodOfContainer DEF Starts
    <3> QED
      BY <3>1, SetOfPod DEF SetIsThere, SetNotNew
  <2>2. ASSUME NEW c \in Container, Starts(c)
        PROVE  \A d \in running' \cup listed' : d \in running \cup listed \cup {c}
    BY <2>2 DEF Starts
  <2>3. ASSUME NEW c \in Container, Reported(c) \/ Ends(c) \/ Forgotten(c)
        PROVE  \A d \in running' \cup listed' : d \in running \cup listed
    BY <2>3 DEF Reported, Ends, Forgotten, End
  <2> QED
    BY <2>1, <2>2, <2>3, ContainerSteps DEF End
<1>2. \A c \in running \cup listed : Old(c)
  BY DEF SetsPrecedePods
<1>3. \A c \in running' \cup listed' : Old(c)'
  BY <1>1, <1>2, SetNotNewKept
<1>4. ASSUME pc' \in Later3
      PROVE  \A r \in reading'["pods"].output : SetNotNew(r.namespace, r.owner)'
  <2>1. CASE pc \in Later3 /\ reading'["pods"] = reading["pods"]
    BY <2>1, SetNotNewKept DEF SetsPrecedePods
  <2>2. CASE reading'["pods"] = [succeeded |-> TRUE, output |-> PodRows]
    <3>1. ASSUME NEW r \in PodRows PROVE SetNotNew(r.namespace, r.owner)
      BY <1>2, <3>1 DEF PodRows
    <3> QED
      BY <2>2, <3>1, SetNotNewKept
  <2> QED
    BY <1>4, <2>1, <2>2, ReadingOfPods
<1> QED
  BY <1>3, <1>4 DEF SetsPrecedePods

LEMMA SetsPrecedePodsKept == Spec => []SetsPrecedePods
<1>1. Init => SetsPrecedePods
  <2> SUFFICES ASSUME Init PROVE SetsPrecedePods
    OBVIOUS
  <2>1. ASSUME NEW c \in running PROVE SetNotNew(NamespaceOf[PodOf[c]], OwnerOf[PodOf[c]])
    <3>1. c \in Container /\ SetIsThere(PodOf[c])
      BY WorkloadAssumption DEF Init
    <3> QED
      BY <3>1, PodOfContainer, SetOfPod DEF SetIsThere, SetNotNew
  <2>2. listed = running /\ pc \notin Later3
    BY DEF Init, Later3
  <2> QED
    BY <2>1, <2>2 DEF SetsPrecedePods
<1> QED
  BY <1>1, StaysSetsPrecedePods, ShapeKept, RunsOnceKept, PTL DEF Spec

(* The listing of the replica sets changes with the second command only. *)
LEMMA ReadingOfSets ==
  ASSUME Shape, [Next]_vars, pc' \in {"deployments", "events"}, reading'["sets"].succeeded
  PROVE  \/ pc \in {"deployments", "events"} /\ reading'["sets"] = reading["sets"]
         \/ pc = "sets" /\ reading'["sets"].output = Rows("sets") /\ UNCHANGED sets
<1> USE CommandNames
<1>1. CASE Cluster \/ UNCHANGED vars
  BY <1>1, ClusterIsApart DEF agentVars, viewVars, vars
<1>2. CASE Tick \/ Start \/ Crash \/ Sample
  BY <1>2 DEF Tick, Start, Crash, Sample, viewVars
<1>3. ASSUME NEW cmd \in Command, NEW succeeded \in BOOLEAN, Run(cmd, succeeded)
      PROVE  \/ pc \in {"deployments", "events"} /\ reading'["sets"] = reading["sets"]
             \/ pc = "sets" /\ reading'["sets"].output = Rows("sets") /\ UNCHANGED sets
  <2>1. pc = cmd /\ UNCHANGED sets
    BY <1>3 DEF Run, clusterVars
  <2>2. ~EndRefresh
    BY DEF EndRefresh
  <2>3. /\ cmd \in {"pods", "sets", "deployments"} /\ pc' = After(cmd)
        /\ reading' = [reading EXCEPT ![cmd] = [succeeded |-> succeeded, output |-> Rows(cmd)]]
    BY <1>3, <2>2, RunCases DEF Adopt
  <2>4. cmd \in {"sets", "deployments"}
    BY <2>3
  <2>5. CASE cmd = "sets"
    BY <2>1, <2>3, <2>5 DEF Shape
  <2>6. CASE cmd = "deployments"
    BY <2>1, <2>3, <2>6 DEF Shape
  <2> QED
    BY <2>4, <2>5, <2>6
<1> QED
  BY <1>1, <1>2, <1>3 DEF Next, Agent

(* Every replica set that is there is in its listing. *)
LEMMA RowsOfSets ==
  ASSUME NEW n, NEW name, <<n, name>> \in ReplicaSet, sets[<<n, name>>] = "there"
  PROVE  \E s \in Rows("sets") : s.namespace = n /\ s.name = name
<1> DEFINE key == <<n, name>>
           row == [namespace |-> key[1], name |-> key[2], owner |-> SetOwner[key]]
<1>1. Rows("sets") = {[namespace |-> s[1], name |-> s[2], owner |-> SetOwner[s]] :
                        s \in {r \in ReplicaSet : sets[r] = "there"}}
  BY DEF Rows
<1>2. row \in Rows("sets")
  BY <1>1
<1> QED
  BY <1>2

(* A pod of a refresh is given the owner of its replica set if that still    *)
(* exists: kubernetes_metadata_collector.cpp lists the sets after the pods.  *)
THEOREM OwnersAlwaysResolve == Spec => []OwnersResolve
<1>1. Init => OwnersResolve
  BY DEF Init, OwnersResolve
<1>2. Shape /\ SetsPrecedePods /\ OwnersResolve /\ [Next]_vars => OwnersResolve'
  <2> SUFFICES ASSUME Shape, SetsPrecedePods, OwnersResolve, [Next]_vars,
                      pc' \in {"deployments", "events"}, reading'["sets"].succeeded,
                      NEW r \in reading'["pods"].output, r.owner.kind = "ReplicaSet",
                      sets'[<<r.namespace, r.owner.name>>] = "there"
               PROVE  \E s \in reading'["sets"].output : s.namespace = r.namespace /\ s.name = r.owner.name
    BY DEF OwnersResolve
  <2>1. pc \in Later3 /\ reading'["pods"] = reading["pods"]
    <3>1. pc' \in Later3
      BY DEF Later3
    <3>2. ~Run("pods", TRUE)
      <4>1. "pods" \in Command /\ TRUE \in BOOLEAN
        BY CommandNames
      <4>2. Run("pods", TRUE) => pc' = "sets" \/ EndRefresh
        BY <4>1, RunCases, CommandNames DEF Adopt
      <4> QED
        BY <4>2 DEF EndRefresh
    <3> QED
      BY <3>1, <3>2, ReadingOfPods
  <2>2. SetNotNew(r.namespace, r.owner)
    BY <2>1 DEF SetsPrecedePods
  <2>3. <<r.namespace, r.owner.name>> \in ReplicaSet /\ sets[<<r.namespace, r.owner.name>>] = "there"
    BY <2>2, SetsMoveOn DEF SetNotNew
  <2>4. CASE pc \in {"deployments", "events"} /\ reading'["sets"] = reading["sets"]
    BY <2>1, <2>3, <2>4 DEF OwnersResolve
  <2>5. CASE pc = "sets" /\ reading'["sets"].output = Rows("sets")
    BY <2>3, <2>5, RowsOfSets
  <2> QED
    BY <2>4, <2>5, ReadingOfSets
<1> QED
  BY <1>1, <1>2, ShapeKept, SetsPrecedePodsKept, PTL DEF Spec
-------------------------------------------------------------------------------
(* The age of the metadata. *)

LEMMA LaterGrows ==
  ASSUME NEW a \in 0..Interval, NEW b \in Nat, a <= b
  PROVE  Later(a) <= Later(b) /\ Later(a) <= b + 1
BY Numbers DEF Later

LEMMA StaysAgeIsTrue == Shape /\ AgeIsTrue /\ [Next]_vars => AgeIsTrue'
<1> SUFFICES ASSUME Shape, AgeIsTrue, [Next]_vars PROVE AgeIsTrue'
  OBVIOUS
<1> USE DEF AgeIsTrue
<1>0. /\ elapsed \in Nat /\ age \in 0..Interval /\ staleness \in 0..Interval
      /\ AgeAfterRefresh \in 0..Interval
  BY Numbers DEF Shape, AgeAfterRefresh
<1>1. CASE Cluster \/ UNCHANGED vars
  <2>1. UNCHANGED <<pc, elapsed, age, staleness, answered>>
    BY <1>1, ClusterIsApart DEF agentVars, viewVars, vars
  <2> QED
    BY <2>1 DEF AgeAfterRefresh, Later3
<1>2. CASE Tick
  <2>1. answered' => staleness' <= age'
    BY <1>0, <1>2, LaterGrows DEF Tick
  <2>2. ASSUME pc' \in Later3 PROVE staleness' <= AgeAfterRefresh'
    <3>1. pc \in Later3 /\ elapsed' = elapsed + 1 /\ staleness' = Later(staleness)
      BY <1>2, <2>2 DEF Tick, Later3
    <3>2. staleness <= elapsed
      BY <1>0, <3>1, Numbers DEF AgeAfterRefresh
    <3>3. staleness' <= elapsed + 1 /\ staleness' \in 0..Interval
      BY <1>0, <3>1, <3>2, LaterGrows, LaterInInterval
    <3> QED
      BY <1>0, <3>1, <3>3, Numbers DEF AgeAfterRefresh
  <2> QED
    BY <2>1, <2>2
<1>3. CASE Start \/ Crash
  BY <1>3 DEF Start, Crash, viewVars, Later3
<1>4. CASE Sample
  BY <1>4, CommandNames DEF Sample, viewVars, Later3
<1>5. ASSUME NEW cmd \in Command, NEW succeeded \in BOOLEAN, Run(cmd, succeeded) PROVE AgeIsTrue'
  <2>1. pc = cmd /\ UNCHANGED elapsed /\ staleness' = IF cmd = "pods" /\ succeeded THEN 0 ELSE staleness
    BY <1>5 DEF Run
  <2>2. AgeAfterRefresh' = AgeAfterRefresh
    BY <2>1 DEF AgeAfterRefresh
  <2>3. CASE cmd = "pods" /\ ~succeeded /\ answered' = FALSE /\ EndRefresh
    BY <2>3 DEF EndRefresh, Later3
  <2>4. CASE cmd = "events" /\ EndRefresh
    BY <1>0, <2>1, <2>4 DEF EndRefresh, Later3
  <2>5. CASE /\ cmd \in {"pods", "sets", "deployments"} /\ pc' = After(cmd)
             /\ cmd = "pods" => succeeded
             /\ UNCHANGED <<age, answered>>
    BY <1>0, <2>1, <2>2, <2>5 DEF Later3
  <2> QED
    BY <1>5, <2>3, <2>4, <2>5, RunCases DEF Adopt
<1> QED
  BY <1>1, <1>2, <1>3, <1>4, <1>5 DEF Next, Agent

(* A cycle that does not refresh uses pods listed less than                 *)
(* kKubernetesMetadataRefreshInterval before, if the last refresh worked,   *)
(* however long its commands took.                                          *)
THEOREM MetadataStaysFresh == Spec => FreshEnough
<1>1. Init => AgeIsTrue
  BY DEF Init, AgeIsTrue, Later3
<1>2. Shape /\ AgeIsTrue /\ [Next]_vars =>
        [pc = "awake" /\ pc' = "asleep" /\ answered => staleness < Interval]_vars
  <2> SUFFICES ASSUME Shape, AgeIsTrue, [Next]_vars, pc = "awake", pc' = "asleep", answered
               PROVE  staleness < Interval
    OBVIOUS
  <2>1. Sample
    BY ClusterIsApart, CommandNames
       DEF Next, Agent, Tick, Start, Crash, Run, agentVars, vars
  <2>2. ~Due
    BY <2>1, CommandNames DEF Sample
  <2> QED
    BY <2>2, Numbers DEF Due, AgeIsTrue, Shape
<1> QED
  BY <1>1, <1>2, StaysAgeIsTrue, ShapeKept, PTL DEF Spec, FreshEnough
-------------------------------------------------------------------------------
(* Known identities. *)

(* X is a set of containers each of which is listed for as long as it runs. *)
Throughout(X) == X \subseteq running \cup ended /\ X \cap running \subseteq listed

LEMMA StaysThroughout ==
  ASSUME Shape, RunsOnce, [Next]_vars, NEW X, Throughout(X)
  PROVE  Throughout(X)' /\ X \cap listed' \subseteq listed
BY NoComeback DEF Throughout

LEMMA ContainersOfPodRows == Containers(PodRows) = listed
<1> DEFINE row(c) == [container |-> c, pod |-> PodOf[c], namespace |-> NamespaceOf[PodOf[c]],
                      owner |-> OwnerOf[PodOf[c]]]
<1>1. PodRows = {row(c) : c \in listed}
  BY DEF PodRows
<1>2. \A c : row(c).container = c
  OBVIOUS
<1> HIDE DEF row
<1> QED
  BY <1>1, <1>2 DEF Containers

LEMMA KnownOfMetadata ==
  ASSUME NEW results PROVE DOMAIN Metadata(results).identities = Containers(Output(results, "pods"))
BY DEF Metadata, Identities, Containers

(* When the cache changes. *)
LEMMA CacheSteps ==
  ASSUME Shape, [Next]_vars
  PROVE  \/ UNCHANGED cache
         \/ cache' = NoMetadata /\ pc' = "down"
         \/ /\ pc = "events" /\ pc' = "asleep" /\ UNCHANGED clusterVars
            /\ DOMAIN cache'.identities = Containers(Output(reading, "pods"))
<1> USE CommandNames
<1>1. CASE Cluster \/ UNCHANGED vars
  BY <1>1, ClusterIsApart DEF agentVars, viewVars, vars
<1>2. CASE Tick \/ Start \/ Crash \/ Sample
  BY <1>2 DEF Tick, Start, Crash, Sample, viewVars
<1>3. ASSUME NEW cmd \in Command, NEW succeeded \in BOOLEAN, Run(cmd, succeeded), cache' # cache
      PROVE  /\ pc = "events" /\ pc' = "asleep" /\ UNCHANGED clusterVars
             /\ DOMAIN cache'.identities = Containers(Output(reading, "pods"))
  <2> DEFINE results == [reading EXCEPT ![cmd] = [succeeded |-> succeeded, output |-> Rows(cmd)]]
  <2>1. cmd = "events" /\ pc = cmd /\ UNCHANGED clusterVars /\ Adopt(results)
    BY <1>3, RunCases DEF Run
  <2>2. results["pods"] = reading["pods"]
    BY <2>1 DEF Shape
  <2>3. Output(results, "pods") = Output(reading, "pods")
    BY <2>2 DEF Output
  <2>4. cache' = Metadata(results) /\ pc' = "asleep"
    BY <2>1 DEF Adopt, EndRefresh
  <2> QED
    BY <2>1, <2>3, <2>4, KnownOfMetadata
<1> QED
  BY <1>1, <1>2, <1>3 DEF Next, Agent

(* No command but the last one changes the cache. *)
LEMMA CacheDuringRefresh ==
  ASSUME Shape, [Next]_vars, pc' \in Later3 PROVE UNCHANGED cache
BY CacheSteps DEF Later3

LEMMA StaysListedThroughout ==
  Shape /\ RunsOnce /\ ListedThroughout /\ [Next]_vars => ListedThroughout'
<1> SUFFICES ASSUME Shape, RunsOnce, ListedThroughout, [Next]_vars PROVE ListedThroughout'
  OBVIOUS
<1> DEFINE K == DOMAIN cache.identities
           L == Containers(reading["pods"].output)
<1>1. Throughout(K) /\ (pc \in Later3 => Throughout(L))
  BY DEF ListedThroughout, Throughout
<1>2. Throughout(K)' => /\ DOMAIN cache'.identities \subseteq running' \cup ended'
                        /\ DOMAIN cache'.identities \cap running' \subseteq listed'
  BY DEF Throughout
<1>3. Throughout(K)'
  <2>1. CASE UNCHANGED cache
    <3>1. PICK X : X = K
      OBVIOUS
    <3>2. Throughout(X)'
      BY <1>1, <3>1, StaysThroughout
    <3> QED
      BY <2>1, <3>1, <3>2 DEF Throughout
  <2>2. CASE cache' = NoMetadata
    BY <2>2 DEF NoMetadata, Empty, Throughout
  <2>3. CASE /\ pc = "events" /\ UNCHANGED clusterVars
             /\ DOMAIN cache'.identities = Containers(Output(reading, "pods"))
    <3>1. Containers(Output(reading, "pods")) = L
      BY <2>3 DEF ListedThroughout, Later3, Output
    <3> QED
      BY <1>1, <2>3, <3>1 DEF Throughout, clusterVars, Later3
  <2> QED
    BY <2>1, <2>2, <2>3, CacheSteps
<1>4. ASSUME pc' \in Later3
      PROVE  /\ reading'["pods"].succeeded
             /\ Throughout(L)'
             /\ DOMAIN cache'.identities \cap listed' \subseteq Containers(reading'["pods"].output)
  <2>0. UNCHANGED cache
    BY <1>4, CacheDuringRefresh
  <2>1. CASE pc \in Later3 /\ reading'["pods"] = reading["pods"]
    <3>1. PICK X : X = L
      OBVIOUS
    <3>2. Throughout(X)'
      BY <1>1, <2>1, <3>1, StaysThroughout
    <3>3. K \cap listed' \subseteq listed
      BY <1>1, StaysThroughout
    <3>4. K \cap listed \subseteq L
      BY <2>1 DEF ListedThroughout
    <3> QED
      BY <2>0, <2>1, <3>1, <3>2, <3>3, <3>4 DEF ListedThroughout, Throughout
  <2>2. CASE Run("pods", TRUE) /\ reading'["pods"] = [succeeded |-> TRUE, output |-> PodRows]
    <3>1. UNCHANGED <<running, ended, listed>>
      BY <2>2 DEF Run, clusterVars
    <3>2. L' = listed
      BY <2>2, ContainersOfPodRows
    <3> QED
      BY <2>0, <2>2, <3>1, <3>2 DEF RunsOnce, Throughout
  <2> QED
    BY <1>4, <2>1, <2>2, ReadingOfPods
<1> QED
  BY <1>2, <1>3, <1>4 DEF ListedThroughout, Throughout

(* Whichever commands fail, a container that stays listed keeps the identity *)
(* that the agent knows, for as long as the agent runs: a failed refresh     *)
(* leaves the cache as it was, and a complete one knows every pod listed.    *)
THEOREM IdentitiesStay == Spec => IdentityKept
<1>1. Init => ListedThroughout
  BY DEF Init, ListedThroughout, NoMetadata, Empty, Later3
<1>2. Shape /\ ListedThroughout /\ [Next]_vars =>
        [pc' # "down" => DOMAIN cache.identities \cap listed \subseteq DOMAIN cache'.identities]_vars
  <2> SUFFICES ASSUME Shape, ListedThroughout, [Next]_vars, pc' # "down"
               PROVE  DOMAIN cache.identities \cap listed \subseteq DOMAIN cache'.identities
    OBVIOUS
  <2>1. CASE UNCHANGED cache
    BY <2>1
  <2>2. CASE /\ pc = "events"
             /\ DOMAIN cache'.identities = Containers(Output(reading, "pods"))
    <3>1. pc \in Later3
      BY <2>2 DEF Later3
    <3>2. Output(reading, "pods") = reading["pods"].output
      BY <3>1 DEF ListedThroughout, Output
    <3> QED
      BY <2>2, <3>1, <3>2 DEF ListedThroughout
  <2> QED
    BY <2>1, <2>2, CacheSteps
<1> QED
  BY <1>1, <1>2, StaysListedThroughout, ShapeKept, RunsOnceKept, PTL DEF Spec, IdentityKept
-------------------------------------------------------------------------------
(* CPU usage. *)

LEMMA StaysUsageInTime == Shape /\ RunsOnce /\ UsageInTime /\ [Next]_vars => UsageInTime'
<1> SUFFICES ASSUME Shape, RunsOnce, UsageInTime, [Next]_vars PROVE UsageInTime'
  OBVIOUS
<1>1. CASE UNCHANGED <<running, ended, usage, elapsed, previous>>
  BY <1>1 DEF UsageInTime
<1>2. ASSUME NEW c \in Container, Starts(c) \/ Reported(c) \/ Ends(c) \/ Forgotten(c)
      PROVE  UsageInTime'
  <2>1. UNCHANGED <<elapsed, previous>>
    BY <1>2 DEF Starts, Reported, Ends, Forgotten, agentVars
  <2>2. CASE Starts(c)
    BY <2>1, <2>2 DEF Starts, UsageInTime
  <2>3. CASE Reported(c) \/ Forgotten(c)
    BY <2>1, <2>3 DEF Reported, Forgotten, UsageInTime
  <2>4. CASE Ends(c)
    BY <2>1, <2>4 DEF Ends, End, UsageInTime, Shape
  <2> QED
    BY <1>2, <2>2, <2>3, <2>4
<1>3. CASE Tick
  <2>1. UNCHANGED <<running, ended, previous>> /\ elapsed' = elapsed + 1
    BY <1>3 DEF Tick
  <2>2. \A c \in running : usage'[c] \in {usage[c], usage[c] + 1}
    BY <1>3 DEF Tick, Shape
  <2>3. \A c \in running : usage[c] \in Nat
    BY DEF Shape
  <2>4. elapsed \in Nat
    BY DEF Shape
  <2> QED
    BY <2>1, <2>2, <2>3, <2>4 DEF UsageInTime
<1>4. CASE Start
  <2>1. previous' = ReadSample({}, {}) /\ UNCHANGED <<running, ended, usage>> /\ elapsed' = 0
    BY <1>4 DEF Start, clusterVars
  <2>2. /\ DOMAIN previous' = running
        /\ \A c \in running : previous'[c].usage = usage[c]
    BY <2>1 DEF ReadSample, ReadCgroup
  <2>3. elapsed \in Nat /\ \A c \in running : usage[c] \in Nat
    BY DEF Shape
  <2> QED
    BY <2>1, <2>2, <2>3 DEF UsageInTime
<1>5. CASE Crash
  <2>1. DOMAIN previous' = {}
    BY <1>5 DEF Crash, Empty
  <2> QED
    BY <2>1 DEF UsageInTime
<1>6. CASE Sample
  <2>1. PICK missed \in SUBSET running, torn \in SUBSET running :
          previous' = ReadSample(missed, torn) /\ End(torn)
    BY <1>6 DEF Sample, NextPrevious
  <2>2. /\ DOMAIN previous' = running \ missed
        /\ \A c \in running \ missed :
             previous'[c].usage = IF c \in torn THEN 0 ELSE usage[c]
    BY <2>1 DEF ReadSample, ReadCgroup
  <2>3. elapsed' = 0 /\ running' = running \ torn /\ ended' = ended \cup torn
    BY <1>6, <2>1 DEF Sample, End
  <2>4. \A c \in running' : usage'[c] = usage[c]
    BY <2>1, <2>3 DEF End, Shape
  <2>5. \A c \in running : usage[c] \in Nat
    BY DEF Shape
  <2> QED
    BY <2>2, <2>3, <2>4, <2>5 DEF UsageInTime
<1>7. \/ UNCHANGED <<running, ended, usage, elapsed, previous>>
      \/ \E c \in Container : Starts(c) \/ Reported(c) \/ Ends(c) \/ Forgotten(c)
      \/ Tick \/ Start \/ Crash \/ Sample
  BY DEF Next, Cluster, SetChanges, DeploymentChanges, EventHappens, Agent, Run, vars,
         clusterVars, agentVars
<1> QED
  BY <1>1, <1>2, <1>3, <1>4, <1>5, <1>6, <1>7

(* The usage of one container between two samples. *)
LEMMA UsageOfOne ==
  ASSUME Shape, UsageInTime, NEW missed \in SUBSET running, NEW torn \in SUBSET running,
         NEW c \in running \ missed
  PROVE  ContainerMetrics(previous, ReadSample(missed, torn), elapsed)[c].usage <= elapsed
<1> DEFINE now == ReadSample(missed, torn)[c].usage
           available == c \in DOMAIN previous /\ elapsed > 0 /\ now >= previous[c].usage
<1>1. ContainerMetrics(previous, ReadSample(missed, torn), elapsed)[c].usage
        = IF available THEN Delta(previous[c].usage, now) ELSE 0
  <2> DEFINE sample == ReadSample(missed, torn)
  <2>1. c \in DOMAIN sample
    BY DEF ReadSample
  <2> HIDE DEF sample
  <2>2. ContainerMetrics(previous, sample, elapsed)[c].usage
          = LET got == c \in DOMAIN previous /\ elapsed > 0 /\ sample[c].usage >= previous[c].usage
            IN  IF got THEN Delta(previous[c].usage, sample[c].usage) ELSE 0
    BY <2>1 DEF ContainerMetrics
  <2> QED
    BY <2>2 DEF sample
<1>2. now = (IF c \in torn THEN 0 ELSE usage[c]) /\ usage[c] \in Nat /\ elapsed \in Nat
  BY DEF ReadSample, ReadCgroup, Shape
<1>3. CASE available
  <2>1. previous[c].usage \in Nat /\ usage[c] <= previous[c].usage + elapsed
    BY <1>3 DEF UsageInTime
  <2>2. now - previous[c].usage <= elapsed
    BY <1>2, <1>3, <2>1
  <2> QED
    BY <1>1, <1>2, <1>3, <2>1, <2>2 DEF Delta
<1>4. CASE ~available
  BY <1>1, <1>2, <1>4
<1> QED
  BY <1>3, <1>4

(* No container is reported to have used more CPU time than has gone by:    *)
(* the first sample of a container, one that the sample before has missed   *)
(* and one that ends while it is read report nothing.                       *)
THEOREM UsageStaysPossible == Spec => UsageIsPossible
<1>1. Init => UsageInTime
  BY DEF Init, UsageInTime, Empty
<1>2. Shape /\ UsageInTime /\ [Next]_vars =>
        [pc = "awake" /\ pc' \notin {"awake", "down"} =>
           \A c \in DOMAIN metrics' : metrics'[c].usage <= elapsed]_vars
  <2> SUFFICES ASSUME Shape, UsageInTime, [Next]_vars,
                      pc = "awake", pc' \notin {"awake", "down"},
                      NEW c \in DOMAIN metrics'
               PROVE  metrics'[c].usage <= elapsed
    OBVIOUS
  <2>1. Sample
    BY ClusterIsApart, CommandNames
       DEF Next, Agent, Tick, Start, Crash, Run, agentVars, vars
  <2>2. PICK missed \in SUBSET running, torn \in SUBSET running :
          metrics' = ContainerMetrics(previous, ReadSample(missed, torn), elapsed)
    BY <2>1 DEF Sample
  <2>3. DOMAIN metrics' = running \ missed
    BY <2>2 DEF ContainerMetrics, ReadSample
  <2> QED
    BY <2>2, <2>3, UsageOfOne
<1> QED
  BY <1>1, <1>2, StaysUsageInTime, ShapeKept, RunsOnceKept, PTL DEF Spec, UsageIsPossible
-------------------------------------------------------------------------------
(* What the commands have printed, and what the cache has made of it. *)

PodRow(c) == [container |-> c, pod |-> PodOf[c], namespace |-> NamespaceOf[PodOf[c]],
              owner |-> OwnerOf[PodOf[c]]]
SetRow(s) == [namespace |-> s[1], name |-> s[2], owner |-> SetOwner[s]]

(* A row says of a Deployment a generation that one of its name has reached. *)
Reached(r) ==
  /\ <<r.namespace, r.name>> \in Deployment
  /\ r.generation \in 1..reached[<<r.namespace, r.name>>]

ResultsTrue(results) ==
  /\ results["pods"].output \subseteq {PodRow(c) : c \in Container}
  /\ results["sets"].output \subseteq {SetRow(s) : s \in ReplicaSet}
  /\ \A r \in results["deployments"].output : Reached(r)
  /\ results["events"].output \subseteq 1..MaxChanges

(* The workload of a pod is its owner, or the owner of its replica set. *)
IdentityTrue(c, i) ==
  LET p == PodOf[c]
      s == <<NamespaceOf[p], OwnerOf[p].name>>
  IN  /\ i.pod = p /\ i.namespace = NamespaceOf[p]
      /\ \/ i.workload = OwnerOf[p]
         \/ OwnerOf[p].kind = "ReplicaSet" /\ s \in ReplicaSet /\ i.workload = SetOwner[s]

MetadataTrue(m) ==
  /\ DOMAIN m.identities \subseteq Container
  /\ \A c \in DOMAIN m.identities : IdentityTrue(c, m.identities[c])
  /\ \A k \in DOMAIN m.deployments : k \in Deployment /\ m.deployments[k] \in 1..reached[k]
  /\ m.events \subseteq 1..MaxChanges /\ Cardinality(m.events) <= KeptEvents

GenerationsOK ==
  /\ generation \in [Deployment -> 0..MaxGeneration]
  /\ reached \in [Deployment -> 0..MaxGeneration]
  /\ \A d \in Deployment : generation[d] <= reached[d]
  /\ happened \in 0..changes /\ changes \in 0..MaxChanges

ViewTrue == GenerationsOK /\ ResultsTrue(reading) /\ MetadataTrue(cache)

(* The sample that is kept, the figures made of it, and the time since. *)
FiguresOK ==
  /\ usage \in [Container -> 0..MaxUsage]
  /\ DOMAIN previous \subseteq Container /\ \A c \in DOMAIN previous : previous[c].usage \in 0..MaxUsage
  /\ DOMAIN metrics \subseteq Container /\ \A c \in DOMAIN metrics : metrics[c].usage \in 0..MaxUsage
  /\ elapsed \in 0..MaxElapsed + 1 /\ (pc # "awake" => elapsed <= MaxElapsed)
  /\ faults \in 0..MaxFaults
  /\ attempted \in BOOLEAN /\ known \in BOOLEAN /\ answered \in BOOLEAN

(* No more events are kept than should be: of those that are, the earliest  *)
(* has all the others after it.                                             *)
LEMMA EventsBounded ==
  ASSUME NEW n \in Nat, NEW rows \in SUBSET (1..n), NEW kept \in Nat \ {0}
  PROVE  LastEvents(rows, kept) \subseteq rows /\ Cardinality(LastEvents(rows, kept)) <= kept
<1> DEFINE S == LastEvents(rows, kept)
<1>1. S \subseteq rows /\ \A e \in S : Cardinality({d \in rows : d > e}) < kept
  BY DEF LastEvents
<1>2. rows \subseteq Nat /\ IsFiniteSet(rows)
  <2>1. IsFiniteSet(1..n) /\ 1..n \subseteq Nat
    BY FS_Interval
  <2> QED
    BY <2>1, FS_Subset
<1> HIDE DEF S
<1>3. IsFiniteSet(S)
  BY <1>1, <1>2, FS_Subset
<1>4. CASE S = {}
  BY <1>1, <1>4, FS_EmptySet DEF S
<1>5. CASE S # {}
  <2>1. PICK m \in S : \A e \in S : <<e, m>> \notin OpToRel(<, Nat)
    BY <1>1, <1>2, <1>5, NatLessThanWellFounded, WFMin
  <2>2. \A e \in S : ~(e < m)
    BY <1>1, <1>2, <2>1 DEF OpToRel
  <2> DEFINE T == {d \in rows : d > m}
  <2>3. S \ {m} \subseteq T
    BY <1>1, <1>2, <2>2
  <2>4. IsFiniteSet(T) /\ Cardinality(T) < kept
    BY <1>1, <1>2, <2>1, FS_Subset
  <2> HIDE DEF T
  <2>5. Cardinality(S \ {m}) <= Cardinality(T)
    BY <2>3, <2>4, FS_Subset
  <2>6. Cardinality(S \ {m}) = Cardinality(S) - 1
    BY <1>3, <2>1, FS_RemoveElement
  <2>7. Cardinality(S) \in Nat /\ Cardinality(T) \in Nat
    BY <1>3, <2>4, FS_CardinalityType
  <2>8. Cardinality(S) <= kept
    BY <2>4, <2>5, <2>6, <2>7
  <2> QED
    BY <1>1, <2>8 DEF S
<1> QED
  BY <1>4, <1>5

(* What is made of true results is true. *)
LEMMA TrueMetadata ==
  ASSUME GenerationsOK, NEW results, ResultsTrue(results) PROVE MetadataTrue(Metadata(results))
<1> DEFINE pods == Output(results, "pods")
           owners == OwnersBySet(Output(results, "sets"))
           rows == Output(results, "deployments")
           events == Output(results, "events")
           m == Metadata(results)
<1>1. /\ pods \subseteq {PodRow(c) : c \in Container}
      /\ Output(results, "sets") \subseteq {SetRow(s) : s \in ReplicaSet}
      /\ \A r \in rows : Reached(r)
      /\ events \subseteq 1..MaxChanges
  BY DEF ResultsTrue, Output
<1>2. \A k \in DOMAIN owners : k \in ReplicaSet /\ owners[k] = SetOwner[k]
  <2> DEFINE listing == Output(results, "sets")
  <2> SUFFICES ASSUME NEW k \in DOMAIN owners PROVE k \in ReplicaSet /\ owners[k] = SetOwner[k]
    OBVIOUS
  <2>1. /\ \E r \in listing : NamespacedKey(r.namespace, r.name) = k
        /\ owners[k] = (CHOOSE r \in listing : NamespacedKey(r.namespace, r.name) = k).owner
    BY DEF OwnersBySet
  <2>2. PICK r \in listing : NamespacedKey(r.namespace, r.name) = k /\ owners[k] = r.owner
    BY <2>1
  <2>3. PICK q \in ReplicaSet : r = SetRow(q)
    BY <1>1, <2>2
  <2>4. k = <<q[1], q[2]>> /\ owners[k] = SetOwner[q]
    BY <2>2, <2>3 DEF SetRow, NamespacedKey
  <2>5. k = q
    BY <2>4, WorkloadAssumption
  <2> QED
    BY <2>4, <2>5
<1>3. ASSUME NEW c \in {r.container : r \in pods}
      PROVE  c \in Container /\ IdentityTrue(c, Identities(pods, owners)[c])
  <2> DEFINE r == CHOOSE q \in pods : q.container = c
  <2>1. r \in pods /\ r.container = c
    BY <1>3
  <2>2. c \in Container /\ r = PodRow(c)
    BY <1>1, <2>1 DEF PodRow
  <2>3. Identities(pods, owners)[c] =
          [pod |-> r.pod, namespace |-> r.namespace,
           workload |-> ResolveWorkload(r.namespace, r.owner, owners)]
    BY <1>3 DEF Identities
  <2> HIDE DEF r, owners, pods
  <2>4. r.pod = PodOf[c] /\ r.namespace = NamespaceOf[PodOf[c]] /\ r.owner = OwnerOf[PodOf[c]]
    BY <2>2 DEF PodRow
  <2> DEFINE w == ResolveWorkload(r.namespace, r.owner, owners)
             k == <<r.namespace, r.owner.name>>
  <2>5. \/ w = r.owner
        \/ r.owner.kind = "ReplicaSet" /\ k \in DOMAIN owners /\ w = owners[k]
    BY DEF ResolveWorkload, NamespacedKey
  <2> HIDE DEF w
  <2> QED
    BY <1>2, <2>2, <2>3, <2>4, <2>5 DEF IdentityTrue, w
<1>4. DOMAIN m.identities \subseteq Container /\ \A c \in DOMAIN m.identities : IdentityTrue(c, m.identities[c])
  <2>1. m.identities = Identities(pods, owners) /\ DOMAIN Identities(pods, owners) = {r.container : r \in pods}
    BY DEF Metadata, Identities
  <2> QED
    BY <1>3, <2>1
<1>5. \A k \in DOMAIN m.deployments : k \in Deployment /\ m.deployments[k] \in 1..reached[k]
  <2> SUFFICES ASSUME NEW k \in DOMAIN m.deployments
               PROVE  k \in Deployment /\ m.deployments[k] \in 1..reached[k]
    OBVIOUS
  <2>1. /\ \E r \in rows : NamespacedKey(r.namespace, r.name) = k
        /\ m.deployments[k] = (CHOOSE r \in rows : NamespacedKey(r.namespace, r.name) = k).generation
    BY DEF Metadata, DeploymentsByKey
  <2>2. PICK r \in rows : NamespacedKey(r.namespace, r.name) = k /\ m.deployments[k] = r.generation
    BY <2>1
  <2> QED
    BY <1>1, <2>2 DEF Reached, NamespacedKey
<1>6. m.events \subseteq 1..MaxChanges /\ Cardinality(m.events) <= KeptEvents
  <2>1. m.events = LastEvents(events, KeptEvents)
    BY DEF Metadata
  <2>2. MaxChanges \in Nat /\ KeptEvents \in Nat \ {0}
    BY WorkloadAssumption
  <2> QED
    BY <1>1, <2>1, <2>2, EventsBounded
<1> QED
  BY <1>4, <1>5, <1>6 DEF MetadataTrue

(* A command prints what is true. *)
LEMMA TrueRows ==
  ASSUME Shape, GenerationsOK, ResultsTrue(reading), NEW cmd \in Command, NEW succeeded
  PROVE  ResultsTrue([reading EXCEPT ![cmd] = [succeeded |-> succeeded, output |-> Rows(cmd)]])
<1>1. Rows("pods") \subseteq {PodRow(c) : c \in Container}
  BY DEF Rows, PodRows, PodRow, Shape
<1>2. Rows("sets") \subseteq {SetRow(s) : s \in ReplicaSet}
  BY DEF Rows, SetRow
<1>3. \A r \in Rows("deployments") : Reached(r)
  <2> SUFFICES ASSUME NEW d \in Deployed,
                      NEW r, r = [namespace |-> d[1], name |-> d[2], generation |-> generation[d]]
               PROVE  Reached(r)
    BY DEF Rows
  <2>1. /\ d \in Deployment /\ d = <<d[1], d[2]>>
        /\ reached[d] \in Nat /\ generation[d] \in 1..reached[d]
    BY WorkloadAssumption DEF GenerationsOK, Deployed
  <2>2. r.namespace = d[1] /\ r.name = d[2] /\ r.generation = generation[d]
    OBVIOUS
  <2>3. <<r.namespace, r.name>> = d
    BY <2>1, <2>2
  <2> QED
    BY <2>1, <2>2, <2>3 DEF Reached
<1>4. Rows("events") \subseteq 1..MaxChanges
  BY WorkloadAssumption DEF Rows, GenerationsOK
<1> QED
  BY <1>1, <1>2, <1>3, <1>4, CommandNames DEF ResultsTrue, Shape

LEMMA InitView == Init => ViewTrue
<1> SUFFICES ASSUME Init PROVE ViewTrue
  OBVIOUS
<1>1. GenerationsOK
  <2>1. happened = 0 /\ changes = 0 /\ reached = generation
    BY DEF Init
  <2>2. generation \in [Deployment -> 0..MaxGeneration]
    BY DEF Init
  <2> QED
    BY <2>1, <2>2, WorkloadAssumption DEF GenerationsOK
<1>2. ResultsTrue(reading)
  BY CommandNames DEF Init, Unread, ResultsTrue
<1>3. MetadataTrue(cache)
  <2>1. /\ DOMAIN cache.identities = {} /\ DOMAIN cache.deployments = {} /\ cache.events = {}
    BY DEF Init, NoMetadata, Empty
  <2> QED
    BY <2>1, FS_EmptySet, WorkloadAssumption DEF MetadataTrue
<1> QED
  BY <1>1, <1>2, <1>3 DEF ViewTrue

(* What is true stays true while more generations are reached. *)
LEMMA StaysViewTrue == Shape /\ ViewTrue /\ [Next]_vars => ViewTrue'
<1> SUFFICES ASSUME Shape, ViewTrue, [Next]_vars PROVE ViewTrue'
  OBVIOUS
<1>1. ASSUME UNCHANGED <<cache, reading>>, GenerationsOK',
             \A d \in Deployment : reached[d] <= reached'[d]
      PROVE  ViewTrue'
  <2>1. \A d \in Deployment : reached[d] \in Nat /\ reached'[d] \in Nat
    BY <1>1 DEF ViewTrue, GenerationsOK
  <2>2. \A d \in Deployment : 1..reached[d] \subseteq 1..reached'[d]
    BY <1>1, <2>1
  <2>3. ResultsTrue(reading)'
    BY <1>1, <2>2 DEF ViewTrue, ResultsTrue, Reached
  <2>4. MetadataTrue(cache)'
    BY <1>1, <2>2 DEF ViewTrue, MetadataTrue
  <2> QED
    BY <1>1, <2>3, <2>4 DEF ViewTrue
<1>2. ASSUME GenerationsOK, UNCHANGED <<generation, reached, happened>>,
             changes' \in {changes, changes + 1}, changes' <= MaxChanges
      PROVE  GenerationsOK' /\ \A d \in Deployment : reached[d] <= reached'[d]
  BY <1>2, WorkloadAssumption DEF GenerationsOK
<1>3. GenerationsOK /\ changes <= MaxChanges
  BY DEF ViewTrue, GenerationsOK
<1>4. CASE Cluster
  <2>1. UNCHANGED <<cache, reading>>
    BY <1>4, ClusterIsApart DEF agentVars, viewVars
  <2>2. changes < MaxChanges /\ changes' = changes + 1
    BY <1>4 DEF Cluster, Starts, Reported, Ends, Forgotten, SetChanges, DeploymentChanges,
                EventHappens, Change
  <2>3. ASSUME NEW d \in Deployment, DeploymentChanges(d)
        PROVE  GenerationsOK' /\ \A e \in Deployment : reached[e] <= reached'[e]
    <3>1. PICK g \in 0..MaxGeneration :
            /\ generation' = [generation EXCEPT ![d] = g]
            /\ reached' = [reached EXCEPT ![d] = IF @ < g THEN g ELSE @]
      BY <2>3 DEF DeploymentChanges
    <3>2. UNCHANGED happened
      BY <2>3 DEF DeploymentChanges
    <3>3. MaxGeneration \in Nat /\ g \in Nat /\ reached[d] \in 0..MaxGeneration
      BY <1>3, WorkloadAssumption DEF GenerationsOK
    <3>4. /\ generation' \in [Deployment -> 0..MaxGeneration]
          /\ reached' \in [Deployment -> 0..MaxGeneration]
      BY <1>3, <3>1, <3>3 DEF GenerationsOK
    <3>5. \A e \in Deployment : generation'[e] <= reached'[e] /\ reached[e] <= reached'[e]
      BY <1>3, <3>1, <3>3 DEF GenerationsOK
    <3> QED
      BY <1>3, <2>2, <3>2, <3>4, <3>5, WorkloadAssumption DEF GenerationsOK
  <2>4. ASSUME EventHappens
        PROVE  GenerationsOK' /\ \A e \in Deployment : reached[e] <= reached'[e]
    BY <1>3, <2>2, <2>4, WorkloadAssumption DEF GenerationsOK, EventHappens
  <2>5. ASSUME UNCHANGED <<generation, reached, happened>>
        PROVE  GenerationsOK' /\ \A e \in Deployment : reached[e] <= reached'[e]
    BY <1>2, <1>3, <2>2, <2>5, WorkloadAssumption DEF GenerationsOK
  <2>6. \/ UNCHANGED <<generation, reached, happened>> \/ EventHappens
        \/ \E d \in Deployment : DeploymentChanges(d)
    BY <1>4 DEF Cluster, Starts, Reported, Ends, Forgotten, SetChanges
  <2> QED
    BY <1>1, <2>1, <2>3, <2>4, <2>5, <2>6
<1>5. CASE Tick \/ Start \/ Sample \/ UNCHANGED vars
  <2>1. UNCHANGED <<generation, reached, happened, changes, cache, reading>>
    BY <1>5 DEF Tick, Start, Sample, vars, clusterVars, boundVars, agentVars, viewVars
  <2> QED
    BY <1>1, <1>2, <1>3, <2>1
<1>6. ASSUME UNCHANGED <<generation, reached, happened, changes>>,
             ResultsTrue(reading'), MetadataTrue(cache')
      PROVE  ViewTrue'
  BY <1>3, <1>6 DEF ViewTrue, GenerationsOK, ResultsTrue, Reached, MetadataTrue, IdentityTrue
<1>7. ResultsTrue(Unread) /\ MetadataTrue(NoMetadata)
  <2>1. /\ DOMAIN NoMetadata.identities = {} /\ DOMAIN NoMetadata.deployments = {}
        /\ NoMetadata.events = {}
    BY DEF NoMetadata, Empty
  <2> QED
    BY <2>1, FS_EmptySet, CommandNames, WorkloadAssumption DEF MetadataTrue, ResultsTrue, Unread
<1>8. CASE Crash
  BY <1>6, <1>7, <1>8 DEF Crash, clusterVars
<1>9. ASSUME NEW cmd \in Command, NEW succeeded \in BOOLEAN, Run(cmd, succeeded) PROVE ViewTrue'
  <2> DEFINE results == [reading EXCEPT ![cmd] = [succeeded |-> succeeded, output |-> Rows(cmd)]]
  <2>1. UNCHANGED <<generation, reached, happened, changes>>
    BY <1>9 DEF Run, clusterVars
  <2>2. ResultsTrue(results) /\ MetadataTrue(Metadata(results))
    BY <1>3, TrueRows, TrueMetadata DEF ViewTrue
  <2>3. \/ EndRefresh /\ UNCHANGED cache
        \/ EndRefresh /\ cache' = Metadata(results)
        \/ reading' = results /\ UNCHANGED cache
    BY <1>9, RunCases DEF Adopt
  <2> QED
    BY <1>6, <1>7, <2>1, <2>2, <2>3 DEF EndRefresh, ViewTrue
<1> QED
  BY <1>4, <1>5, <1>8, <1>9 DEF Next, Agent

LEMMA ViewStaysTrue == Spec => []ViewTrue
BY InitView, StaysViewTrue, ShapeKept, PTL DEF Spec

-------------------------------------------------------------------------------
(* Types. *)

(* The usage of a container in a sample is within the bound, and so is the  *)
(* difference to the sample before.                                         *)
LEMMA FiguresOfSample ==
  ASSUME Shape, FiguresOK, NEW missed \in SUBSET running, NEW torn \in SUBSET running
  PROVE  LET sample  == ReadSample(missed, torn)
             figures == ContainerMetrics(previous, sample, elapsed)
         IN  /\ DOMAIN sample \subseteq Container /\ \A c \in DOMAIN sample : sample[c].usage \in 0..MaxUsage
             /\ DOMAIN figures \subseteq Container /\ \A c \in DOMAIN figures : figures[c].usage \in 0..MaxUsage
<1> DEFINE sample == ReadSample(missed, torn)
           figures == ContainerMetrics(previous, sample, elapsed)
<1>1. DOMAIN sample \subseteq Container /\ \A c \in DOMAIN sample : sample[c].usage \in 0..MaxUsage
  BY WorkloadAssumption DEF ReadSample, ReadCgroup, Shape, FiguresOK
<1> HIDE DEF sample
<1>2. DOMAIN figures = DOMAIN sample
  BY DEF ContainerMetrics
<1>3. ASSUME NEW c \in DOMAIN sample PROVE figures[c].usage \in 0..MaxUsage
  <2> DEFINE now == sample[c].usage
             before == previous[c].usage
  <2>1. \/ figures[c].usage = 0
        \/ c \in DOMAIN previous /\ figures[c].usage = Delta(before, now)
    BY <1>3 DEF ContainerMetrics
  <2>2. now \in 0..MaxUsage /\ MaxUsage \in Nat
    BY <1>1, <1>3, WorkloadAssumption
  <2>3. CASE c \in DOMAIN previous /\ figures[c].usage = Delta(before, now)
    <3>1. before \in 0..MaxUsage
      BY <2>3 DEF FiguresOK
    <3> HIDE DEF now, before
    <3>2. Delta(before, now) \in 0..MaxUsage
      BY <2>2, <3>1 DEF Delta
    <3> QED
      BY <2>3, <3>2
  <2>4. CASE figures[c].usage = 0
    BY <2>2, <2>4
  <2> QED
    BY <2>1, <2>3, <2>4
<1> QED
  BY <1>1, <1>2, <1>3 DEF sample

LEMMA StaysFigures == Shape /\ FiguresOK /\ [Next]_vars => FiguresOK'
<1> SUFFICES ASSUME Shape, FiguresOK, [Next]_vars PROVE FiguresOK'
  OBVIOUS
<1>0. MaxUsage \in Nat /\ MaxFaults \in Nat /\ MaxElapsed \in Nat
  BY WorkloadAssumption
<1>1. CASE Cluster
  <2>1. UNCHANGED <<pc, elapsed, previous, metrics, attempted, known, answered>>
    BY <1>1, ClusterIsApart DEF agentVars, viewVars
  <2>2. UNCHANGED faults
    BY <1>1 DEF Cluster, Starts, Reported, Ends, Forgotten, SetChanges, DeploymentChanges,
                EventHappens, Change
  <2>3. usage' \in [Container -> 0..MaxUsage]
    BY <1>0, <1>1 DEF Cluster, Starts, Reported, Ends, Forgotten, SetChanges, DeploymentChanges,
                EventHappens, End, FiguresOK
  <2> QED
    BY <2>1, <2>2, <2>3 DEF FiguresOK
<1>2. CASE Tick
  <2>1. usage' \in [Container -> 0..MaxUsage]
    BY <1>0, <1>2 DEF Tick, FiguresOK
  <2>2. elapsed' \in 0..MaxElapsed + 1 /\ (pc' # "awake" => elapsed' <= MaxElapsed)
    BY <1>0, <1>2 DEF Tick, FiguresOK
  <2> QED
    BY <1>2, <2>1, <2>2 DEF Tick, FiguresOK, boundVars
<1>3. CASE Start
  <2>1. ReadSample({}, {}) = previous' /\ metrics' = Empty
    BY <1>3 DEF Start
  <2>2. DOMAIN previous' \subseteq Container /\ \A c \in DOMAIN previous' : previous'[c].usage \in 0..MaxUsage
    BY <2>1, FiguresOfSample
  <2>3. DOMAIN metrics' = {}
    BY <2>1 DEF Empty
  <2> QED
    BY <1>0, <1>3, <2>2, <2>3 DEF Start, clusterVars, boundVars, viewVars, FiguresOK
<1>4. CASE Crash
  <2>1. DOMAIN previous' = {} /\ DOMAIN metrics' = {}
    BY <1>4 DEF Crash, Empty
  <2>2. attempted' \in BOOLEAN /\ known' \in BOOLEAN /\ answered' \in BOOLEAN
    BY <1>4 DEF Crash
  <2>3. faults' \in 0..MaxFaults /\ elapsed' = 0 /\ usage' = usage
    BY <1>0, <1>4 DEF Crash, clusterVars, FiguresOK
  <2> QED
    BY <1>0, <2>1, <2>2, <2>3 DEF FiguresOK
<1>5. CASE Sample
  <2>1. PICK missed \in SUBSET running, torn \in SUBSET running :
          /\ faults' = faults + Cardinality(missed \cup torn) /\ faults' <= MaxFaults
          /\ metrics' = ContainerMetrics(previous, ReadSample(missed, torn), elapsed)
          /\ previous' = ReadSample(missed, torn)
          /\ End(torn)
    BY <1>5 DEF Sample, NextPrevious
  <2>2. faults' \in 0..MaxFaults
    <3>1. IsFiniteSet(missed \cup torn)
      BY <2>1, WorkloadAssumption, FS_Subset DEF Shape
    <3>2. Cardinality(missed \cup torn) \in Nat
      BY <3>1, FS_CardinalityType
    <3> QED
      BY <1>0, <2>1, <3>2 DEF FiguresOK
  <2>3. usage' \in [Container -> 0..MaxUsage]
    BY <1>0, <2>1 DEF End, FiguresOK
  <2>4. /\ DOMAIN previous' \subseteq Container /\ \A c \in DOMAIN previous' : previous'[c].usage \in 0..MaxUsage
        /\ DOMAIN metrics' \subseteq Container /\ \A c \in DOMAIN metrics' : metrics'[c].usage \in 0..MaxUsage
    BY <2>1, FiguresOfSample
  <2> QED
    BY <1>0, <1>5, <2>2, <2>3, <2>4 DEF Sample, viewVars, FiguresOK
<1>6. ASSUME NEW cmd \in Command, NEW succeeded \in BOOLEAN, Run(cmd, succeeded) PROVE FiguresOK'
  <2>1. /\ UNCHANGED <<usage, elapsed, previous, metrics>> /\ pc = cmd
        /\ faults' \in {faults, faults + 1} /\ faults' <= MaxFaults
    BY <1>6 DEF Run, clusterVars
  <2>2. elapsed <= MaxElapsed
    BY <2>1, CommandNames DEF FiguresOK
  <2>3. attempted' \in BOOLEAN /\ known' \in BOOLEAN /\ answered' \in BOOLEAN
    BY <1>6, RunCases DEF EndRefresh, Adopt, FiguresOK
  <2> QED
    BY <1>0, <2>1, <2>2, <2>3 DEF FiguresOK
<1>7. CASE UNCHANGED vars
  BY <1>7 DEF vars, clusterVars, boundVars, agentVars, viewVars, FiguresOK
<1> QED
  BY <1>1, <1>2, <1>3, <1>4, <1>5, <1>6, <1>7 DEF Next, Agent

LEMMA FiguresStayOK == Spec => []FiguresOK
<1>1. Init => FiguresOK
  <2> SUFFICES ASSUME Init PROVE FiguresOK
    OBVIOUS
  <2>1. usage \in [Container -> 0..MaxUsage] /\ faults = 0 /\ elapsed = 0
    BY WorkloadAssumption DEF Init
  <2>2. DOMAIN previous = {} /\ DOMAIN metrics = {}
    BY DEF Init, Empty
  <2>3. attempted \in BOOLEAN /\ known \in BOOLEAN /\ answered \in BOOLEAN
    BY DEF Init
  <2>4. MaxUsage \in Nat /\ MaxFaults \in Nat /\ MaxElapsed \in Nat
    BY WorkloadAssumption
  <2> QED
    BY <2>1, <2>2, <2>3, <2>4 DEF FiguresOK
<1> QED
  BY <1>1, StaysFigures, ShapeKept, PTL DEF Spec

(* Every variable keeps its type; in particular the metadata names no        *)
(* workload that the cluster does not have, and never more events than 50    *)
(* (LastEvents, parse_events()).                                             *)
THEOREM TypeCorrect == Spec => []TypeOK
<1>1. Shape /\ ViewTrue /\ FiguresOK => TypeOK
  <2> SUFFICES ASSUME Shape, ViewTrue, FiguresOK PROVE TypeOK
    OBVIOUS
  <2>1. MetadataOK(cache)
    <3>1. MetadataTrue(cache) /\ GenerationsOK
      BY DEF ViewTrue
    <3>2. ASSUME NEW c \in DOMAIN cache.identities
          PROVE  cache.identities[c].pod = PodOf[c] /\ cache.identities[c].workload \in Workloads
      <4>1. PodOf[c] \in Pod /\ IdentityTrue(c, cache.identities[c])
        BY <3>1, <3>2, WorkloadAssumption DEF MetadataTrue
      <4> QED
        BY <4>1 DEF IdentityTrue, Workloads
    <3>3. \A k \in DOMAIN cache.deployments : cache.deployments[k] \in 1..MaxGeneration
      <4>1. \A k \in Deployment : reached[k] \in 0..MaxGeneration
        BY <3>1 DEF GenerationsOK
      <4>2. MaxGeneration \in Nat
        BY WorkloadAssumption
      <4> QED
        BY <3>1, <4>1, <4>2 DEF MetadataTrue
    <3> QED
      BY <3>1, <3>2, <3>3 DEF MetadataTrue, MetadataOK
  <2>2. happened \in 0..MaxChanges /\ changes \in 0..MaxChanges
    BY WorkloadAssumption DEF ViewTrue, GenerationsOK
  <2>3. {generation, reached} \subseteq [Deployment -> 0..MaxGeneration]
    BY DEF ViewTrue, GenerationsOK
  <2> QED
    BY <2>1, <2>2, <2>3 DEF TypeOK, Shape, FiguresOK
<1> QED
  BY <1>1, ShapeKept, ViewStaysTrue, FiguresStayOK, PTL

-------------------------------------------------------------------------------
(* The rows of the Deployments. *)

Usages       == [c \in DOMAIN metrics |-> metrics[c].usage]
Known        == Attached(cache.identities, metrics)
MembersOf(p) == {c \in Known : cache.identities[c].pod = p}
OwnedPods    == {p \in DOMAIN Pods : InDeployment(Pods[p])}
KeyOf(p)     == <<Pods[p].namespace, Pods[p].workload.name>>
PodsOf(k)    == {p \in OwnedPods : KeyOf(p) = k}

LEMMA UsagesAreNat ==
  ASSUME FiguresOK
  PROVE  IsFiniteSet(DOMAIN metrics) /\ DOMAIN Usages = DOMAIN metrics /\ \A c \in DOMAIN metrics : Usages[c] \in Nat
<1>1. IsFiniteSet(DOMAIN metrics)
  BY WorkloadAssumption, FS_Subset DEF FiguresOK
<1>2. \A c \in DOMAIN metrics : Usages[c] \in Nat
  BY WorkloadAssumption DEF FiguresOK, Usages
<1> QED
  BY <1>1, <1>2 DEF Usages

(* A pod has its own namespace and a workload that is its own, and the sum  *)
(* of the usage of its containers.                                          *)
LEMMA PodIsTrue ==
  ASSUME ViewTrue, FiguresOK, NEW p \in DOMAIN Pods
  PROVE  /\ p \in Pod /\ Pods[p].namespace = NamespaceOf[p]
         /\ InDeployment(Pods[p]) =>
              /\ <<NamespaceOf[p], OwnerOf[p].name>> \in ReplicaSet
              /\ Pods[p].workload = SetOwner[<<NamespaceOf[p], OwnerOf[p].name>>]
              /\ KeyOf(p) \in Deployment
         /\ Pods[p].usage = Total(Usages, MembersOf(p))
<1> DEFINE i == cache.identities[CHOOSE c \in MembersOf(p) : TRUE]
           s == <<NamespaceOf[p], OwnerOf[p].name>>
<1>1. Pods[p] = PodMetric(i, metrics, MembersOf(p)) /\ \E c \in Known : cache.identities[c].pod = p
  BY DEF Pods, PodMetrics, MembersOf, Known
<1>2. PICK c \in MembersOf(p) : i = cache.identities[c]
  BY <1>1 DEF MembersOf
<1>3. c \in Container /\ IdentityTrue(c, i) /\ i.pod = p
  BY <1>2 DEF MembersOf, Known, Attached, ViewTrue, MetadataTrue
<1> HIDE DEF i
<1>4. p = PodOf[c] /\ p \in Pod
  BY <1>3, WorkloadAssumption DEF IdentityTrue
<1>5. Pods[p].namespace = i.namespace /\ Pods[p].workload = i.workload
  BY <1>1 DEF PodMetric
<1>6. ASSUME InDeployment(Pods[p]) PROVE s \in ReplicaSet /\ i.workload = SetOwner[s] /\ KeyOf(p) \in Deployment
  <2>1. i.workload.kind = "Deployment"
    BY <1>5, <1>6 DEF InDeployment
  <2>2. s \in ReplicaSet /\ i.workload = SetOwner[s]
    BY <1>3, <1>4, <2>1, WorkloadAssumption DEF IdentityTrue
  <2>3. KeyOf(p) = <<NamespaceOf[p], SetOwner[s].name>>
    BY <1>3, <1>4, <1>5, <2>2 DEF KeyOf, IdentityTrue
  <2>4. s[1] = NamespaceOf[p]
    OBVIOUS
  <2> QED
    BY <2>1, <2>2, <2>3, <2>4, WorkloadAssumption
<1>7. Pods[p].usage = Total(Usages, MembersOf(p))
  <2> DEFINE M == MembersOf(p)
             f == [e \in M |-> metrics[e].usage]
  <2>1. Pods[p].usage = Total(f, M)
    BY <1>1 DEF PodMetric
  <2>2. M \subseteq DOMAIN metrics
    BY DEF MembersOf, Known, Attached
  <2>3. IsFiniteSet(M) /\ \A e \in M : Usages[e] \in Int
    BY <2>2, UsagesAreNat, FS_Subset
  <2>4. \A e \in M : Usages[e] = f[e]
    BY <2>2 DEF Usages
  <2> HIDE DEF M, f
  <2>5. Total(Usages, M) = Total(f, M)
    BY <2>3, <2>4, TotalAgrees
  <2> QED
    BY <2>1, <2>5 DEF M
<1> QED
  BY <1>3, <1>4, <1>5, <1>6, <1>7 DEF IdentityTrue

LEMMA RowFields ==
  /\ DOMAIN Deployments = DOMAIN cache.deployments \cup {KeyOf(p) : p \in OwnedPods}
  /\ \A k \in DOMAIN Deployments :
       /\ Deployments[k].generation = IF k \in DOMAIN cache.deployments THEN cache.deployments[k] ELSE 0
       /\ Deployments[k].pods = PodsOf(k)
       /\ Deployments[k].usage = Total([p \in PodsOf(k) |-> Pods[p].usage], PodsOf(k))
BY DEF Deployments, DeploymentMetrics, NamespacedKey, OwnedPods, KeyOf, PodsOf

(* The containers of a Deployment, and the usage of its row. *)
ContainersOf(k) == {c \in Known : cache.identities[c].pod \in PodsOf(k)}

LEMMA RowUsage ==
  ASSUME ViewTrue, FiguresOK, NEW k \in DOMAIN Deployments
  PROVE  Deployments[k].usage \in Nat /\ Deployments[k].usage <= Total(Usages, ContainersOf(k))
<1> DEFINE K == PodsOf(k)
           S == ContainersOf(k)
           M == [p \in K |-> MembersOf(p)]
           f == [p \in K |-> Pods[p].usage]
           g == [p \in K |-> Total(Usages, M[p])]
<1>1. Deployments[k].usage = Total(f, K)
  BY RowFields
<1>2. /\ \A p \in K : p \in DOMAIN Pods /\ p \in Pod /\ f[p] = g[p]
      /\ \A p \in K : M[p] \subseteq S
      /\ \A p, q \in K : p # q => M[p] \cap M[q] = {}
      /\ S \subseteq DOMAIN metrics
  BY PodIsTrue DEF PodsOf, OwnedPods, MembersOf, ContainersOf, Known, Attached
<1> HIDE DEF K, S, M, f
<1>3. IsFiniteSet(S) /\ \A c \in S : Usages[c] \in Nat
  BY <1>2, UsagesAreNat, FS_Subset
<1>4. IsFiniteSet(K)
  BY <1>2, WorkloadAssumption, FS_Subset
<1>5. \A p \in K : g[p] \in Nat
  <2> SUFFICES ASSUME NEW p \in K PROVE Total(Usages, M[p]) \in Nat
    OBVIOUS
  <2>1. IsFiniteSet(M[p]) /\ \A c \in M[p] : Usages[c] \in Nat
    BY <1>2, <1>3, FS_Subset
  <2> QED
    BY <2>1, TotalIsNat
<1>6. Total(g, K) <= Total(Usages, S)
  BY <1>2, <1>3, <1>4, TotalOfParts
<1> HIDE DEF g
<1>7. Total(f, K) = Total(g, K)
  BY <1>2, <1>4, <1>5, TotalAgrees
<1>8. Total(g, K) \in Nat
  BY <1>4, <1>5, TotalIsNat
<1> QED
  BY <1>1, <1>6, <1>7, <1>8 DEF S

(* Deployments of the same name in different namespaces, or that share the  *)
(* name of a replica set, never get each other's pods; no usage is counted  *)
(* in two rows (DeploymentMetrics, aggregate_deployment_metrics()).         *)
THEOREM DeploymentsStayApart == Spec => []DeploymentsToldApart
<1>1. ViewTrue /\ FiguresOK => DeploymentsToldApart
  <2> SUFFICES ASSUME ViewTrue, FiguresOK PROVE DeploymentsToldApart
    OBVIOUS
  <2> DEFINE K == DOMAIN Deployments
             f == [k \in K |-> Deployments[k].usage]
             M == [k \in K |-> ContainersOf(k)]
             g == [k \in K |-> Total(Usages, M[k])]
             S == DOMAIN metrics
  <2>1. \A p \in OwnedPods : KeyOf(p) \in Deployment
    BY PodIsTrue DEF OwnedPods
  <2>2. \A k \in K : k \in Deployment
    BY <2>1, RowFields DEF ViewTrue, MetadataTrue
  <2>3. \A k \in K : Deployments[k].generation <= reached[k]
    <3> SUFFICES ASSUME NEW k \in K PROVE Deployments[k].generation <= reached[k]
      OBVIOUS
    <3>1. reached[k] \in Nat
      BY <2>2 DEF ViewTrue, GenerationsOK
    <3>2. k \in DOMAIN cache.deployments => cache.deployments[k] \in 1..reached[k]
      BY DEF ViewTrue, MetadataTrue
    <3>3. Deployments[k].generation = IF k \in DOMAIN cache.deployments THEN cache.deployments[k] ELSE 0
      BY RowFields
    <3> QED
      BY <3>1, <3>2, <3>3
  <2>4. ASSUME NEW k \in K, NEW p \in Deployments[k].pods
        PROVE  /\ NamespaceOf[p] = k[1]
               /\ SetOwner[<<NamespaceOf[p], OwnerOf[p].name>>].name = k[2]
    <3>1. p \in DOMAIN Pods /\ InDeployment(Pods[p]) /\ k = KeyOf(p)
      BY <2>4, RowFields DEF PodsOf, OwnedPods
    <3>2. k[1] = Pods[p].namespace /\ k[2] = Pods[p].workload.name
      BY <3>1 DEF KeyOf
    <3> QED
      BY <3>1, <3>2, PodIsTrue
  <2>5. IsFiniteSet(K) /\ IsFiniteSet(S)
    BY <2>2, WorkloadAssumption, UsagesAreNat, FS_Subset
  <2>6. /\ \A k \in K : M[k] \subseteq S
        /\ \A j, k \in K : j # k => M[j] \cap M[k] = {}
    BY DEF ContainersOf, Known, Attached, PodsOf
  <2> HIDE DEF K, M, S
  <2>7. \A k \in K : f[k] \in Nat /\ f[k] <= Total(Usages, M[k])
    BY RowUsage DEF K, M
  <2>8. \A k \in K : g[k] \in Nat
    <3> SUFFICES ASSUME NEW k \in K PROVE Total(Usages, M[k]) \in Nat
      OBVIOUS
    <3>1. IsFiniteSet(M[k]) /\ \A c \in M[k] : Usages[c] \in Nat
      BY <2>5, <2>6, UsagesAreNat, FS_Subset DEF S
    <3> QED
      BY <3>1, TotalIsNat
  <2>9. Total(g, K) <= Total(Usages, S)
    BY <2>5, <2>6, UsagesAreNat, TotalOfParts DEF S
  <2>10. Total(f, K) <= Total(g, K)
    <3>1. \A k \in K : f[k] \in Int /\ g[k] \in Int /\ f[k] <= g[k]
      BY <2>7, <2>8
    <3> HIDE DEF f, g
    <3> QED
      BY <2>5, <3>1, TotalGrows
  <2>11. Total(f, K) \in Nat /\ Total(g, K) \in Nat /\ Total(Usages, S) \in Nat
    <3>1. \A k \in K : f[k] \in Nat /\ g[k] \in Nat
      BY <2>7, <2>8
    <3> HIDE DEF f, g
    <3>2. Total(f, K) \in Nat /\ Total(g, K) \in Nat
      BY <2>5, <3>1, TotalIsNat
    <3> QED
      BY <2>5, <3>2, UsagesAreNat, TotalIsNat DEF S
  <2>12. Total(f, K) <= Total(Usages, S)
    <3> HIDE DEF f, g
    <3> QED
      BY <2>9, <2>10, <2>11
  <2> QED
    BY <2>2, <2>3, <2>4, <2>12 DEF DeploymentsToldApart, K, S, Usages
<1> QED
  BY <1>1, ViewStaysTrue, FiguresStayOK, PTL
===============================================================================
