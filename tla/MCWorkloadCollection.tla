------------------------- MODULE MCWorkloadCollection -------------------------
(* Two namespaces with a Deployment of the same name each; the pod of one  *)
(* has a container that is replaced by, or runs beside, another one.       *)
EXTENDS WorkloadCollection

CONSTANTS c1, c2, c3, p1, p2

MCContainer   == {c1, c2, c3}
MCPod         == {p1, p2}
MCPodOf       == [c \in MCContainer |-> IF c = c3 THEN p2 ELSE p1]
MCBusy        == {c1}
MCFirst       == {{c1}}
MCNamespaceOf == [p \in MCPod |-> IF p = p1 THEN "a" ELSE "b"]
MCOwnerOf     == [p \in MCPod |-> [kind |-> "ReplicaSet", name |-> "web-1"]]
MCDeployment  == {<<"a", "web">>, <<"b", "web">>}
MCSetOwner    == [s \in {<<"a", "web-1">>, <<"b", "web-1">>} |->
                    [kind |-> "Deployment", name |-> "web"]]
MCLimitOf     == [c \in MCContainer |-> IF c = c1 THEN 0 ELSE 2]
===============================================================================
