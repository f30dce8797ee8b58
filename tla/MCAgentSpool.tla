----------------------------- MODULE MCAgentSpool -----------------------------
(* The agent on its own, with files of one and two units and one that is   *)
(* larger than the whole spool.                                            *)
EXTENDS AgentSpool

(* Files of one unit each. *)
Units == [s \in Snapshot |-> 1]

Sizes == [s \in Snapshot |-> CASE s = 4 -> 5 [] s % 2 = 0 -> 2 [] OTHER -> 1]
===============================================================================
