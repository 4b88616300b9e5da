--------------------------- MODULE MCAgentStatus ----------------------------
(* Small instances of AgentStatus.                                          *)
EXTENDS AgentStatus

CONSTANTS zoneA, zoneB, main, additional, dev, v2

MCSensor == <<main, additional>>

(* A workload that is fine, and one that lacks a single thing.              *)
MCDaemonSetStatuses ==
    {[observed |-> TRUE, misscheduled |-> m, available |-> TRUE, updated |-> TRUE] : m \in BOOLEAN}
MCDeploymentStatuses ==
    {[observed |-> TRUE, available |-> TRUE, complete |-> c, failure |-> FALSE] : c \in BOOLEAN}
=============================================================================
