---------------------------- MODULE MCReconciler ----------------------------
(* Small instances of ReconcilerInvariants.                                 *)
EXTENDS ReconcilerInvariants, TLC

CONSTANTS clusterRole, daemonSet, tlsSecret, old, new

MCObject == {clusterRole, daemonSet, tlsSecret}

(* The ClusterRole has no owner reference; the Secret comes and goes with   *)
(* the generation, the DaemonSet with the version.                          *)
MCOwned == {daemonSet, tlsSecret}
MCDeps == [vg \in Version \X (1..MaxGen) |->
             {clusterRole} \cup (IF vg[2] % 3 = 1 THEN {tlsSecret} ELSE {})
                           \cup (IF vg[2] % 2 = 0 \/ vg[1] = new THEN {daemonSet} ELSE {})]
=============================================================================
