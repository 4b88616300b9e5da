------------------------------ MODULE MCRemote ------------------------------
(* A small instance of RemoteReconciler.                                    *)
EXTENDS RemoteReconciler

CONSTANTS deployment, tlsSecret, old, new

MCObject == {deployment, tlsSecret}

(* Every dependent is namespaced and owned.  The TLS Secret comes and goes  *)
(* with the generation, and only one version builds the Deployment.         *)
MCDeps == [vg \in Version \X (1..MaxGen) |->
             (IF vg[2] % 2 = 1 THEN {tlsSecret} ELSE {})
                \cup (IF vg[2] % 2 = 0 \/ vg[1] = new THEN {deployment} ELSE {})]
=============================================================================
