---------------------------- MODULE MCEtcdTargets ----------------------------
(* Small instances of EtcdTargets.                                          *)
EXTENDS EtcdTargets

No == [present |-> FALSE, labelled |-> FALSE, metrics |-> FALSE]
Plain == [present |-> TRUE, labelled |-> FALSE, metrics |-> TRUE]
Portless == [present |-> TRUE, labelled |-> FALSE, metrics |-> FALSE]
Marked == [present |-> TRUE, labelled |-> TRUE, metrics |-> TRUE]

Cluster(etcd, metrics, k8s) ==
    [n \in ServiceName |-> CASE n = "etcd" -> etcd [] n = "etcd-metrics" -> metrics
                             [] n = "etcd-k8s" -> k8s]

(* No Service, one without the metrics port, a labelled one next to a plain *)
(* one, and each step of the fallback by name.                              *)
MCTopologies ==
    {Cluster(No, No, No), Cluster(Portless, No, No), Cluster(Plain, Marked, No),
     Cluster(Plain, No, Marked), Cluster(No, Plain, No), Cluster(No, No, Plain)}
=============================================================================
