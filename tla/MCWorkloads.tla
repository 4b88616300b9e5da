----------------------------- MODULE MCWorkloads -----------------------------
(***************************************************************************)
(* The CRs the run of Workloads starts with: the defaults; secrets as      *)
(* files with a proxy, a second backend and a CA for ETCD; secrets as      *)
(* variables with zones and a CA for the API server, on OpenShift.         *)
(***************************************************************************)
EXTENDS Workloads

Plain == {"key", "mounts", "zoneName", "clusterName", "serviceAccount", "service"}
Proxy == Plain \cup {"proxyHost", "proxyUser", "backend", "instanaRegistry", "etcdCA", "etcdPath"}
Zoned == {"key", "downloadKey", "zoneName", "clusterName", "zones", "proxyHost", "mirror",
          "tlsCertificate", "accountName", "serviceAccount", "openshift", "etcdResources", "restCA",
          "restPath"}

MCSpecs == {Plain, Proxy, Zoned}
=============================================================================
