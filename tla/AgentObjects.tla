---------------------------- MODULE AgentObjects -----------------------------
(***************************************************************************)
(* The object builders of InstanaAgent: which objects a CR asks for, the   *)
(* keys of its Secrets and ConfigMaps, and what the pods of the DaemonSets *)
(* and of the k8sensor Deployments refer to.                               *)
(*                                                                         *)
(* A CR is the set of the features it sets, after Default(); "etcdCA" and  *)
(* "restCA" are the Secret of a CA, "etcdPath" and "restPath" the path to  *)
(* mount it at; a CR may set either without the other.                     *)
(*                                                                         *)
(* An object is a pair of a role and a suffix: a zone of a DaemonSet, "-1" *)
(* for the additional backend, the account name for RBAC, "none" for an    *)
(* object with the plain name.  Settings that only carry a value (modes,   *)
(* repositories, probes, affinity, resources) are left out: no property    *)
(* tells them apart.                                                       *)
(***************************************************************************)
EXTENDS Naturals, Sequences

When(c, S) == IF c THEN S ELSE {}

Feature == {"key", "keysSecret", "downloadKey", "backend", "mounts", "proxyHost",
            "proxyUser", "proxyPassword", "mirror", "tlsSecret", "tlsCertificate",
            "pullSecrets", "instanaRegistry", "zoneName", "clusterName", "zones",
            "serviceAccount", "accountName", "service", "pdb", "sensorDisabled",
            "agentEnv", "podHostId", "openshift", "etcdResources", "etcdDiscovered",
            "etcdTargets", "etcdCA", "etcdPath", "restCA", "restPath"}

(* The fields that hold a credential, with the name of the variable or the  *)
(* file the agent reads.  The four mirror credentials are handled alike.    *)
Credential == {"downloadKey", "proxyUser", "proxyPassword", "mirror"}
File == [downloadKey   |-> "INSTANA_DOWNLOAD_KEY",
         proxyUser     |-> "INSTANA_AGENT_PROXY_USER",
         proxyPassword |-> "INSTANA_AGENT_PROXY_PASSWORD",
         mirror        |-> "MIRROR_CREDENTIALS"]

Suffixes == {"none", "-1"}
Accounts == {"none", "named", "default"}

Object ==
    {"daemonset"} \X {"none", "a", "b"} \cup {"sensor"} \X Suffixes
    \cup {"serviceaccount", "clusterrole", "clusterrolebinding"} \X Accounts
    \cup {"headless", "config", "containers", "tls", "service", "pdb", "sensorrbac",
          "sensoraccount", "sensorconfig", "keys", "namespaces"} \X {"none"}

DaemonSets == {"daemonset"} \X {"none", "a", "b"}

(* getK8SensorBackends: the main backend has no suffix.                     *)
getK8SensorBackends(s) == IF "backend" \in s THEN <<"none", "-1">> ELSE <<"none">>
Backends(s) == {getK8SensorBackends(s)[i] : i \in DOMAIN getK8SensorBackends(s)}

(* ServiceAccountName: the given name, else that of the CR if an account is *)
(* created, else "default".                                                 *)
ServiceAccountName(s) ==
    IF "accountName" \in s THEN "named" ELSE IF "serviceAccount" \in s THEN "none" ELSE "default"

TLSIsEnabled(s) == "tlsSecret" \in s \/ "tlsCertificate" \in s
UseContainersSecret(s) == "pullSecrets" \notin s /\ "instanaRegistry" \in s
-----------------------------------------------------------------------------
hasKey(s) == "key" \in s \/ "keysSecret" \in s
hasName(s) == "zoneName" \in s \/ "clusterName" \in s

(* The Build methods: whether a builder yields its object.  The keys and    *)
(* the name a workload cannot do without are checked; "service" stands for  *)
(* any of the three settings that ask for one, "pdb" for a budget enabled   *)
(* with several replicas.  RBAC, headless Service, configuration and        *)
(* namespaces are always built.                                             *)
DaemonSetBuild(s, zone) == hasKey(s) /\ IF zone = "none" THEN hasName(s) ELSE "clusterName" \in s
SensorBuild(s) == hasKey(s) /\ hasName(s) /\ "sensorDisabled" \notin s
ContainersSecretBuild(s) == UseContainersSecret(s) /\ (hasKey(s) \/ "downloadKey" \in s)
TLSSecretBuild(s) == "tlsSecret" \notin s /\ "tlsCertificate" \in s
KeysSecretBuild(s) == "keysSecret" \notin s
ServiceBuild(s) == "service" \in s
ServiceAccountBuild(s) == "serviceAccount" \in s
PodDisruptionBudgetBuild(s) == "pdb" \in s

Builds(s, o) ==
    CASE o[1] = "daemonset"      -> DaemonSetBuild(s, o[2])
      [] o[1] = "sensor"         -> SensorBuild(s)
      [] o[1] = "containers"     -> ContainersSecretBuild(s)
      [] o[1] = "tls"            -> TLSSecretBuild(s)
      [] o[1] = "keys"           -> KeysSecretBuild(s)
      [] o[1] = "service"        -> ServiceBuild(s)
      [] o[1] = "serviceaccount" -> ServiceAccountBuild(s)
      [] o[1] = "pdb"            -> PodDisruptionBudgetBuild(s)
      [] OTHER                   -> TRUE

Built(s, o) == IF Builds(s, o) THEN <<o>> ELSE <<>>

(* getDaemonSetBuilders: one DaemonSet, or one for every zone.              *)
getDaemonSetBuilders(s) ==
    IF "zones" \in s THEN Built(s, <<"daemonset", "a">>) \o Built(s, <<"daemonset", "b">>)
                     ELSE Built(s, <<"daemonset", "none">>)

getK8sSensorDeployments(s) ==
    IF SensorBuild(s)
    THEN [i \in DOMAIN getK8SensorBackends(s) |-> <<"sensor", getK8SensorBackends(s)[i]>>]
    ELSE <<>>

(* The builders in the order of applyResources, those without an object     *)
(* left out.                                                                *)
buildObjects(s) ==
    LET account == ServiceAccountName(s)
    IN  getDaemonSetBuilders(s)
        \o << <<"headless", "none">>, <<"config", "none">> >>
        \o Built(s, <<"containers", "none">>) \o Built(s, <<"tls", "none">>)
        \o Built(s, <<"service", "none">>)
        \o << <<"clusterrole", account>>, <<"clusterrolebinding", account>> >>
        \o Built(s, <<"serviceaccount", account>>) \o Built(s, <<"pdb", "none">>)
        \o << <<"sensorrbac", "none">>, <<"sensoraccount", "none">>, <<"sensorconfig", "none">> >>
        \o Built(s, <<"keys", "none">>) \o << <<"namespaces", "none">> >>
        \o getK8sSensorDeployments(s)
-----------------------------------------------------------------------------
(* The Secret <name>: the keys, and with useSecretMounts a second entry for *)
(* each credential under the name of the file it is mounted as.             *)
keysData(s) ==
    LET withKey == {b \in Backends(s) : b # "none" \/ "key" \in s}
    IN  When("downloadKey" \in s, {<<"downloadKey", "none">>})
        \cup {<<"key", b>> : b \in withKey}
        \cup When("mounts" \in s,
               {<<File[c], "none">> : c \in Credential \cap s}
               \cup When("proxyHost" \in s, {<<"HTTPS_PROXY", "none">>})
               \cup {<<"INSTANA_AGENT_KEY", b>> : b \in withKey})

(* backendConfig: a sender configuration for every backend with a key.  The *)
(* user's Secret is taken to hold the keys of all backends.                 *)
backendConfig(s) ==
    {<<"Backend.cfg", b>> : b \in {c \in Backends(s) : c # "none" \/ hasKey(s)}}

(* The entries of the Secrets and ConfigMaps a pod refers to.               *)
data(s, o) ==
    CASE o[1] = "keys"         -> keysData(s)
      [] o[1] = "config"       -> backendConfig(s)
      [] o[1] = "sensorconfig" -> {<<"backend", b>> : b \in Backends(s)}
      [] OTHER                 -> {}

(* The Secret that holds the keys: KeysSecret is the user's.                *)
keysObject(s) == IF "keysSecret" \in s THEN <<"userKeys", "none">> ELSE <<"keys", "none">>
-----------------------------------------------------------------------------
(* A volume taken from an object and the directory it is mounted at: the    *)
(* entries that must be there with the file each becomes; no items stand    *)
(* for all entries.                                                         *)
Volume(name, dir, object, items) ==
    {[name |-> name, dir |-> dir, object |-> object, items |-> items]}

configVolume == Volume("config", "config", <<"config", "none">>, {})
namespacesDetailsVolume == Volume("namespaces-details", "namespaces", <<"namespaces", "none">>, {})

tlsVolume(s) ==
    When(TLSIsEnabled(s),
      Volume("instana-agent-tls", "certs",
             IF "tlsSecret" \in s THEN <<"userTls", "none">> ELSE <<"tls", "none">>, {}))

(* Of the user's Secret only the agent key is mounted.                      *)
secretsVolume(s) ==
    When("mounts" \in s,
      Volume("instana-secrets", "secrets", keysObject(s),
             When("keysSecret" \in s, {<< <<"key", "none">>, <<"INSTANA_AGENT_KEY", "none">> >>})))

k8sensorSecretsVolume(s, b) ==
    LET user == "keysSecret" \in s
    IN  When("mounts" \in s,
          Volume("instana-secrets", "secrets", keysObject(s),
            {<< <<IF user THEN "key" ELSE "INSTANA_AGENT_KEY", b>>, <<"INSTANA_AGENT_KEY", b>> >>}
            \cup When("proxyHost" \in s,
                   {<< <<IF user THEN "httpsProxy" ELSE "HTTPS_PROXY", "none">>,
                       <<"HTTPS_PROXY", "none">> >>})))

(* The mount paths of the two CAs.  Default() gives that of ETCD the        *)
(* directory of the account token; the other has no default, "none" is the  *)
(* empty path.                                                              *)
TokenDirectory == "serviceaccount"
etcdMountPath(s) == IF "etcdPath" \in s THEN "etcdMountPath" ELSE TokenDirectory
restMountPath(s) == IF "restPath" \in s THEN "restMountPath" ELSE "none"

(* On OpenShift the copied CA bundle, unless the CR names a CA of its own.  *)
etcdCAVolume(s) ==
    IF "etcdCA" \in s THEN Volume("etcd-ca", etcdMountPath(s), <<"userEtcdCA", "none">>, {})
    ELSE When("openshift" \in s, Volume("etcd-ca", "etcd-metrics-ca", <<"copiedCA", "none">>, {}))

etcdClientCertVolume(s) ==
    When("openshift" \in s, Volume("etcd-client-cert", "etcd-client", <<"copiedCert", "none">>, {}))

controlPlaneCAVolume(s) ==
    When("restCA" \in s, Volume("control-plane-ca", restMountPath(s), <<"userRestCA", "none">>, {}))

getDaemonSetVolumes(s) ==
    configVolume \cup namespacesDetailsVolume \cup tlsVolume(s) \cup secretsVolume(s)

(* The deployment context: on OpenShift the ETCD resources were copied,     *)
(* elsewhere a CA Secret was discovered and the CR names no targets.        *)
copiedEtcd(s) == {"openshift", "etcdResources"} \subseteq s
discoveredEtcd(s) == "etcdDiscovered" \in s /\ s \cap {"openshift", "etcdTargets"} = {}

getSensorVolumes(s, b) ==
    configVolume \cup controlPlaneCAVolume(s)
    \cup When(copiedEtcd(s) \/ "etcdCA" \in s, etcdCAVolume(s))
    \cup When(copiedEtcd(s), etcdClientCertVolume(s))
    \cup k8sensorSecretsVolume(s, b)
    \cup When(discoveredEtcd(s), Volume("etcd-ca", "etcd", <<"discoveredCA", "none">>, {}))

volumes(s, o) ==
    CASE o[1] = "daemonset" -> getDaemonSetVolumes(s)
      [] o[1] = "sensor"    -> getSensorVolumes(s, o[2])
      [] OTHER              -> {}
-----------------------------------------------------------------------------
(* Mutant: only keys count as secrets.                                      *)
isKey(v) == v \in {"INSTANA_AGENT_KEY", "AGENT_KEY", "INSTANA_DOWNLOAD_KEY"}

(* EnvBuilder.Build: agent.env first, then the variables asked for that are *)
(* set; a secret is not set at all when secrets are mounted as files.       *)
isSecret(v) ==
    v \in {"INSTANA_AGENT_KEY", "AGENT_KEY", "HTTPS_PROXY"} \cup {File[c] : c \in Credential}

isSet(s, v) ==
    CASE v = "HTTPS_PROXY" \/ v = "NO_PROXY" -> "proxyHost" \in s
      [] v = "CONTROL_PLANE_CA_FILE" -> restMountPath(s) # "none"
      [] v \in {File[c] : c \in Credential \ {"downloadKey"}} ->
            \E c \in Credential \cap s : v = File[c]
      [] OTHER -> TRUE

EnvBuild(s, vs) ==
    When("agentEnv" \in s, {"USER"})
    \cup {v \in vs : ~("mounts" \in s /\ isSecret(v)) /\ isSet(s, v)}

(* The variables of a container, in the groups that are put together to one *)
(* list; the order within a group is left out.  Those of the agent are      *)
(* collected in a map: no name comes twice.                                 *)
Names(e) == UNION {e[i] : i \in DOMAIN e}

getDaemonSetEnv(s) ==
    <<EnvBuild(s, {"MIRROR_CREDENTIALS", "INSTANA_AGENT_PROXY_USER", "INSTANA_AGENT_PROXY_PASSWORD",
                   "CONFIG_PATH", "INSTANA_AGENT_KEY", "INSTANA_DOWNLOAD_KEY",
                   "NAMESPACES_DETAILS_PATH"})>>

(* The variables of the k8sensor are concatenated: agent.env comes a second *)
(* time with HTTPS_PROXY when secrets are not mounted, and a discovered CA  *)
(* adds an ETCD_CA_FILE to that of the mount path, which is always set.     *)
getSensorEnv(s) ==
    <<{"BACKEND"} \cup When("mounts" \notin s, {"AGENT_KEY"}),
      When("mounts" \notin s, EnvBuild(s, {"HTTPS_PROXY"})),
      EnvBuild(s, {"NO_PROXY", "CONFIG_PATH", "CONTROL_PLANE_CA_FILE"}),
      {"ETCD_CA_FILE"} \cup When(copiedEtcd(s), {"ETCD_CERT_FILE"}),
      When(discoveredEtcd(s), {"ETCD_CA_FILE"})>>

env(s, o) == IF o[1] = "daemonset" THEN getDaemonSetEnv(s)
             ELSE IF o[1] = "sensor" THEN getSensorEnv(s) ELSE <<>>

(* getK8SensorArgs: the files the k8sensor is told to read its key and its  *)
(* proxy from.                                                              *)
getK8SensorArgs(s, b) ==
    When("mounts" \in s,
      {<<"INSTANA_AGENT_KEY", b>>} \cup When("proxyHost" \in s, {<<"HTTPS_PROXY", "none">>}))

(* The directories the values of the variables point into: those of the CAs *)
(* are the mount paths, whether or not there is a Secret to mount.          *)
Paths(s, v) ==
    CASE v = "CONFIG_PATH" -> {"config"}
      [] v = "NAMESPACES_DETAILS_PATH" -> {"namespaces"}
      [] v = "CONTROL_PLANE_CA_FILE" -> {restMountPath(s)}
      [] v = "ETCD_CERT_FILE" -> {"etcd-client"}
      [] v = "ETCD_CA_FILE" -> IF copiedEtcd(s) THEN {"etcd-metrics-ca"}
                               ELSE {etcdMountPath(s)} \cup When(discoveredEtcd(s), {"etcd"})
      [] OTHER -> {}

(* What a pod cannot start without: the objects and entries behind its      *)
(* volumes, its variables, its account and its pull secrets.  The download  *)
(* key is an optional reference, pull secrets of the CR are the user's.     *)
ImagePullSecrets(s) == When(UseContainersSecret(s), {<<"containers", "none">>})

Mounted(vs) == UNION {{<<v.object, i[1]>> : i \in v.items} : v \in vs}

DaemonSetReferences(s) ==
    LET vs == getDaemonSetVolumes(s)
    IN  [objects |-> {v.object : v \in vs} \cup ImagePullSecrets(s)
                     \cup When("serviceAccount" \in s, {<<"serviceaccount", ServiceAccountName(s)>>}),
         entries |-> Mounted(vs) \cup When("INSTANA_AGENT_KEY" \in Names(getDaemonSetEnv(s)),
                                          {<<keysObject(s), <<"key", "none">> >>})]

SensorReferences(s, b) ==
    LET vs == getSensorVolumes(s, b)
    IN  [objects |-> {v.object : v \in vs} \cup ImagePullSecrets(s)
                     \cup {<<"sensoraccount", "none">>, <<"sensorconfig", "none">>},
         entries |-> Mounted(vs) \cup {<< <<"sensorconfig", "none">>, <<"backend", b>> >>}
                     \cup When("AGENT_KEY" \in Names(getSensorEnv(s)),
                               {<<keysObject(s), <<"key", b>> >>})]

References(s, o) == IF o[1] = "sensor" THEN SensorReferences(s, o[2]) ELSE DaemonSetReferences(s)
=============================================================================
