----------------------------- MODULE EtcdTargets -----------------------------
(***************************************************************************)
(* ETCD monitoring outside OpenShift: DiscoverETCDEndpoints looks for an   *)
(* ETCD Service in kube-system and for its endpoints, CreateDeploymentContext *)
(* compares them with the targets of the running k8sensor Deployment, and  *)
(* the builder of the Deployment adds what the context holds to what the   *)
(* CR asks for.  The last part is the builder, pkg/k8s/object/builders/    *)
(* k8s-sensor/deployment, as far as ETCD is concerned.                     *)
(***************************************************************************)
EXTENDS Naturals

CONSTANTS
    Address,      \* addresses of ETCD members
    Topologies,   \* the sets of Services the cluster moves between
    MaxChanges,   \* bound: changes of the cluster and edits of the CR
    MaxFaults     \* bound: failing API calls

VARIABLES
    services,     \* Services in kube-system
    slices,       \* ready addresses in their EndpointSlices
    legacy,       \* addresses in the Endpoints resource
    caSecret,     \* Secret etcd-ca is in the namespace of the agent
    spec,         \* spec.k8s_sensor.etcd of the CR
    deployment,   \* the k8sensor Deployment
    depSeen,      \* the informer's copy of it
    queued, pc,
    agent,        \* spec as this reconcile read it
    svc,          \* the Service it found
    found,        \* DiscoveredETCDTargets.Targets
    context,      \* the deployment context
    changes, faults

clusterVars == <<services, slices, legacy, caSecret, spec>>
localVars == <<agent, svc, found, context>>
boundVars == <<changes, faults>>
vars == <<clusterVars, deployment, depSeen, queued, pc, localVars, boundVars>>
-----------------------------------------------------------------------------
ServiceName == {"etcd", "etcd-metrics", "etcd-k8s"}

(* labelled: component=etcd; metrics: it has a port of that name.           *)
Service == [present: BOOLEAN, labelled: BOOLEAN, metrics: BOOLEAN]

ASSUME EtcdAssumption ==
    /\ Topologies \subseteq [ServiceName -> Service] /\ Topologies # {}
    /\ MaxChanges \in Nat /\ MaxFaults \in Nat

(* scheme://address:port/metrics; scheme and port come from the Service, a  *)
(* target of the CR is marked as such.                                      *)
Target == (ServiceName \cup {"spec"}) \X Address

(* ca: etcd.ca.secretName is set.                                           *)
EtcdSpec == [targets: {{}} \cup {{<<"spec", a>>} : a \in Address}, ca: BOOLEAN]

(* Deployment: targets is ETCD_TARGETS; caFiles and caVolumes count the     *)
(* variables ETCD_CA_FILE and the volumes etcd-ca.                          *)
Deployment == [exists: BOOLEAN, targets: SUBSET Target, caFiles: 0..1, caVolumes: 0..1]
NoDeployment == [exists |-> FALSE, targets |-> {}, caFiles |-> 0, caVolumes |-> 0]

(* ca: ETCDCASecretName is set.  A nil context adds nothing.                *)
NoContext == [targets |-> {}, ca |-> FALSE]
Context == [targets: SUBSET Target, ca: BOOLEAN]

None == "none"
PC == {"idle", "skip", "find", "slices", "legacy", "ca", "apply"}

TypeOK ==
    /\ services \in Topologies
    /\ slices \subseteq Address /\ legacy \subseteq Address
    /\ caSecret \in BOOLEAN
    /\ spec \in EtcdSpec /\ agent \in EtcdSpec
    /\ deployment \in Deployment /\ depSeen \in Deployment
    /\ queued \in BOOLEAN /\ pc \in PC
    /\ svc \in ServiceName \cup {None}
    /\ found \subseteq Target /\ context \in Context
    /\ changes \in 0..MaxChanges /\ faults \in 0..MaxFaults

NoSpec == [targets |-> {}, ca |-> FALSE]

Init ==
    /\ services \in Topologies
    /\ slices \in SUBSET Address /\ legacy \in SUBSET Address
    /\ caSecret \in BOOLEAN
    /\ spec \in EtcdSpec
    /\ deployment = NoDeployment /\ depSeen = NoDeployment
    /\ queued = TRUE /\ pc = "idle"
    /\ agent = NoSpec /\ svc = None /\ found = {} /\ context = NoContext
    /\ changes = 0 /\ faults = 0

Fault == faults < MaxFaults /\ faults' = faults + 1
-----------------------------------------------------------------------------
StartReconcile ==
    /\ pc = "idle" /\ queued
    /\ queued' = FALSE
    /\ agent' = spec
    /\ svc' = None /\ found' = {} /\ context' = NoContext
    /\ pc' = "skip"
    /\ UNCHANGED <<clusterVars, deployment, depSeen, boundVars>>

(* CreateDeploymentContext turns every error of the discovery into a nil    *)
(* context; the reconcile goes on to the Deployment.                        *)
DiscoveryFails ==
    /\ Fault
    /\ pc' = "apply"
    /\ UNCHANGED <<svc, found, context>>

ShouldSkipDiscovery ==
    /\ pc = "skip"
    /\ \/ /\ pc' = IF agent.targets # {} THEN "apply" ELSE "find"
          /\ UNCHANGED <<svc, found, context, faults>>
       \/ DiscoveryFails
    /\ UNCHANGED <<clusterVars, deployment, depSeen, queued, agent, changes>>

Labelled(s, n) == s[n].present /\ s[n].labelled

FindETCDService(s) ==
    IF Labelled(s, "etcd") THEN "etcd"
    ELSE IF Labelled(s, "etcd-metrics") THEN "etcd-metrics"
    ELSE IF s["etcd"].present THEN "etcd"
    ELSE IF s["etcd-metrics"].present THEN "etcd-metrics"
    ELSE IF s["etcd-k8s"].present THEN "etcd-k8s"
    ELSE None

(* Mutant: no Service is taken for one.                                     *)
FindServiceUnchecked ==
    /\ pc = "find"
    /\ svc' = FindETCDService(services)
    /\ pc' = "slices"
    /\ UNCHANGED <<clusterVars, deployment, depSeen, queued, agent, found, context, boundVars>>

(* FindETCDService and FindMetricsPortAndScheme.                            *)
FindService ==
    /\ pc = "find"
    /\ \/ /\ svc' = FindETCDService(services)
          /\ pc' = IF svc' # None /\ services[svc'].metrics THEN "slices" ELSE "apply"
          /\ UNCHANGED <<found, context, faults>>
       \/ DiscoveryFails
    /\ UNCHANGED <<clusterVars, deployment, depSeen, queued, agent, changes>>

TargetsOf(addresses) == {<<svc, a>> : a \in addresses}

BuildTargetsFromEndpoints ==
    /\ pc = "slices"
    /\ \/ /\ found' = TargetsOf(slices)
          /\ pc' = IF slices = {} THEN "legacy" ELSE "ca"
          /\ UNCHANGED <<svc, context, faults>>
       \/ DiscoveryFails
    /\ UNCHANGED <<clusterVars, deployment, depSeen, queued, agent, changes>>

BuildTargetsFromLegacyEndpoints ==
    /\ pc = "legacy"
    /\ \/ /\ found' = TargetsOf(legacy)
          /\ pc' = IF legacy = {} THEN "apply" ELSE "ca"
          /\ UNCHANGED <<svc, context, faults>>
       \/ DiscoveryFails
    /\ UNCHANGED <<clusterVars, deployment, depSeen, queued, agent, changes>>
-----------------------------------------------------------------------------
(* Mutant: the comparison is inverted once a Deployment exists.             *)
UpdateIfEqual(dep, targets) == dep.targets = targets

(* Both lists are sorted before they are compared.                          *)
compareAndUpdateETCDTargets(dep, targets) == dep.targets # targets

(* Unchanged targets leave the context nil.                                 *)
ContextFor(dep, ca) ==
    IF dep.exists => compareAndUpdateETCDTargets(dep, found)
    THEN [targets |-> found, ca |-> ca]
    ELSE NoContext

(* CheckCASecretExists, then the rest of CreateDeploymentContext.  Failing  *)
(* to read the Secret or the Deployment means that there is none.           *)
CreateDeploymentContext ==
    /\ pc = "ca"
    /\ \/ context' = ContextFor(depSeen, caSecret) /\ UNCHANGED faults
       \/ Fault /\ context' \in {ContextFor(depSeen, FALSE), ContextFor(NoDeployment, caSecret)}
    /\ pc' = "apply"
    /\ UNCHANGED <<clusterVars, deployment, depSeen, queued, agent, svc, found, changes>>

(* Mutant: only the context is asked for targets.                           *)
ContextTargets(a, c) == c.targets

etcdTargets(a, c) == IF a.targets # {} THEN a.targets ELSE c.targets

One(b) == IF b THEN 1 ELSE 0

(* A discovered CA is used unless the CR names the targets.                 *)
DiscoveredCA(a, c) == c.ca /\ a.targets = {}

(* InstanaAgent.Default sets etcd.ca.mountPath, so the common variables     *)
(* always hold one ETCD_CA_FILE; a discovered CA adds another.              *)
caFiles(a, c) == 1 + One(DiscoveredCA(a, c) /\ c.targets # {})

caVolumes(a, c) == One(a.ca) + One(DiscoveredCA(a, c))

Built(a, c) == [exists |-> TRUE, targets |-> etcdTargets(a, c),
                caFiles |-> caFiles(a, c), caVolumes |-> caVolumes(a, c)]

(* A server-side apply refuses lists with two entries of the same name.     *)
Accepted(d) == d.caFiles <= 1 /\ d.caVolumes <= 1

(* Mutant: without a context an existing Deployment is left as it is.       *)
ApplySkipped ==
    /\ pc = "apply"
    /\ deployment' = IF (context = NoContext /\ deployment.exists) \/ ~Accepted(Built(agent, context))
                     THEN deployment ELSE Built(agent, context)
    /\ pc' = "idle"
    /\ UNCHANGED <<clusterVars, depSeen, queued, localVars, boundVars>>

(* ApplyAll: the dry run meets what the API server refuses.                 *)
ApplyDeployment ==
    /\ pc = "apply"
    /\ LET d == Built(agent, context) IN
       \/ /\ Accepted(d)
          /\ deployment' = d
          /\ UNCHANGED <<queued, faults>>
       \/ /\ ~Accepted(d)
          /\ queued' = TRUE
          /\ UNCHANGED <<deployment, faults>>
       \/ /\ Fault
          /\ queued' = TRUE
          /\ UNCHANGED deployment
    /\ pc' = "idle"
    /\ UNCHANGED <<clusterVars, depSeen, localVars, changes>>
-----------------------------------------------------------------------------
Change == changes < MaxChanges /\ changes' = changes + 1

(* Services, endpoints and the Secret change without an event for the CR.   *)
ChangeCluster ==
    /\ Change
    /\ \/ services' \in Topologies \ {services} /\ UNCHANGED <<slices, legacy, caSecret>>
       \/ slices' \in SUBSET Address /\ legacy' \in SUBSET Address /\ UNCHANGED <<services, caSecret>>
       \/ caSecret' = ~caSecret /\ UNCHANGED <<services, slices, legacy>>
    /\ UNCHANGED <<spec, deployment, depSeen, queued, pc, localVars, faults>>

EditSpec ==
    /\ Change
    /\ spec' \in EtcdSpec \ {spec}
    /\ queued' = TRUE
    /\ UNCHANGED <<services, slices, legacy, caSecret, deployment, depSeen, pc, localVars, faults>>

RefreshDeployment ==
    /\ depSeen # deployment
    /\ depSeen' = deployment
    /\ UNCHANGED <<clusterVars, deployment, queued, pc, localVars, boundVars>>

OtherEvent ==
    /\ ~queued
    /\ queued' = TRUE
    /\ UNCHANGED <<clusterVars, deployment, depSeen, pc, localVars, boundVars>>

Reconcile ==
    \/ StartReconcile \/ ShouldSkipDiscovery \/ FindService
    \/ BuildTargetsFromEndpoints \/ BuildTargetsFromLegacyEndpoints
    \/ CreateDeploymentContext \/ ApplyDeployment

Next == Reconcile \/ ChangeCluster \/ EditSpec \/ RefreshDeployment \/ OtherEvent

Spec == Init /\ [][Next]_vars

(* The worker runs and the informer of Deployments catches up.              *)
FairSpec == Spec /\ WF_vars(Reconcile) /\ WF_vars(RefreshDeployment)
-----------------------------------------------------------------------------
(* What an undisturbed discovery finds.                                     *)
Discoverable ==
    LET s == FindETCDService(services)
    IN  IF s # None /\ services[s].metrics
        THEN {<<s, a>> : a \in IF slices # {} THEN slices ELSE legacy}
        ELSE {}

(* If reconciles keep coming, the targets the CR names are those of the     *)
(* Deployment from some time on, whatever was discovered before.            *)
SpecTargetsPrevail == []<>queued => <>[](spec.targets # {} => deployment.targets = spec.targets)

(* If reconciles keep coming, targets that are no longer discoverable leave *)
(* the Deployment for good.                                                 *)
GoneTargetsLeave ==
    []<>queued => <>[](spec.targets = {} /\ Discoverable = {} => deployment.targets = {})

(* If reconciles keep coming and no Secret etcd-ca is there, the Deployment *)
(* has the discoverable targets again and again.                            *)
TargetsReturn ==
    []<>queued => []<>(spec.targets = {} /\ ~caSecret => deployment.targets = Discoverable)

(* A reconcile that discovers the targets the Deployment already has leaves *)
(* them alone.                                                              *)
UnchangedTargetsKept ==
    [][pc = "apply" /\ found # {} /\ found = deployment.targets
          => deployment'.targets = deployment.targets]_vars
=============================================================================
