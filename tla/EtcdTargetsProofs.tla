-------------------------- MODULE EtcdTargetsProofs --------------------------
(***************************************************************************)
(* Safety of the ETCD discovery outside OpenShift, for every set of        *)
(* addresses and Services and any number of changes and failing calls.     *)
(***************************************************************************)
EXTENDS EtcdTargets, TLAPS

LEMMA SpecType ==
    /\ NoSpec \in EtcdSpec
    /\ \A a \in EtcdSpec : a.targets \subseteq Target /\ a.ca \in BOOLEAN
<1>1. NoSpec \in EtcdSpec
  BY DEF NoSpec, EtcdSpec
<1>2. ASSUME NEW a \in EtcdSpec PROVE a.targets \subseteq Target /\ a.ca \in BOOLEAN
  <2>1. a.targets \in {{}} \cup {{<<"spec", m>>} : m \in Address} /\ a.ca \in BOOLEAN
    BY DEF EtcdSpec
  <2>2. QED
    BY <2>1 DEF Target
<1>3. QED
  BY <1>1, <1>2

LEMMA ConstantTypes == NoDeployment \in Deployment /\ NoContext \in Context
BY DEF NoDeployment, Deployment, NoContext, Context

LEMMA FoundService == \A s : FindETCDService(s) \in ServiceName \cup {None}
BY DEF FindETCDService, ServiceName

(* A reconcile finds targets only once it has found a Service, and only     *)
(* targets of that Service; the context is empty until the discovery ends   *)
(* and holds nothing else.                                                  *)
DiscoveryInv ==
    /\ pc \in {"skip", "find"} => found = {}
    /\ pc \in {"slices", "legacy", "ca"} => svc \in ServiceName
    /\ pc \in {"skip", "find", "slices", "legacy", "ca"} => context = NoContext
    /\ found \subseteq {svc} \X Address
    /\ context.targets \in {{}, found}

EtcdInv == TypeOK /\ DiscoveryInv

LEMMA ContextType ==
    ASSUME found \subseteq Target, NEW d, NEW ca \in BOOLEAN
    PROVE  /\ ContextFor(d, ca) \in Context
           /\ ContextFor(d, ca).targets \in {{}, found}
BY DEF ContextFor, NoContext, Context

(* What the API server accepts is well formed: one variable ETCD_CA_FILE    *)
(* and at most one volume etcd-ca.                                          *)
LEMMA BuiltType ==
    ASSUME NEW a \in EtcdSpec, NEW c \in Context, Accepted(Built(a, c))
    PROVE  Built(a, c) \in Deployment
<1>1. etcdTargets(a, c) \subseteq Target
  BY SpecType DEF etcdTargets, Context
<1>2. caFiles(a, c) \in Nat /\ caVolumes(a, c) \in Nat
  BY DEF caFiles, caVolumes, One
<1>3. caFiles(a, c) \in 0..1 /\ caVolumes(a, c) \in 0..1
  BY <1>2 DEF Accepted, Built
<1>4. QED
  BY <1>1, <1>3 DEF Built, Deployment

LEMMA InitEtcd == Init => EtcdInv
<1> SUFFICES ASSUME Init PROVE EtcdInv
  OBVIOUS
<1>1. queued \in BOOLEAN /\ pc \in PC /\ svc \in ServiceName \cup {None}
  BY DEF Init, PC
<1>2. changes \in 0..MaxChanges /\ faults \in 0..MaxFaults
  BY EtcdAssumption DEF Init
<1>3. TypeOK
  BY <1>1, <1>2, SpecType, ConstantTypes DEF Init, TypeOK
<1>4. DiscoveryInv
  BY DEF Init, DiscoveryInv, NoContext
<1>5. QED
  BY <1>3, <1>4 DEF EtcdInv

LEMMA FaultType == TypeOK /\ Fault => faults' \in 0..MaxFaults
BY EtcdAssumption DEF TypeOK, Fault

LEMMA ChangeType == TypeOK /\ Change => changes' \in 0..MaxChanges
BY EtcdAssumption DEF TypeOK, Change

(* The steps of the discovery leave the cluster, the CR and the Deployment  *)
(* alone.                                                                   *)
LEMMA DiscoveryStep ==
    ASSUME EtcdInv,
           UNCHANGED <<clusterVars, deployment, depSeen, queued, agent, changes>>,
           faults' = faults \/ Fault,
           pc' \in PC, svc' \in ServiceName \cup {None},
           found' \subseteq Target, context' \in Context, DiscoveryInv'
    PROVE  EtcdInv'
<1>1. faults' \in 0..MaxFaults
  BY FaultType DEF EtcdInv, TypeOK
<1>2. QED
  BY <1>1 DEF EtcdInv, TypeOK, clusterVars

LEMMA FailedDiscovery ==
    ASSUME EtcdInv, DiscoveryFails,
           UNCHANGED <<clusterVars, deployment, depSeen, queued, agent, changes>>
    PROVE  EtcdInv'
<1>1. pc' = "apply" /\ UNCHANGED <<svc, found, context>> /\ Fault
  BY DEF DiscoveryFails
<1>2. DiscoveryInv'
  BY <1>1 DEF EtcdInv, DiscoveryInv
<1>3. QED
  BY <1>1, <1>2, DiscoveryStep DEF EtcdInv, TypeOK, PC

LEMMA EtcdStep == EtcdInv /\ [Next]_vars => EtcdInv'
<1> SUFFICES ASSUME EtcdInv, [Next]_vars PROVE EtcdInv'
  OBVIOUS
<1>1. CASE StartReconcile
  <2>1. /\ pc' = "skip" /\ queued' = FALSE /\ agent' = spec
        /\ svc' = None /\ found' = {} /\ context' = NoContext
        /\ UNCHANGED <<clusterVars, deployment, depSeen, boundVars>>
    BY <1>1 DEF StartReconcile
  <2>2. TypeOK'
    BY <2>1, ConstantTypes DEF EtcdInv, TypeOK, PC, clusterVars, boundVars
  <2>3. DiscoveryInv'
    BY <2>1 DEF DiscoveryInv, NoContext
  <2>4. QED
    BY <2>2, <2>3 DEF EtcdInv
<1>2. CASE ShouldSkipDiscovery
  <2>1. CASE DiscoveryFails
    BY <1>2, <2>1, FailedDiscovery DEF ShouldSkipDiscovery
  <2>2. CASE pc' \in {"apply", "find"} /\ UNCHANGED <<svc, found, context, faults>>
    <3>1. DiscoveryInv'
      BY <1>2, <2>2 DEF ShouldSkipDiscovery, EtcdInv, DiscoveryInv
    <3>2. /\ pc' \in PC /\ svc' \in ServiceName \cup {None}
          /\ found' \subseteq Target /\ context' \in Context
      BY <2>2 DEF EtcdInv, TypeOK, PC
    <3>3. QED
      BY <1>2, <2>2, <3>1, <3>2, DiscoveryStep DEF ShouldSkipDiscovery
  <2>3. QED
    BY <1>2, <2>1, <2>2 DEF ShouldSkipDiscovery
<1>3. CASE FindService
  <2>1. CASE DiscoveryFails
    BY <1>3, <2>1, FailedDiscovery DEF FindService
  <2>2. CASE /\ svc' = FindETCDService(services)
             /\ pc' = IF svc' # None /\ services[svc'].metrics THEN "slices" ELSE "apply"
             /\ UNCHANGED <<found, context, faults>>
    <3>1. svc' \in ServiceName \cup {None} /\ pc' \in PC
      BY <2>2, FoundService DEF PC
    <3>2. DiscoveryInv'
      BY <1>3, <2>2, <3>1 DEF FindService, EtcdInv, DiscoveryInv
    <3>3. found' \subseteq Target /\ context' \in Context
      BY <2>2 DEF EtcdInv, TypeOK
    <3>4. QED
      BY <1>3, <2>2, <3>1, <3>2, <3>3, DiscoveryStep DEF FindService
  <2>3. QED
    BY <1>3, <2>1, <2>2 DEF FindService
<1>4. ASSUME NEW A \in SUBSET Address, pc \in {"slices", "legacy"}, svc' = svc,
             pc' \in {"legacy", "ca", "apply"}, found' = TargetsOf(A),
             UNCHANGED <<clusterVars, deployment, depSeen, queued, agent, context, changes, faults>>
      PROVE  EtcdInv'
  <2>1. svc \in ServiceName /\ context = NoContext
    BY <1>4 DEF EtcdInv, DiscoveryInv
  <2>2. found' \subseteq {svc} \X Address /\ found' \subseteq Target
    BY <1>4, <2>1 DEF TargetsOf, Target
  <2>3. DiscoveryInv'
    BY <1>4, <2>1, <2>2 DEF DiscoveryInv, NoContext
  <2>4. QED
    BY <1>4, <2>2, <2>3, DiscoveryStep DEF EtcdInv, TypeOK, PC
<1>5. CASE BuildTargetsFromEndpoints
  <2>1. CASE DiscoveryFails
    BY <1>5, <2>1, FailedDiscovery DEF BuildTargetsFromEndpoints
  <2>2. CASE /\ found' = TargetsOf(slices) /\ pc' \in {"legacy", "ca"}
             /\ UNCHANGED <<svc, context, faults>>
    BY <1>4, <1>5, <2>2 DEF BuildTargetsFromEndpoints, EtcdInv, TypeOK
  <2>3. QED
    BY <1>5, <2>1, <2>2 DEF BuildTargetsFromEndpoints
<1>6. CASE BuildTargetsFromLegacyEndpoints
  <2>1. CASE DiscoveryFails
    BY <1>6, <2>1, FailedDiscovery DEF BuildTargetsFromLegacyEndpoints
  <2>2. CASE /\ found' = TargetsOf(legacy) /\ pc' \in {"apply", "ca"}
             /\ UNCHANGED <<svc, context, faults>>
    BY <1>4, <1>6, <2>2 DEF BuildTargetsFromLegacyEndpoints, EtcdInv, TypeOK
  <2>3. QED
    BY <1>6, <2>1, <2>2 DEF BuildTargetsFromLegacyEndpoints
<1>7. CASE CreateDeploymentContext
  <2>1. caSecret \in BOOLEAN /\ found \subseteq Target
    BY DEF EtcdInv, TypeOK
  <2>2. context' \in Context /\ context'.targets \in {{}, found}
    BY <1>7, <2>1, ContextType DEF CreateDeploymentContext
  <2>3. DiscoveryInv'
    BY <1>7, <2>2 DEF CreateDeploymentContext, EtcdInv, DiscoveryInv
  <2>4. QED
    BY <1>7, <2>2, <2>3, DiscoveryStep DEF CreateDeploymentContext, EtcdInv, TypeOK, PC
<1>8. CASE ApplyDeployment
  <2>1. /\ pc' = "idle" /\ UNCHANGED <<clusterVars, depSeen, localVars, changes>>
        /\ queued' = queued \/ queued' = TRUE
        /\ faults' = faults \/ Fault
    BY <1>8 DEF ApplyDeployment
  <2>2. deployment' \in Deployment
    BY <1>8, BuiltType DEF ApplyDeployment, EtcdInv, TypeOK
  <2>3. faults' \in 0..MaxFaults
    BY <2>1, FaultType DEF EtcdInv, TypeOK
  <2>4. TypeOK'
    BY <2>1, <2>2, <2>3 DEF EtcdInv, TypeOK, PC, clusterVars, localVars
  <2>5. DiscoveryInv'
    BY <2>1 DEF EtcdInv, DiscoveryInv, localVars
  <2>6. QED
    BY <2>4, <2>5 DEF EtcdInv
<1>9. CASE ChangeCluster
  <2>1. changes' \in 0..MaxChanges
    BY <1>9, ChangeType DEF ChangeCluster, EtcdInv
  <2>2. services' \in Topologies /\ slices' \subseteq Address /\ legacy' \subseteq Address
    BY <1>9 DEF ChangeCluster, EtcdInv, TypeOK
  <2>3. caSecret' \in BOOLEAN
    BY Zenon, <1>9 DEF ChangeCluster, EtcdInv, TypeOK
  <2>4. TypeOK'
    BY <1>9, <2>1, <2>2, <2>3 DEF ChangeCluster, EtcdInv, TypeOK, localVars
  <2>5. DiscoveryInv'
    BY <1>9 DEF ChangeCluster, EtcdInv, DiscoveryInv, localVars
  <2>6. QED
    BY <2>4, <2>5 DEF EtcdInv
<1>10. CASE EditSpec
  <2>1. changes' \in 0..MaxChanges
    BY <1>10, ChangeType DEF EditSpec, EtcdInv
  <2>2. TypeOK'
    BY <1>10, <2>1 DEF EditSpec, EtcdInv, TypeOK, localVars
  <2>3. DiscoveryInv'
    BY <1>10 DEF EditSpec, EtcdInv, DiscoveryInv, localVars
  <2>4. QED
    BY <2>2, <2>3 DEF EtcdInv
<1>11. CASE RefreshDeployment \/ OtherEvent \/ UNCHANGED vars
  <2>1. TypeOK'
    BY <1>11 DEF RefreshDeployment, OtherEvent, EtcdInv, TypeOK, vars, clusterVars, localVars, boundVars
  <2>2. DiscoveryInv'
    BY <1>11 DEF RefreshDeployment, OtherEvent, EtcdInv, DiscoveryInv, vars, localVars
  <2>3. QED
    BY <2>1, <2>2 DEF EtcdInv
<1>12. QED
  BY <1>1, <1>2, <1>3, <1>5, <1>6, <1>7, <1>8, <1>9, <1>10, <1>11 DEF Next, Reconcile

(* The variables keep their types: in particular the API server never holds *)
(* a k8sensor Deployment with two variables ETCD_CA_FILE or two volumes     *)
(* etcd-ca, whatever the CR asks for and the discovery adds.                *)
THEOREM TypeCorrect == Spec => []TypeOK
<1>1. EtcdInv => TypeOK
  BY DEF EtcdInv
<1>2. QED
  BY InitEtcd, EtcdStep, <1>1, PTL DEF Spec

(* The targets of the k8sensor are of one source: of one Service, or of the *)
(* CR, even when the Service that is found changes between two reconciles   *)
(* or during one, or when the CR starts or stops naming targets.            *)
OneSource == \A t, u \in deployment.targets : t[1] = u[1]

LEMMA SourceStep == EtcdInv /\ OneSource /\ [Next]_vars => OneSource'
<1> SUFFICES ASSUME EtcdInv, OneSource, [Next]_vars PROVE OneSource'
  OBVIOUS
<1>1. CASE UNCHANGED deployment
  BY <1>1 DEF OneSource
<1>2. CASE ApplyDeployment
  <2>1. CASE deployment' = Built(agent, context)
    <3>1. deployment'.targets = etcdTargets(agent, context)
      BY <2>1 DEF Built
    <3>2. \A t, u \in agent.targets : t[1] = u[1]
      BY DEF EtcdInv, TypeOK, EtcdSpec
    <3>3. \A t, u \in context.targets : t[1] = u[1]
      BY DEF EtcdInv, DiscoveryInv
    <3>4. QED
      BY <3>1, <3>2, <3>3 DEF OneSource, etcdTargets
  <2>2. QED
    BY <1>1, <1>2, <2>1 DEF ApplyDeployment
<1>3. QED
  BY <1>1, <1>2 DEF Next, Reconcile, StartReconcile, ShouldSkipDiscovery, FindService,
     BuildTargetsFromEndpoints, BuildTargetsFromLegacyEndpoints, CreateDeploymentContext,
     ChangeCluster, EditSpec, RefreshDeployment, OtherEvent, vars

(* Discovered targets and the targets the CR names are never mixed in       *)
(* ETCD_TARGETS, nor are those of two Services.                             *)
THEOREM TargetsOfOneSource == Spec => []OneSource
<1>1. Init => OneSource
  BY DEF Init, OneSource, NoDeployment
<1>2. QED
  BY InitEtcd, EtcdStep, SourceStep, <1>1, PTL DEF Spec
=============================================================================
