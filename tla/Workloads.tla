------------------------------ MODULE Workloads ------------------------------
(***************************************************************************)
(* What the builders of AgentObjects and RemoteObjects make of a CR that   *)
(* changes while the operator works: a reconcile takes one value of the    *)
(* CR, applies its objects one by one, any of them may fail or the         *)
(* operator may die in between, and deletes what earlier values asked for. *)
(* The DaemonSets carry one thing over: whether they have                  *)
(* INSTANA_PERSIST_HOST_UNIQUE_ID is read back from the informer.          *)
(***************************************************************************)
EXTENDS RemoteObjects

CONSTANTS
    Specs,           \* the CRs a behaviour may start with
    Edited,          \* the features that are then changed
    OwnWritesSeen,   \* see WritesVisible
    MaxEdits,        \* bound: changes of the CR
    MaxEvents        \* bound: failing calls, restarts, DaemonSets deleted by hand

VARIABLES
    kind,       \* "agent" or "remote"
    spec,       \* the CR: the features it sets
    live,       \* the CR each object was last applied from
    hostId,     \* the DaemonSets that have the variable
    seen,       \* what the informer shows of the DaemonSets
    unseen,     \* DaemonSets the operator wrote and the informer has not seen
    recorded,   \* the dependents of the lifecycle ConfigMap
    pc, cur,    \* the CR the running reconcile works on
    read,       \* the DaemonSets it gives the variable
    todo,       \* the objects applyAll has still to apply
    failed,     \* an apply has failed
    edits, events

clusterVars == <<spec, live, hostId, seen, unseen>>
localVars == <<pc, cur, read, todo, failed>>
vars == <<kind, clusterVars, recorded, localVars, edits, events>>

ASSUME WorkloadsAssumption ==
    /\ Specs \subseteq SUBSET Feature /\ Edited \subseteq Feature
    /\ OwnWritesSeen \in BOOLEAN
    /\ MaxEdits \in Nat /\ MaxEvents \in Nat

Absent == {"absent"}
AnyObject == Object \cup RemoteObject
Elements(q) == {q[i] : i \in DOMAIN q}

TypeOK ==
    /\ kind \in {"agent", "remote"}
    /\ spec \in SUBSET Feature /\ cur \in SUBSET Feature
    /\ live \in [AnyObject -> (SUBSET Feature) \cup {Absent}]
    /\ hostId \subseteq DaemonSets /\ unseen \subseteq DaemonSets /\ read \subseteq DaemonSets
    /\ seen \in [DaemonSets -> {"absent", "with", "without"}]
    /\ recorded \subseteq AnyObject
    /\ pc \in {"idle", "apply", "cleanup"} /\ failed \in BOOLEAN
    /\ edits \in 0..MaxEdits /\ events \in 0..MaxEvents
-----------------------------------------------------------------------------
(* The builders of the two controllers.                                     *)
Wanted(s) == IF kind = "remote" THEN remoteBuildObjects(s) ELSE buildObjects(s)
DataOf(s, o) == IF kind = "remote" THEN remoteData(s, o) ELSE data(s, o)
VolumesOf(s, o) == IF kind = "remote" THEN remoteVolumes(s, o) ELSE volumes(s, o)
EnvOf(s, o) == IF kind = "remote" THEN remoteEnv(s, o) ELSE env(s, o)
ReferencesOf(s, o) == IF kind = "remote" THEN remoteReferences(s, o) ELSE References(s, o)

(* The server refuses lists in which a name comes twice, and a volume       *)
(* mounted at no path.                                                      *)
Accepts(s, o) ==
    LET e == EnvOf(s, o)
        vs == VolumesOf(s, o)
    IN  /\ \A i, j \in DOMAIN e : i # j => e[i] \cap e[j] = {}
        /\ \A v, w \in vs : v.name = w.name => v = w
        /\ \A v \in vs : v.dir # "none"

Lives(o) == live[o] # Absent
Observed(o) == IF ~Lives(o) THEN "absent" ELSE IF o \in hostId THEN "with" ELSE "without"

(* A new CR, or one whose objects an older operator has applied: it did not *)
(* know the variable.                                                       *)
Init ==
    /\ kind \in {"agent", "remote"}
    /\ spec \in Specs
    /\ \/ live = [o \in AnyObject |-> Absent] /\ recorded = {}
       \/ /\ live = [o \in AnyObject |-> IF o \in Elements(Wanted(spec)) THEN spec ELSE Absent]
          /\ recorded = Elements(Wanted(spec))
          /\ \A o \in Elements(Wanted(spec)) : Accepts(spec, o)
    /\ hostId = {} /\ seen = [o \in DaemonSets |-> Observed(o)] /\ unseen = {}
    /\ pc = "idle" /\ cur = {} /\ read = {} /\ todo = <<>> /\ failed = FALSE
    /\ edits = 0 /\ events = 0

Event == events < MaxEvents /\ events' = events + 1

Return == pc' = "idle" /\ cur' = {} /\ read' = {} /\ todo' = <<>> /\ failed' = FALSE
-----------------------------------------------------------------------------
UserEdit(f) ==
    /\ edits < MaxEdits
    /\ edits' = edits + 1
    /\ spec' = IF f \in spec THEN spec \ {f} ELSE spec \cup {f}
    /\ UNCHANGED <<kind, live, hostId, seen, unseen, recorded, localVars, events>>

DeleteByHand(o) ==
    /\ Event
    /\ Lives(o)
    /\ live' = [live EXCEPT ![o] = Absent]
    /\ hostId' = hostId \ {o}
    /\ UNCHANGED <<kind, spec, seen, unseen, recorded, localVars, edits>>

Refresh(o) ==
    /\ seen[o] # Observed(o) \/ o \in unseen
    /\ seen' = [seen EXCEPT ![o] = Observed(o)]
    /\ unseen' = unseen \ {o}
    /\ UNCHANGED <<kind, spec, live, hostId, recorded, localVars, edits, events>>
-----------------------------------------------------------------------------
(* Assumed where OwnWritesSeen: a DaemonSet applied in one reconcile is in  *)
(* the informer when the next one starts.                                   *)
WritesVisible == OwnWritesSeen => unseen = {}

(* Mutant: the variable is meant for every DaemonSet.                       *)
alwaysSetPersistHostUniqueIDEnvVar(o) == TRUE

(* A DaemonSet that is not there is a new deployment and gets the variable; *)
(* one that has it keeps it; one without it is an upgrade and stays so.     *)
shouldSetPersistHostUniqueIDEnvVar(o) == seen[o] # "without"

(* Mutant: the objects are sent without a dry run.                          *)
noDryRun(s) == TRUE

(* ApplyAll first sends every object as a dry run.                          *)
dryRunSucceeds(s) == \A o \in Elements(Wanted(s)) : Accepts(s, o)

(* The reconcile up to the first real Apply: the DaemonSets are looked up,  *)
(* any error but NotFound ends it, the dry run is made and the objects are  *)
(* recorded.                                                                *)
StartReconcile ==
    /\ pc = "idle"
    /\ WritesVisible
    /\ dryRunSucceeds(spec)
    /\ pc' = "apply"
    /\ cur' = spec
    /\ read' = {o \in DaemonSets : shouldSetPersistHostUniqueIDEnvVar(o)}
    /\ todo' = Wanted(spec)
    /\ recorded' = recorded \cup Elements(Wanted(spec))
    /\ UNCHANGED <<kind, clusterVars, failed, edits, events>>

(* A refused dry run ends the reconcile with an error, before any write;    *)
(* the controller tries again and again.                                    *)
FailDryRun ==
    /\ pc = "idle"
    /\ ~dryRunSucceeds(spec)
    /\ UNCHANGED vars

(* Mutant: every pod is given the variables of pod.env.                     *)
VariableOfAnyPod(o) == o \in read \/ "podHostId" \in cur

(* pod.env may set the variable as well.                                    *)
GetsVariable(o) == o \in DaemonSets /\ (o \in read \/ "podHostId" \in cur)

(* applyAll goes on after an error.                                         *)
ApplyObject ==
    /\ pc = "apply" /\ todo # <<>>
    /\ todo' = Tail(todo)
    /\ LET o == Head(todo)
       IN  \/ /\ Accepts(cur, o)
              /\ live' = [live EXCEPT ![o] = cur]
              /\ hostId' = IF GetsVariable(o) THEN hostId \cup {o} ELSE hostId \ {o}
              /\ unseen' = unseen \cup ({o} \cap DaemonSets)
              /\ UNCHANGED <<failed, events>>
           \/ /\ ~Accepts(cur, o)
              /\ failed' = TRUE
              /\ UNCHANGED <<live, hostId, unseen, events>>
           \/ /\ Event
              /\ failed' = TRUE
              /\ UNCHANGED <<live, hostId, unseen>>
    /\ UNCHANGED <<kind, spec, seen, recorded, pc, cur, read, edits>>

(* Mutant: an error of an apply is dropped.                                 *)
errorDropped == FALSE

applyFailed == failed

ApplyDone ==
    /\ pc = "apply" /\ todo = <<>>
    /\ IF applyFailed THEN Return ELSE pc' = "cleanup" /\ UNCHANGED <<cur, read, todo, failed>>
    /\ UNCHANGED <<kind, clusterVars, recorded, edits, events>>

(* Mutant: the objects to keep are those of the CR as it is by now.         *)
deprecatedByNewest == recorded \ Elements(Wanted(spec))

deprecatedDependents == recorded \ Elements(Wanted(cur))

(* CleanupDependents: what is recorded and not wanted is deleted; a failed  *)
(* delete keeps the record and requeues.                                    *)
CleanupDependents ==
    /\ pc = "cleanup"
    /\ \E D \in SUBSET deprecatedDependents :
         /\ live' = [o \in AnyObject |-> IF o \in D THEN Absent ELSE live[o]]
         /\ hostId' = hostId \ D
         /\ \/ /\ D = deprecatedDependents
               /\ recorded' = Elements(Wanted(cur))
               /\ UNCHANGED events
            \/ /\ D # deprecatedDependents /\ Event
               /\ UNCHANGED recorded
    /\ Return
    /\ UNCHANGED <<kind, spec, seen, unseen, edits>>

Restart ==
    /\ Event
    /\ pc # "idle"
    /\ Return
    /\ seen' = [o \in DaemonSets |-> Observed(o)] /\ unseen' = {}
    /\ UNCHANGED <<kind, spec, live, hostId, recorded, edits>>

Next ==
    \/ StartReconcile \/ FailDryRun \/ ApplyObject \/ ApplyDone \/ CleanupDependents \/ Restart
    \/ \E f \in Edited : UserEdit(f)
    \/ \E o \in DaemonSets : DeleteByHand(o) \/ Refresh(o)

Spec == Init /\ [][Next]_vars
-----------------------------------------------------------------------------
(* The objects of cur have all been applied.                                *)
AllApplied == pc = "cleanup"
Pods == {o \in Elements(Wanted(cur)) : o[1] \in {"daemonset", "sensor", "remote"} /\ live[o] = cur}

(* An InstanaAgentRemote with serviceAccount.create false still uses the    *)
(* account instana-agent-remote, which the user then has to provide.        *)
LeftToUser(o) == o = RemoteAccount /\ "serviceAccount" \notin cur

(* A CR may name the mount path of a CA and no Secret: the variable is set  *)
(* and the operator mounts nothing there.  With copied ETCD resources a CA  *)
(* of the CR takes the place of the copied one, and the variable goes on    *)
(* naming the directory of the latter.                                      *)
LeftUnmounted(s) ==
    When("etcdCA" \notin s, {"etcdMountPath"}) \cup When("restCA" \notin s, {"restMountPath"})
    \cup When(copiedEtcd(s) /\ "etcdCA" \in s, {"etcd-metrics-ca"})

MountedPaths(s, o) == {TokenDirectory} \cup {w.dir : w \in VolumesOf(s, o)}

(* Once the objects of a CR are applied, whatever was applied, half applied *)
(* or deleted before, every pod template finds what the operator is to      *)
(* provide: the objects it refers to, the entries it mounts or reads from   *)
(* them, and a volume behind every path in its variables but for those of   *)
(* LeftUnmounted.  Secrets the CR names are the user's, and the copies on   *)
(* OpenShift those of OpenShiftEtcd.                                        *)
ReferencesResolve ==
    AllApplied => \A o \in Pods :
        /\ \A r \in ReferencesOf(cur, o).objects \cap AnyObject :
              Lives(r) \/ LeftToUser(r)
        /\ \A e \in ReferencesOf(cur, o).entries :
              e[1] \in AnyObject => e[2] \in DataOf(live[e[1]], e[1])
        /\ \A v \in Names(EnvOf(cur, o)) :
              Paths(cur, v) \subseteq MountedPaths(cur, o) \cup LeftUnmounted(cur)

SecretFiles(o) ==
    UNION {IF v.items = {} THEN DataOf(live[v.object], v.object) ELSE {i[2] : i \in v.items} :
           v \in {w \in VolumesOf(cur, o) : w.dir = "secrets"}}

SecretVariables == {"INSTANA_AGENT_KEY", "AGENT_KEY", "HTTPS_PROXY"} \cup {File[c] : c \in Credential}

(* Reaches the container as a file with useSecretMounts, else as a variable. *)
Delivered(o, file, variable) ==
    IF "mounts" \in cur THEN file \in SecretFiles(o) ELSE variable \in Names(EnvOf(cur, o))

Relevant == {c \in Credential \cap cur :
               "keysSecret" \notin cur /\ (c \in {"proxyUser", "proxyPassword"} => "proxyHost" \in cur)}

(* useSecretMounts moves every credential from the variables to files and   *)
(* back, whatever the Secret held before: each credential of the CR reaches *)
(* the agent, key and proxy reach each k8sensor under the file name its     *)
(* arguments give, and no variable holds a secret when files do.  Of a      *)
(* Secret of the user (keysSecret) only the keys, and the proxy of the      *)
(* k8sensor, are mounted: Relevant leaves its other credentials out.        *)
CredentialsDelivered ==
    AllApplied => \A o \in Pods :
        LET agent == o[1] \in {"daemonset", "remote"}
        IN  /\ agent => /\ Delivered(o, <<"INSTANA_AGENT_KEY", "none">>, "INSTANA_AGENT_KEY")
                        /\ \A c \in Relevant : Delivered(o, <<File[c], "none">>, File[c])
            /\ o[1] = "sensor" =>
                 /\ Delivered(o, <<"INSTANA_AGENT_KEY", o[2]>>, "AGENT_KEY")
                 /\ "proxyHost" \in cur => Delivered(o, <<"HTTPS_PROXY", "none">>, "HTTPS_PROXY")
                 /\ getK8SensorArgs(cur, o[2]) \subseteq SecretFiles(o)
            /\ "mounts" \in cur => Names(EnvOf(cur, o)) \cap SecretVariables = {}
            /\ o[1] \in {"daemonset", "remote"} =>
                 {<<"Backend.cfg", b>> : b \in Backends(cur)}
                   \subseteq DataOf(live[<<"config", "none">>], <<"config", "none">>)

(* Deleting what earlier CRs asked for never takes away an object a pod of  *)
(* the present CR refers to.                                                *)
CleanupKeepsReferenced ==
    [][pc = "cleanup" => \A w \in Pods, o \in AnyObject :
          Lives(o) /\ ~Lives(o)' => o \notin ReferencesOf(cur, w).objects \/ LeftToUser(o)]_vars

(* A CR the server rejects in part is rejected as a whole: no object of it  *)
(* replaces one that works.                                                 *)
RejectedAsAWhole ==
    \A s \in {live[o] : o \in AnyObject} \ {Absent} : \A p \in Elements(Wanted(s)) : Accepts(s, p)

(* The upgrade rule: a DaemonSet keeps INSTANA_PERSIST_HOST_UNIQUE_ID for   *)
(* as long as it exists, and one without it gets it only from pod.env.      *)
HostIdStable ==
    [][\A o \in DaemonSets : Lives(o) /\ Lives(o)' =>
          /\ o \in hostId => o \in hostId'
          /\ o \in hostId' \ hostId => "podHostId" \in cur]_vars
=============================================================================
