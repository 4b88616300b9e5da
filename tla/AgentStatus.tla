----------------------------- MODULE AgentStatus -----------------------------
(***************************************************************************)
(* pkg/k8s/operator/status and what feeds it: every reconcile of an        *)
(* InstanaAgent or InstanaAgentRemote ends by computing a status from the  *)
(* copy of the CR it started with, from the error it is about to return    *)
(* and from cached DaemonSets and Deployments, and by sending the          *)
(* difference to that copy as a merge patch.  Nothing polls: changes of    *)
(* the workloads reach the status through events that pass the filter of   *)
(* controllers/event_filter.go, errors through the requeue.                *)
(***************************************************************************)
EXTENDS Naturals, Sequences

CONSTANTS
    DaemonSet,    \* the DaemonSets of an InstanaAgent, one per zone
    Sensor,       \* its k8sensor Deployments, a sequence: one per backend
    DaemonSetStatuses, DeploymentStatuses,  \* what Kubernetes reports of them
    Version,      \* operator versions
    Installed,    \* those that may run first
    SemVer,       \* those that parse as semantic versions
    Rejected,     \* generations whose objects the dry run rejects
    StatusSeen,   \* see OwnWriteVisible
    MaxGen,       \* bound: highest metadata.generation
    MaxEvents     \* bound: failing calls, panics, restarts, reports on workloads

VARIABLES
    kind,         \* which of the two CRs and managers this is
    ver,          \* version of the running operator
    cr, crSeen,   \* the CR on the server and in the informer
    objs, seen,   \* the workloads there and in the informer
    queued, pc,
    old,          \* agentOld: the CR as this reconcile read it
    built,        \* the builders have registered their objects
    outcome,      \* how the body of the reconcile ended
    requeue,      \* its result asks for another reconcile
    new,          \* the status UpdateAgentStatus has computed
    statusErr,    \* its errBuilder is not empty
    patched,      \* the patch of the last reconcile reached the server
    events        \* how many of the events of MaxEvents have happened

cacheVars == <<crSeen, seen>>
localVars == <<old, built, outcome, requeue, new, statusErr>>
vars == <<kind, ver, cr, objs, cacheVars, queued, pc, localVars, patched, events>>
-----------------------------------------------------------------------------
Range(s) == {s[i] : i \in 1..Len(s)}
RemoteDeployment == "remoteDeployment"
Workload == DaemonSet \cup Range(Sensor) \cup {RemoteDeployment}

(* The comparisons daemonsetIsAvailable makes, and the conditions of a      *)
(* Deployment.                                                              *)
DsStatus == [observed: BOOLEAN, misscheduled: BOOLEAN, available: BOOLEAN, updated: BOOLEAN]
DepStatus == [observed: BOOLEAN, available: BOOLEAN, complete: BOOLEAN, failure: BOOLEAN]

ASSUME StatusAssumption ==
    /\ DaemonSet # {} /\ Sensor # <<>>
    /\ DaemonSet \cap Range(Sensor) = {} /\ RemoteDeployment \notin DaemonSet \cup Range(Sensor)
    /\ DaemonSetStatuses \subseteq DsStatus /\ DeploymentStatuses \subseteq DepStatus
    /\ SemVer \subseteq Version /\ Installed \subseteq Version /\ Version # {} /\ "none" \notin Version
    /\ StatusSeen \in BOOLEAN
    /\ MaxGen \in Nat \ {0} /\ MaxEvents \in Nat

Gen == 1..MaxGen
Condition == {"ReconcileSucceeded", "AllAgentsAvailable", "AllK8sSensorsAvailable"}
NoCondition == [status |-> "none", gen |-> 0]

(* observed: status.observedGeneration; oldUpdated: oldVersionsUpdated;     *)
(* info: the deprecated fields that name the DaemonSet or Deployment, the   *)
(* configuration Secret and the namespaces ConfigMap.                       *)
Status == [phase: {"none", "Running", "Failed"}, observed: 0..MaxGen,
           version: Version \cup {"none"}, oldUpdated: BOOLEAN,
           info: SUBSET {"workload", "config", "namespaces"},
           conditions: [Condition -> [status: {"none", "True", "False", "Unknown"}, gen: 0..MaxGen]]]

NoStatus == [phase |-> "none", observed |-> 0, version |-> "none", oldUpdated |-> FALSE,
             info |-> {}, conditions |-> [c \in Condition |-> NoCondition]]

(* sensor: k8s_sensor.deployment.enabled is not false.                      *)
CR == [exists: BOOLEAN, gen: Gen, deleting: BOOLEAN, finalizer: BOOLEAN,
       sensor: BOOLEAN, status: Status]
NoCR == [exists |-> FALSE, gen |-> 1, deleting |-> FALSE, finalizer |-> FALSE,
         sensor |-> TRUE, status |-> NoStatus]

(* gen: the generation of the CR it was built from; foreign: the managed    *)
(* fields show another manager at a later second than the operator.         *)
Object == [exists: BOOLEAN, gen: 0..MaxGen, status: DsStatus \cup DepStatus, foreign: BOOLEAN]

ZeroDs == [observed |-> FALSE, misscheduled |-> FALSE, available |-> TRUE, updated |-> TRUE]
ZeroDep == [observed |-> FALSE, available |-> FALSE, complete |-> FALSE, failure |-> FALSE]
ZeroStatus(o) == IF o \in DaemonSet THEN ZeroDs ELSE ZeroDep
Absent(o) == [exists |-> FALSE, gen |-> 0, status |-> ZeroStatus(o), foreign |-> FALSE]

TypeOK ==
    /\ kind \in {"agent", "remote"} /\ ver \in Version
    /\ cr \in CR /\ crSeen \in CR /\ old \in CR
    /\ objs \in [Workload -> Object] /\ seen \in [Workload -> Object]
    /\ queued \in BOOLEAN /\ pc \in {"idle", "reconcile", "status", "patch"}
    /\ built \in BOOLEAN /\ outcome \in {"none", "ok", "failed", "panic"} /\ requeue \in BOOLEAN
    /\ new \in Status /\ statusErr \in BOOLEAN /\ patched \in BOOLEAN
    /\ events \in 0..MaxEvents

Init ==
    /\ kind \in {"agent", "remote"} /\ ver \in Installed
    /\ cr \in {[NoCR EXCEPT !.exists = TRUE, !.sensor = s] : s \in BOOLEAN}
    /\ crSeen = cr
    /\ objs = [o \in Workload |-> Absent(o)] /\ seen = objs
    /\ queued = TRUE /\ pc = "idle"
    /\ old = NoCR /\ built = FALSE /\ outcome = "none" /\ requeue = FALSE
    /\ new = NoStatus /\ statusErr = FALSE /\ patched = FALSE
    /\ events = 0

Event == events < MaxEvents /\ events' = events + 1
-----------------------------------------------------------------------------
(* The informers and their events.                                          *)

(* Mutant: the status of a workload is nobody's business.                   *)
neverModifiedByOther(o) == FALSE

(* wasModifiedByOther compares times of whole seconds with Before.          *)
wasModifiedByOther(o) == o.foreign

(* filterPredicate and filterPredicateRemote, which differ in the type only. *)
(* A workload just created by the operator is not foreign; deletions pass.   *)
passesFilterCR(a, b) == a.exists # b.exists \/ a.gen # b.gen
passesFilter(b) == b.exists => wasModifiedByOther(b)

RefreshCR ==
    /\ crSeen # cr
    /\ crSeen' = cr
    /\ queued' = (queued \/ passesFilterCR(crSeen, cr))
    /\ UNCHANGED <<kind, ver, cr, objs, seen, pc, localVars, patched, events>>

(* One informer per kind of workload.                                       *)
RefreshObjects(K) ==
    /\ \E o \in K : seen[o] # objs[o]
    /\ seen' = [o \in Workload |-> IF o \in K THEN objs[o] ELSE seen[o]]
    /\ queued' = (queued \/ \E o \in K : seen[o] # objs[o] /\ passesFilter(objs[o]))
    /\ UNCHANGED <<kind, ver, cr, crSeen, objs, pc, localVars, patched, events>>

(* Kubernetes reports on a workload, in the second of the operator's last   *)
(* write or in a later one.                                                 *)
KubeStatus(o) ==
    /\ Event
    /\ objs[o].exists
    /\ \E s \in (IF o \in DaemonSet THEN DaemonSetStatuses ELSE DeploymentStatuses) \ {objs[o].status},
          later \in BOOLEAN :
          objs' = [objs EXCEPT ![o].status = s, ![o].foreign = @ \/ later]
    /\ UNCHANGED <<kind, ver, cr, cacheVars, queued, pc, localVars, patched>>

UserEdit ==
    /\ cr.exists /\ ~cr.deleting /\ cr.gen < MaxGen
    /\ \E s \in BOOLEAN : cr' = [cr EXCEPT !.gen = @ + 1, !.sensor = s]
    /\ UNCHANGED <<kind, ver, objs, cacheVars, queued, pc, localVars, patched, events>>

UserDelete ==
    /\ cr.exists /\ ~cr.deleting /\ cr.gen < MaxGen
    /\ cr' = IF cr.finalizer THEN [cr EXCEPT !.deleting = TRUE, !.gen = @ + 1]
                             ELSE [cr EXCEPT !.exists = FALSE]
    /\ UNCHANGED <<kind, ver, objs, cacheVars, queued, pc, localVars, patched, events>>
-----------------------------------------------------------------------------
(* The body of a reconcile, as far as the status depends on it.             *)

(* Assumed where StatusSeen: the status a reconcile has written is in the   *)
(* cache when the next one starts.                                          *)
OwnWriteVisible == StatusSeen => crSeen.status = cr.status

StartReconcile ==
    /\ pc = "idle" /\ queued
    /\ OwnWriteVisible
    /\ queued' = FALSE
    /\ IF crSeen.exists THEN pc' = "reconcile" /\ old' = crSeen ELSE UNCHANGED <<pc, old>>
    /\ UNCHANGED <<kind, ver, cr, objs, cacheVars, built, outcome, requeue, new, statusErr,
                   patched, events>>

Ends(how, again) == pc' = "status" /\ outcome' = how /\ requeue' = again

(* A failing call, or a panic.  Reconcile defers recovery.Catch before the  *)
(* status update, so the status is written first and sees no error.         *)
EndsBadly == Event /\ (Ends("failed", FALSE) \/ Ends("panic", FALSE))

(* updateAgent on a CR that is gone: a success for one controller, a        *)
(* failure for the other.                                                   *)
PatchFinalizer(c) ==
    \/ cr.exists /\ cr' = c /\ Ends("ok", TRUE) /\ UNCHANGED events
    \/ ~cr.exists /\ Ends(IF kind = "agent" THEN "ok" ELSE "failed", FALSE) /\ UNCHANGED <<cr, events>>
    \/ EndsBadly /\ UNCHANGED cr

(* addOrUpdateFinalizers where the finalizer is missing: no builder has run. *)
AddFinalizer ==
    /\ pc = "reconcile" /\ ~old.deleting /\ ~old.finalizer
    /\ PatchFinalizer([cr EXCEPT !.finalizer = TRUE])
    /\ UNCHANGED <<kind, ver, objs, cacheVars, queued, old, built, new, statusErr, patched>>

(* handleDeletion: the dependents go before the finalizer.                  *)
HandleDeletion ==
    /\ pc = "reconcile" /\ old.deleting
    /\ \/ /\ objs' = [o \in Workload |-> Absent(o)]
          /\ PatchFinalizer([cr EXCEPT !.exists = FALSE])
       \/ EndsBadly /\ UNCHANGED <<cr, objs>>
    /\ UNCHANGED <<kind, ver, cacheVars, queued, old, built, new, statusErr, patched>>

Agents == IF kind = "agent" THEN DaemonSet ELSE {RemoteDeployment}
Desired == Agents \cup (IF kind = "agent" /\ old.sensor THEN Range(Sensor) ELSE {})

(* A server-side apply that changes nothing leaves the managed fields alone. *)
Applied(o) ==
    IF o \notin Desired THEN Absent(o)
    ELSE IF objs[o].exists /\ objs[o].gen = old.gen THEN objs[o]
    ELSE [exists |-> TRUE, gen |-> old.gen, foreign |-> FALSE,
          status |-> [objs[o].status EXCEPT !.observed = FALSE]]

(* applyResources.  An error may come before the builders run, from the dry *)
(* run, or when some of the objects are applied.                            *)
ReconcileApply ==
    /\ pc = "reconcile" /\ ~old.deleting /\ old.finalizer
    /\ \/ /\ old.gen \notin Rejected
          /\ objs' = [o \in Workload |-> Applied(o)]
          /\ built' = TRUE
          /\ Ends("ok", FALSE) /\ UNCHANGED events
       \/ /\ old.gen \in Rejected
          /\ built' = TRUE
          /\ Ends("failed", FALSE) /\ UNCHANGED <<objs, events>>
       \/ /\ EndsBadly
          /\ \/ built' = FALSE /\ UNCHANGED objs
             \/ /\ old.gen \notin Rejected
                /\ built' = TRUE
                /\ \E S \in SUBSET Desired :
                      objs' = [o \in Workload |-> IF o \in S THEN Applied(o) ELSE objs[o]]
    /\ UNCHANGED <<kind, ver, cr, cacheVars, queued, old, new, statusErr, patched>>
-----------------------------------------------------------------------------
(* UpdateAgentStatus.                                                       *)

daemonsetIsAvailable(s) == s.observed /\ ~s.misscheduled /\ s.available /\ s.updated

deploymentIsAvailableAndComplete(s) == s.observed /\ s.available /\ s.complete /\ ~s.failure

Available(o, w) ==
    IF o \in DaemonSet THEN daemonsetIsAvailable(w.status)
                       ELSE deploymentIsAvailableAndComplete(w.status)

Reported == outcome = "failed"   \* reconcileErr is not nil

Cond(s) == [status |-> s, gen |-> old.gen]
Truth(b) == Cond(IF b THEN "True" ELSE "False")

getReconcileSucceededCondition == Truth(~Reported)

(* AddAgentDaemonset and AddAgentDeployment collect the keys while building. *)
agentKeys == IF built THEN Agents ELSE {}

(* A key that is not in the cache, or whose read fails, makes the condition *)
(* Unknown.  Without any key only the remote manager reports False.         *)
agentInfoMissing(F) == "agents" \in F \/ \E o \in agentKeys : ~seen[o].exists

getAllAgentsAvailableCondition(F) ==
    IF agentKeys # {} /\ agentInfoMissing(F) THEN Cond("Unknown")
    ELSE Truth(/\ \A o \in agentKeys : Available(o, seen[o])
               /\ kind = "remote" => agentKeys # {})

(* SetK8sSensorDeployment keeps the last key.                               *)
k8sSensorDeployment == Sensor[Len(Sensor)]

sensorInfoMissing(F) == built /\ ("sensor" \in F \/ ~seen[k8sSensorDeployment].exists)

(* A disabled k8sensor is reported as a failure, like a failing read: the   *)
(* condition is left as it was.                                             *)
sensorFails(F) == kind = "agent" /\ (~old.sensor \/ sensorInfoMissing(F))

getAllK8sSensorsAvailableCondition ==
    IF ~built THEN Cond("Unknown")
    ELSE Truth(Available(k8sSensorDeployment, seen[k8sSensorDeployment]))

updateWasPerformed(a) ==
    /\ a.status.observed # 0
    /\ \/ a.status.observed # a.gen
       \/ a.status.version # "none" /\ (ver \notin SemVer \/ a.status.version # ver)

(* getDaemonSet or getDeployment, getConfigSecret, getNamespacesConfigMap:  *)
(* empty without a key (of several DaemonSets none is named), unchanged if  *)
(* the read fails.                                                          *)
infoKeys ==
    IF ~built THEN {}
    ELSE (IF kind = "agent" THEN {"config", "namespaces"} ELSE {"config"})
            \cup {w \in {"workload"} : \A a, b \in Agents : a = b}

infoFails(F) ==
    infoKeys # {} /\ ("info" \in F \/ ("workload" \in infoKeys /\ agentInfoMissing(F)))

UpdatedConditions(F) ==
    [c \in Condition |->
        CASE c = "ReconcileSucceeded" -> getReconcileSucceededCondition
          [] c = "AllAgentsAvailable" -> getAllAgentsAvailableCondition(F)
          [] c = "AllK8sSensorsAvailable" ->
                IF kind = "remote" \/ sensorFails(F) THEN old.status.conditions[c]
                ELSE getAllK8sSensorsAvailableCondition]

getAgentPhase == IF kind = "remote" THEN "none" ELSE IF Reported THEN "Failed" ELSE "Running"

(* Mutant: the flag is recomputed every time.                               *)
FlagRecomputed(F) ==
    [old.status EXCEPT !.phase = getAgentPhase, !.observed = old.gen, !.oldUpdated = updateWasPerformed(old),
                       !.conditions = UpdatedConditions(F)]

(* Mutant: the generation is counted on.                                    *)
ObservedNext(F) ==
    [old.status EXCEPT !.phase = getAgentPhase, !.observed = old.gen + 1, !.conditions = UpdatedConditions(F)]

(* agentWithUpdatedStatus and InstanaAgentRemoteWithUpdatedStatus; the      *)
(* latter knows no phase and no oldVersionsUpdated.                         *)
UpdatedStatus(F) ==
    [phase      |-> getAgentPhase,
     observed   |-> old.gen,
     version    |-> IF ver \in SemVer THEN ver ELSE old.status.version,
     oldUpdated |-> old.status.oldUpdated \/ (kind = "agent" /\ updateWasPerformed(old)),
     info       |-> IF infoFails(F) THEN old.status.info ELSE infoKeys,
     conditions |-> UpdatedConditions(F)]

(* F: the reads that fail although the objects are there.                   *)
ComputeStatus ==
    /\ pc = "status"
    /\ \E F \in SUBSET {"agents", "sensor", "info"} :
          /\ IF F = {} THEN UNCHANGED events ELSE Event
          /\ new' = UpdatedStatus(F)
          /\ statusErr' = (\/ agentKeys # {} /\ agentInfoMissing(F)
                           \/ sensorFails(F)
                           \/ infoFails(F))
    /\ pc' = "patch"
    /\ UNCHANGED <<kind, ver, cr, objs, cacheVars, queued, old, built, outcome, requeue,
                   patched>>

(* Mutant: the status is written only when the phase changes.               *)
MergedOnNewPhase(server, a, b) == IF b.phase = a.phase THEN server ELSE b

(* client.MergeFrom: the patch holds the fields, and conditions as a whole, *)
(* in which the new status differs from the copy it was computed from.      *)
Merged(server, a, b) == [f \in DOMAIN server |-> IF b[f] = a[f] THEN server[f] ELSE b[f]]

(* Mutant: an error of the status update is logged only.                    *)
FinishQuietly(patchErr) ==
    /\ pc' = "idle"
    /\ queued' = (queued \/ requeue \/ outcome # "ok")
    /\ old' = NoCR /\ built' = FALSE /\ requeue' = FALSE /\ new' = NoStatus /\ statusErr' = FALSE
    /\ UNCHANGED <<kind, ver, objs, cacheVars, outcome>>

(* Returns to the queue with the errors of the body and of the status; a    *)
(* panic is an error by now.                                                *)
Finish(patchErr) ==
    /\ pc' = "idle"
    /\ queued' = (queued \/ requeue \/ outcome # "ok" \/ statusErr \/ patchErr)
    /\ old' = NoCR /\ built' = FALSE /\ requeue' = FALSE /\ new' = NoStatus /\ statusErr' = FALSE
    /\ UNCHANGED <<kind, ver, objs, cacheVars, outcome>>

(* A CR that is gone is an error for the remote manager only.               *)
PatchStatus ==
    /\ pc = "patch"
    /\ \/ /\ cr.exists
          /\ cr' = [cr EXCEPT !.status = Merged(@, old.status, new)]
          /\ patched' = TRUE
          /\ Finish(FALSE) /\ UNCHANGED events
       \/ /\ ~cr.exists
          /\ patched' = FALSE
          /\ Finish(kind = "remote") /\ UNCHANGED <<cr, events>>
       \/ /\ Event
          /\ patched' = FALSE
          /\ Finish(TRUE) /\ UNCHANGED cr

Restart(v) ==
    /\ Event
    /\ ver' = v
    /\ crSeen' = cr /\ seen' = objs
    /\ queued' = cr.exists
    /\ pc' = "idle"
    /\ old' = NoCR /\ built' = FALSE /\ outcome' = "none" /\ requeue' = FALSE
    /\ new' = NoStatus /\ statusErr' = FALSE /\ patched' = FALSE
    /\ UNCHANGED <<kind, cr, objs>>
-----------------------------------------------------------------------------
Reconcile ==
    StartReconcile \/ AddFinalizer \/ HandleDeletion \/ ReconcileApply \/ ComputeStatus \/ PatchStatus

Informers == {DaemonSet, Workload \ DaemonSet}

Refresh == RefreshCR \/ \E K \in Informers : RefreshObjects(K)

Next ==
    \/ Reconcile \/ Refresh
    \/ UserEdit \/ UserDelete
    \/ \E o \in Workload : KubeStatus(o)
    \/ \E v \in Version : Restart(v)

Spec == Init /\ [][Next]_vars

(* The worker runs and the informers catch up.                              *)
FairSpec == Spec /\ WF_vars(Reconcile) /\ WF_vars(RefreshCR)
                 /\ \A K \in Informers : WF_vars(RefreshObjects(K))
-----------------------------------------------------------------------------
Is(c, s) == cr.status.conditions[c].status = s

(* Between two reconciles the status tells how the last one ended, provided *)
(* its patch arrived: ReconcileSucceeded and the phase are those of its     *)
(* error, although only differences to a cached copy are sent.  What a      *)
(* panicked reconcile has written, see SomeMessageHolds, is not left to     *)
(* stand: another reconcile is queued that will overwrite it.               *)
OutcomeReported ==
    pc = "idle" /\ patched /\ cr.exists =>
        \/ outcome = "panic" /\ queued
        \/ /\ outcome = "failed"
           /\ Is("ReconcileSucceeded", "False") /\ (kind = "agent" => cr.status.phase = "Failed")
        \/ /\ outcome = "ok"
           /\ Is("ReconcileSucceeded", "True") /\ (kind = "agent" => cr.status.phase = "Running")

(* However stale the copies are, observedGeneration never goes back and     *)
(* oldVersionsUpdated, once set, stays.                                     *)
StatusAdvances ==
    [][/\ cr'.status.observed >= cr.status.observed
       /\ cr.status.oldUpdated => cr'.status.oldUpdated]_vars

Live == cr.exists /\ ~cr.deleting

(* Once Kubernetes has reported on the workloads in a later second than the *)
(* operator wrote them, the conditions are right and stay right:            *)
(* AllAgentsAvailable is True iff all DaemonSets are available.  While the  *)
(* k8sensor is enabled, AllK8sSensorsAvailable is True if the Deployments   *)
(* of all backends are available and not True if that of the last backend   *)
(* is not; what it says when only another one is unavailable is the matter  *)
(* of SomeMessageHolds.                                                     *)
ConditionsFollow ==
    <>[](Live =>
          /\ (\A o \in Agents : objs[o].foreign) =>
                (Is("AllAgentsAvailable", "True") <=> \A o \in Agents : Available(o, objs[o]))
          /\ kind = "agent" /\ cr.sensor /\ objs[k8sSensorDeployment].foreign =>
                /\ (\A o \in Range(Sensor) : Available(o, objs[o])) => Is("AllK8sSensorsAvailable", "True")
                /\ Is("AllK8sSensorsAvailable", "True") => Available(k8sSensorDeployment, objs[k8sSensorDeployment]))

(* Faults, panics and crashes are overcome: in the end the status is that   *)
(* of the latest generation and says whether it could be applied, and,      *)
(* unless it is rejected or the k8sensor of an InstanaAgent is disabled,    *)
(* the controller comes to rest.                                            *)
Recovers ==
    <>[](Live =>
          /\ cr.status.observed = cr.gen
          /\ Is("ReconcileSucceeded", IF cr.gen \in Rejected THEN "False" ELSE "True")
          /\ cr.gen \notin Rejected /\ (kind = "agent" => cr.sensor) => pc = "idle" /\ ~queued)

(* The messages of two conditions, "most recent reconcile of agent CR       *)
(* completed without issue" and "All desired k8sensors are available", are  *)
(* never both false of what UpdateAgentStatus has just looked at: the       *)
(* outcome of this reconcile and the Deployments of all backends.           *)
SomeMessageHolds ==
    [][pc = "status" /\ pc' = "patch" /\ kind = "agent" /\ built =>
          \/ new'.conditions["ReconcileSucceeded"].status = "True" => outcome = "ok"
          \/ new'.conditions["AllK8sSensorsAvailable"].status = "True"
                => \A o \in Range(Sensor) : Available(o, seen[o])]_vars

(* A CR whose generation can be applied comes to rest, with or without a    *)
(* k8sensor: skipping its condition is not an error.                        *)
SkippedSensorIsNoError == <>[](Live /\ cr.gen \notin Rejected => pc = "idle" /\ ~queued)
=============================================================================
