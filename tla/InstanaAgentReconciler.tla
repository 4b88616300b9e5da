----------------------- MODULE InstanaAgentReconciler ------------------------
(***************************************************************************)
(* controllers/instanaagent_controller.go and the files it calls: one      *)
(* worker takes the CR from the queue, reads it from the informer cache,   *)
(* handles deletion, settles the finalizers and applies the dependents     *)
(* through operator_utils.ApplyAll and the DependentLifecycleManager.      *)
(***************************************************************************)
EXTENDS DependentLifecycleManager

CONSTANT Rejected   \* generations whose objects the dry run rejects

VARIABLE helmRelease   \* the 2.x Helm release is still installed

vars == <<clusterVars, ver, pc, localVars, helmRelease>>

ASSUME RejectedAssumption == Rejected \subseteq Gen

PC == {"idle", "helm", "removeV1", "addFinalizer", "dryRun", "update", "updateApply",
       "apply", "cleanup", "cleanupKeys", "verifyDeletion", "removeFinalizer"}

TypeOK ==
    /\ ClusterTypeOK
    /\ ver \in Version
    /\ pc \in PC
    /\ agent \in Agent
    /\ local \in ConfigMap /\ localCurrent \in BOOLEAN
    /\ attempt \in 0..(Attempts - 1)
    /\ todo \subseteq Object
    /\ keys \subseteq Key /\ visiting \subseteq Key
    /\ failed \in BOOLEAN
    /\ helmRelease \in BOOLEAN

Init ==
    /\ ClusterInit
    /\ ver \in Version
    /\ pc = "idle"
    /\ agent = NoAgent
    /\ local = Missing /\ localCurrent = FALSE
    /\ attempt = 0 /\ todo = {} /\ keys = {} /\ visiting = {} /\ failed = FALSE
    /\ helmRelease = ("v1" \in cr.finalizers)
-----------------------------------------------------------------------------
(* Mutant: updates of the CR never pass the filter.                         *)
passesOnExistence(old, new) == old.exists # new.exists

(* filterPredicate: the CR passes on creation, on a new generation and on   *)
(* its removal, not when only finalizers or status changed.                 *)
passesFilter(old, new) == old.exists # new.exists \/ old.gen # new.gen

(* The informer of InstanaAgents catches up.                                *)
RefreshAgent ==
    /\ crCache # cr
    /\ crCache' = cr
    /\ queued' = (queued \/ passesFilter(crCache, cr))
    /\ UNCHANGED <<serverVars, cmCache, cacheCurrent, boundVars, ver, pc, localVars, helmRelease>>

(* Assumed where CreationSeen: a ConfigMap created in one reconcile is in   *)
(* the cache when the next one starts.                                      *)
RecordVisible == CreationSeen /\ lifecycleCm.exists => cmCache.exists

(* Mutant: the dependents are applied without waiting for finalizerV3.      *)
FinalizerSkipped(a) == IF "v1" \in a.finalizers THEN "helm" ELSE "dryRun"

(* Where reconcile goes with the CR it has read: handleDeletion under       *)
(* deletion, else addOrUpdateFinalizers, else on to applyResources.         *)
handleDeletion(a) ==
    IF "v1" \in a.finalizers THEN "helm"
    ELSE IF "v3" \in a.finalizers THEN "cleanup" ELSE "idle"

addOrUpdateFinalizers(a) ==
    IF "v1" \in a.finalizers THEN "helm"
    ELSE IF "v3" \in a.finalizers THEN "dryRun" ELSE "addFinalizer"

NextStep(a) == IF a.deleting THEN handleDeletion(a) ELSE addOrUpdateFinalizers(a)

StartReconcile ==
    /\ pc = "idle" /\ queued
    /\ RecordVisible
    /\ queued' = FALSE
    /\ IF crCache.exists /\ NextStep(crCache) # "idle"
       THEN agent' = crCache /\ pc' = NextStep(crCache)
       ELSE UNCHANGED <<agent, pc>>
    /\ UNCHANGED <<serverVars, cacheVars, boundVars, ver, helmRelease,
                   local, localCurrent, attempt, todo, keys, visiting, failed>>
-----------------------------------------------------------------------------
(* Mutant: an error of the uninstall is ignored.                            *)
HelmErrorIgnored ==
    /\ pc = "helm"
    /\ helmRelease' = FALSE \/ (helmRelease' = helmRelease)
    /\ pc' = "removeV1"
    /\ UNCHANGED <<clusterVars, ver, localVars>>

(* cleanupHelmChart: a release that is not found counts as removed.         *)
CleanupHelmChart ==
    /\ pc = "helm"
    /\ \/ /\ helmRelease' = FALSE
          /\ pc' = "removeV1"
          /\ UNCHANGED <<queued, localVars, faults>>
       \/ /\ Fault
          /\ Return(TRUE)
          /\ UNCHANGED helmRelease
    /\ UNCHANGED <<serverVars, cacheVars, restarts, ver>>

(* updateAgent: a merge patch computed from the copy this reconcile read;   *)
(* success asks for another reconcile, a CR that is gone counts as success. *)
updateAgent(F) ==
    /\ \/ /\ cr.exists
          /\ cr.deleting => F \subseteq cr.finalizers
          /\ cr' = PatchedFinalizers(F)
          /\ Return(TRUE)
          /\ UNCHANGED faults
       \/ /\ cr.exists
          /\ cr.deleting /\ ~(F \subseteq cr.finalizers)
          /\ Return(TRUE)
          /\ UNCHANGED <<cr, faults>>
       \/ /\ ~cr.exists
          /\ Return(FALSE)
          /\ UNCHANGED <<cr, faults>>
       \/ /\ Fault
          /\ Return(TRUE)
          /\ UNCHANGED cr
    /\ UNCHANGED <<objs, terminating, lifecycleCm, cacheVars, restarts, ver, helmRelease>>

RemoveHelmFinalizer == pc = "removeV1" /\ updateAgent(agent.finalizers \ {"v1"})

AddFinalizer == pc = "addFinalizer" /\ updateAgent(agent.finalizers \cup {"v3"})

RemoveFinalizer == pc = "removeFinalizer" /\ updateAgent(agent.finalizers \ {"v3"})
-----------------------------------------------------------------------------
(* ApplyAll starts with a dry run of every object; any error ends the       *)
(* reconcile before the first write.                                        *)
DryRun ==
    /\ pc = "dryRun"
    /\ \/ /\ agent.gen \notin Rejected
          /\ pc' = "update"
          /\ UNCHANGED <<queued, localVars, faults>>
       \/ /\ agent.gen \in Rejected
          /\ Return(TRUE)
          /\ UNCHANGED faults
       \/ /\ agent.gen \notin Rejected /\ Fault
          /\ Return(TRUE)
    /\ UNCHANGED <<serverVars, cacheVars, restarts, ver, helmRelease>>

(* applyAll: an object that fails does not stop the others.                 *)
ApplyObject(o) ==
    /\ pc = "apply"
    /\ o \in todo
    /\ todo' = todo \ {o}
    /\ \/ /\ objs' = objs \cup {o}
          /\ UNCHANGED <<failed, faults>>
       \/ /\ Fault
          /\ failed' = TRUE
          /\ UNCHANGED objs
    /\ UNCHANGED <<cr, terminating, lifecycleCm, cacheVars, queued, restarts, ver, pc,
                   agent, local, localCurrent, attempt, keys, visiting, helmRelease>>

ApplyDone ==
    /\ pc = "apply" /\ todo = {}
    /\ \/ /\ failed
          /\ Return(TRUE)
       \/ /\ ~failed
          /\ pc' = "cleanup"
          /\ UNCHANGED <<queued, localVars>>
    /\ UNCHANGED <<serverVars, cacheVars, boundVars, ver, helmRelease>>

(* The operator dies, possibly to be replaced by another version; the new   *)
(* process fills its caches and finds the CR, if there is one.              *)
Restart(v) ==
    /\ restarts < MaxRestarts
    /\ restarts' = restarts + 1
    /\ ver' = v
    /\ pc' = "idle"
    /\ agent' = NoAgent
    /\ local' = Missing /\ localCurrent' = FALSE
    /\ attempt' = 0 /\ todo' = {} /\ keys' = {} /\ visiting' = {} /\ failed' = FALSE
    /\ crCache' = cr /\ cmCache' = lifecycleCm /\ cacheCurrent' = TRUE
    /\ queued' = cr.exists
    /\ UNCHANGED <<serverVars, faults, helmRelease>>
-----------------------------------------------------------------------------
Lifecycle ==
    \/ UpdateGet \/ UpdateApply \/ CleanupGet \/ CleanupApply
    \/ \E k \in Key : DeleteDeprecated(k) \/ VerifyDeletion(k)

Reconcile ==
    \/ StartReconcile
    \/ CleanupHelmChart \/ RemoveHelmFinalizer \/ AddFinalizer \/ RemoveFinalizer
    \/ DryRun \/ ApplyDone \/ \E o \in Object : ApplyObject(o)
    \/ Lifecycle /\ UNCHANGED helmRelease

Environment ==
    \/ (UserEdit \/ UserDelete \/ OtherEvent \/ RefreshConfigMap \/ \E o \in Object : Vanish(o))
          /\ UNCHANGED <<ver, pc, localVars, helmRelease>>
    \/ (GarbageCollectRecord \/ \E o \in Object : GarbageCollect(o)) /\ UNCHANGED helmRelease
    \/ RefreshAgent
    \/ \E v \in Version : Restart(v)

Next == Reconcile \/ Environment

Spec == Init /\ [][Next]_vars
-----------------------------------------------------------------------------
Tracks(c, o) == \E k \in Key : o \in c.data[k]

(* Write-ahead: every dependent in the cluster is listed in the lifecycle   *)
(* ConfigMap, whatever failed, crashed or was read stale, because ApplyAll  *)
(* records before it applies and CleanupDependents forgets only what is     *)
(* gone.  An object that is not listed is never deleted again.              *)
Tracked == \A o \in objs : Tracks(lifecycleCm, o)

(* No dependent exists unless the CR exists and carries finalizerV3: none   *)
(* is created before addOrUpdateFinalizers has succeeded and none survives  *)
(* the removal of the finalizer by cleanupDependents.                       *)
FinalizerGuardsDependents == objs # {} => cr.exists /\ "v3" \in cr.finalizers

(* A dependent that every generation and version asks for is never deleted  *)
(* while the CR is not under deletion: no upgrade, spec change, stale read  *)
(* or retry of CleanupDependents interrupts it.                             *)
CommonDependentsStay ==
    ~cr.deleting => \A o \in terminating : \E vg \in Version \X Gen : o \notin Deps[vg]

(* When CleanupDependents drops an object from the ConfigMap, the object is *)
(* gone or the reconcile has just applied it, even if the informer lags     *)
(* without bound.                                                           *)
CleanupForgetsOnlyGone ==
    [][pc = "cleanupKeys" /\ lifecycleCm'.exists =>
          \A o \in objs' : Tracks(lifecycleCm, o) /\ ~Tracks(lifecycleCm', o)
                             => o \in currentDependents]_vars

(* UpdateDependentLifecycleInfo only adds: whatever the ConfigMap listed    *)
(* before its Apply is listed afterwards.                                   *)
UpdateOnlyAdds ==
    [][pc = "updateApply" /\ lifecycleCm'.exists =>
          \A o \in Object : Tracks(lifecycleCm, o) => Tracks(lifecycleCm', o)]_vars

(* ApplyAll goes on to the objects only when all of them are listed under   *)
(* the key of the current generation.                                       *)
RecordedBeforeApply == pc = "apply" => todo \subseteq lifecycleCm.data[getCurrentGenKey]

(* The API call that creates a dependent always finds finalizerV3 on the    *)
(* server, even if the informer lags without bound.                         *)
CreatedUnderFinalizer ==
    [][\A o \in objs' \ objs : "v3" \in cr.finalizers]_vars

(* cleanupHelmChart removes finalizerV1 only once the 2.x release is gone.  *)
HelmReleaseHoldsV1 == helmRelease => "v1" \in cr.finalizers
-----------------------------------------------------------------------------
(* The worker runs while the queue is not empty, informers catch up and     *)
(* deleted objects go away.  Users, faults and crashes owe nothing.         *)
Fairness ==
    /\ WF_vars(Reconcile)
    /\ WF_vars(RefreshAgent)
    /\ WF_vars(RefreshConfigMap /\ UNCHANGED <<ver, pc, localVars, helmRelease>>)
    /\ \A o \in Object : WF_vars(Vanish(o) /\ UNCHANGED <<ver, pc, localVars, helmRelease>>)

FairSpec == Spec /\ Fairness

(* Once users, faults and crashes are over, exactly the dependents of the   *)
(* latest generation and the running version exist, and stay, unless the    *)
(* API server rejects that generation.                                      *)
Settles ==
    <>[](cr.exists /\ ~cr.deleting /\ cr.gen \notin Rejected
            => objs = Deps[<<ver, cr.gen>>])

(* A CR that is deleted after its record was created goes away.             *)
DeletionCompletes == cr.deleting /\ lifecycleCm.exists ~> ~cr.exists
=============================================================================
