-------------------------- MODULE RemoteReconciler ---------------------------
(***************************************************************************)
(* The controller of InstanaAgentRemote (controllers/remote*.go) with its  *)
(* own ApplyAll and its own lifecycle manager.  It follows the controller  *)
(* of InstanaAgent, but the lifecycle manager does not retry: a conflict   *)
(* on the ConfigMap, like any other error, ends the reconcile and requeues *)
(* the CR.  There is no Helm release and no older finalizer; a CR that is  *)
(* gone when its finalizers are patched counts as a failure.               *)
(***************************************************************************)
EXTENDS KubeCluster

CONSTANTS
    Deps,           \* the dependents built for a version and a generation
    Installed,      \* the versions that may run first
    CreationSeen    \* see RecordVisible

VARIABLES
    ver,          \* version of the running operator
    pc,           \* where the reconcile is
    agent,        \* the CR as this reconcile read it
    local,        \* the ConfigMap value it works on
    localCurrent, \* its resourceVersion is still the server's
    todo,         \* objects applyAll has still to apply
    keys,         \* keys of local.data CleanupDependents has still to visit
    visiting,     \* the key whose objects it waits for
    failed        \* an errBuilder is not empty

localVars == <<agent, local, localCurrent, todo, keys, visiting, failed>>
vars == <<clusterVars, ver, pc, localVars>>

ASSUME RemoteAssumption ==
    /\ Deps \in [Version \X Gen -> SUBSET Object]
    /\ \A vg \in Version \X Gen : Deps[vg] # {}
    /\ Installed \subseteq Version
    /\ CreationSeen \in BOOLEAN

NoAgent == [exists |-> FALSE, gen |-> 1, deleting |-> FALSE, finalizers |-> {}]

PC == {"idle", "addFinalizer", "dryRun", "update", "updateApply", "apply",
       "cleanup", "cleanupKeys", "verifyDeletion", "removeFinalizer"}

TypeOK ==
    /\ ClusterTypeOK
    /\ ver \in Version /\ pc \in PC
    /\ agent \in Agent
    /\ local \in ConfigMap /\ localCurrent \in BOOLEAN
    /\ todo \subseteq Object
    /\ keys \subseteq Key /\ visiting \subseteq Key
    /\ failed \in BOOLEAN

Idle ==
    /\ pc' = "idle"
    /\ agent' = NoAgent
    /\ local' = Missing /\ localCurrent' = FALSE
    /\ todo' = {} /\ keys' = {} /\ visiting' = {} /\ failed' = FALSE

Init ==
    /\ ClusterInit /\ cr.finalizers = {}
    /\ ver \in Installed
    /\ pc = "idle"
    /\ agent = NoAgent
    /\ local = Missing /\ localCurrent = FALSE
    /\ todo = {} /\ keys = {} /\ visiting = {} /\ failed = FALSE

(* The reconcile returns; an error or Requeue puts the CR back in the queue. *)
Return(requeue) == Idle /\ queued' = (queued \/ requeue)
-----------------------------------------------------------------------------
(* Mutant: only creation and deletion pass, not a new generation.           *)
passesLifetime(old, new) == old.exists # new.exists \/ old.deleting # new.deleting

(* filterPredicateRemote: the CR passes on creation, on a new generation    *)
(* and on its removal.                                                      *)
passesFilter(old, new) == old.exists # new.exists \/ old.gen # new.gen

RefreshAgent ==
    /\ crCache # cr
    /\ crCache' = cr
    /\ queued' = (queued \/ passesFilter(crCache, cr))
    /\ UNCHANGED <<serverVars, cmCache, cacheCurrent, boundVars, ver, pc, localVars>>

(* Assumed where CreationSeen: a ConfigMap created in one reconcile is in   *)
(* the cache when the next one starts.                                      *)
RecordVisible == CreationSeen /\ lifecycleCm.exists => cmCache.exists

(* Mutant: nothing is left to do for a CR under deletion.                   *)
DeletionIgnored(a) ==
    IF a.deleting THEN "idle" ELSE IF "v3" \in a.finalizers THEN "dryRun" ELSE "addFinalizer"

(* handleDeletion under deletion, else addOrUpdateFinalizers, else on to    *)
(* applyResources.                                                          *)
handleDeletion(a) ==
    LET finalizer == "v3" \in a.finalizers
    IN  CASE a.deleting /\ finalizer   -> "cleanup"
          [] a.deleting /\ ~finalizer  -> "idle"
          [] ~a.deleting /\ finalizer  -> "dryRun"
          [] ~a.deleting /\ ~finalizer -> "addFinalizer"

StartReconcile ==
    /\ pc = "idle" /\ queued
    /\ RecordVisible
    /\ queued' = FALSE
    /\ IF crCache.exists /\ handleDeletion(crCache) # "idle"
       THEN agent' = crCache /\ pc' = handleDeletion(crCache)
       ELSE UNCHANGED <<agent, pc>>
    /\ UNCHANGED <<serverVars, cacheVars, boundVars, ver,
                   local, localCurrent, todo, keys, visiting, failed>>

(* updateAgent: success asks for another reconcile, and so does every       *)
(* error: a fault, a finalizer refused under deletion, a CR that is gone.   *)
updateAgent(F) ==
    /\ \/ /\ cr.exists
          /\ cr.deleting => F \subseteq cr.finalizers
          /\ cr' = PatchedFinalizers(F)
          /\ UNCHANGED faults
       \/ /\ ~cr.exists \/ (cr.deleting /\ ~(F \subseteq cr.finalizers))
          /\ UNCHANGED <<cr, faults>>
       \/ Fault /\ UNCHANGED cr
    /\ Return(TRUE)
    /\ UNCHANGED <<objs, terminating, lifecycleCm, cacheVars, restarts, ver>>

AddFinalizer == pc = "addFinalizer" /\ updateAgent(agent.finalizers \cup {"v3"})

RemoveFinalizer == pc = "removeFinalizer" /\ updateAgent(agent.finalizers \ {"v3"})
-----------------------------------------------------------------------------
(* An API call fails and the reconcile returns its error.                   *)
CallFails == Fault /\ Return(TRUE)

(* remote_operator_utils.ApplyAll: dry run, record, apply, clean up.        *)
DryRun ==
    /\ pc = "dryRun"
    /\ \/ pc' = "update" /\ UNCHANGED <<queued, localVars, faults>>
       \/ CallFails
    /\ UNCHANGED <<serverVars, cacheVars, restarts, ver>>

ApplyObject(o) ==
    /\ pc = "apply"
    /\ o \in todo
    /\ todo' = todo \ {o}
    /\ \/ objs' = objs \cup {o} /\ UNCHANGED <<failed, faults>>
       \/ Fault /\ failed' = TRUE /\ UNCHANGED objs
    /\ UNCHANGED <<cr, terminating, lifecycleCm, cacheVars, queued, restarts, ver, pc,
                   agent, local, localCurrent, keys, visiting>>

ApplyDone ==
    /\ pc = "apply" /\ todo = {}
    /\ \/ failed /\ Return(TRUE)
       \/ ~failed /\ pc' = "cleanup" /\ UNCHANGED <<queued, localVars>>
    /\ UNCHANGED <<serverVars, cacheVars, boundVars, ver>>
-----------------------------------------------------------------------------
getCurrentGenKey == [ver |-> ver, gen |-> agent.gen, dirty |-> FALSE]
DirtyKey(k) == [k EXCEPT !.dirty = TRUE]

(* What the running reconcile wants to exist: nothing for DeleteAll.        *)
currentDependents == IF agent.deleting THEN {} ELSE Deps[<<ver, agent.gen>>]

(* Mutant: the data of the ConfigMap is replaced instead of extended.       *)
RecordedAlone(c, k) == [c EXCEPT !.data = [NoData EXCEPT ![k] = currentDependents]]

(* getOrInitializeLifecycleCm and the additions to Data.                    *)
Recorded(c, k) ==
    [c EXCEPT !.data = [j \in Key |->
        IF j = k THEN currentDependents
        ELSE IF j = DirtyKey(k) /\ c.data[k] # {} THEN c.data[k]
        ELSE c.data[j]]]

(* UpdateDependentLifecycleInfo, first half.  A read that fails leaves a    *)
(* ConfigMap without a name; its Apply fails as well, see UpdateApply.      *)
UpdateGet ==
    /\ pc = "update"
    /\ local' = Recorded(cmCache, getCurrentGenKey)
    /\ localCurrent' = cacheCurrent
    /\ pc' = "updateApply"
    /\ UNCHANGED <<clusterVars, ver, agent, todo, keys, visiting, failed>>

WriteConfigMap(c) ==
    /\ lifecycleCm' = c
    /\ cacheCurrent' = (cacheCurrent /\ c = lifecycleCm)

(* Mutant: a conflict is taken for a success.                               *)
ConflictIgnored == pc' = "apply" /\ todo' = Deps[<<ver, agent.gen>>]
                   /\ local' = Missing /\ localCurrent' = FALSE
                   /\ UNCHANGED <<queued, agent, keys, visiting, failed>>

Conflict == Return(TRUE)

UpdateApply ==
    /\ pc = "updateApply"
    /\ \/ /\ ~local.exists \/ localCurrent
          /\ WriteConfigMap([exists |-> TRUE, data |-> local.data])
          /\ pc' = "apply"
          /\ todo' = currentDependents
          /\ local' = Missing /\ localCurrent' = FALSE
          /\ UNCHANGED <<queued, agent, keys, visiting, failed, faults>>
       \/ /\ local.exists /\ ~localCurrent
          /\ Conflict
          /\ UNCHANGED <<lifecycleCm, cacheCurrent, faults>>
       \/ /\ CallFails
          /\ UNCHANGED <<lifecycleCm, cacheCurrent>>
    /\ UNCHANGED <<cr, objs, terminating, crCache, cmCache, restarts, ver>>

(* CleanupDependents: a ConfigMap that is missing, or whose read failed, is *)
(* the zero ConfigMap; nothing is deleted and its Apply fails.              *)
CleanupGet ==
    /\ pc = "cleanup"
    /\ local' = cmCache
    /\ localCurrent' = cacheCurrent
    /\ keys' = {k \in Key : cmCache.data[k] # {}}
    /\ pc' = "cleanupKeys"
    /\ UNCHANGED <<clusterVars, ver, agent, todo, visiting, failed>>

Deprecated(k) == local.data[k] \ currentDependents

(* deleteAll: every delete is sent, then the objects are waited for; a      *)
(* failed delete returns without waiting.                                   *)
DeleteAll(k) ==
    /\ pc = "cleanupKeys"
    /\ k \in keys
    /\ keys' = keys \ {k}
    /\ \E F \in SUBSET Deprecated(k) :
          /\ terminating' = terminating \cup ((Deprecated(k) \ F) \cap objs)
          /\ \/ F = {} /\ pc' = "verifyDeletion" /\ visiting' = {k} /\ UNCHANGED <<failed, faults>>
             \/ F # {} /\ Fault /\ failed' = TRUE /\ UNCHANGED <<pc, visiting>>
    /\ UNCHANGED <<cr, objs, lifecycleCm, cacheVars, queued, restarts,
                   ver, agent, local, localCurrent, todo>>

(* The wait ends when nothing is left or when the 30 seconds are over.      *)
VerifyDeletion(k) ==
    /\ pc = "verifyDeletion"
    /\ k \in visiting
    /\ \/ /\ Deprecated(k) \cap objs = {}
          /\ local' = IF k = getCurrentGenKey THEN local ELSE [local EXCEPT !.data[k] = {}]
          /\ UNCHANGED <<failed, faults>>
       \/ Fault /\ failed' = TRUE /\ UNCHANGED local
    /\ pc' = "cleanupKeys" /\ visiting' = {}
    /\ UNCHANGED <<serverVars, cacheVars, queued, restarts,
                   ver, agent, localCurrent, todo, keys>>

(* The Apply at the end: its error, and any error of the deletions, is that *)
(* of the reconcile, although the ConfigMap may have been written.          *)
CleanupApply ==
    /\ pc = "cleanupKeys" /\ keys = {}
    /\ \/ /\ local.exists /\ localCurrent
          /\ WriteConfigMap(local)
          /\ IF agent.deleting /\ ~failed
             THEN /\ pc' = "removeFinalizer"
                  /\ local' = Missing /\ localCurrent' = FALSE
                  /\ UNCHANGED <<queued, agent, todo, keys, visiting, failed>>
             ELSE Return(failed)
          /\ UNCHANGED faults
       \/ /\ ~local.exists \/ ~localCurrent
          /\ Return(TRUE)
          /\ UNCHANGED <<lifecycleCm, cacheCurrent, faults>>
       \/ /\ CallFails
          /\ UNCHANGED <<lifecycleCm, cacheCurrent>>
    /\ UNCHANGED <<cr, objs, terminating, crCache, cmCache, restarts, ver>>
-----------------------------------------------------------------------------
(* The garbage collector removes what the CR owned once it is gone.         *)
GarbageCollect ==
    /\ ~cr.exists
    /\ \/ \E o \in objs \cap Owned : objs' = objs \ {o} /\ terminating' = terminating \ {o}
                                     /\ UNCHANGED <<lifecycleCm, cacheCurrent, localCurrent>>
       \/ /\ lifecycleCm.exists
          /\ lifecycleCm' = Missing
          /\ cacheCurrent' = FALSE /\ localCurrent' = FALSE
          /\ UNCHANGED <<objs, terminating>>
    /\ UNCHANGED <<cr, crCache, cmCache, queued, boundVars, ver, pc,
                   agent, local, todo, keys, visiting, failed>>

(* The operator dies, possibly to be replaced by another version.           *)
Restart(v) ==
    /\ restarts < MaxRestarts
    /\ restarts' = restarts + 1
    /\ ver' = v
    /\ Idle
    /\ crCache' = cr /\ cmCache' = lifecycleCm /\ cacheCurrent' = TRUE
    /\ queued' = cr.exists
    /\ UNCHANGED <<serverVars, faults>>

Reconcile ==
    \/ StartReconcile \/ AddFinalizer \/ RemoveFinalizer
    \/ DryRun \/ UpdateGet \/ UpdateApply \/ ApplyDone \/ \E o \in Object : ApplyObject(o)
    \/ CleanupGet \/ CleanupApply \/ \E k \in Key : DeleteAll(k) \/ VerifyDeletion(k)

Environment ==
    \/ (UserEdit \/ UserDelete \/ OtherEvent \/ RefreshConfigMap \/ \E o \in Object : Vanish(o))
          /\ UNCHANGED <<ver, pc, localVars>>
    \/ GarbageCollect \/ RefreshAgent
    \/ \E v \in Version : Restart(v)

Next == Reconcile \/ Environment

Spec == Init /\ [][Next]_vars

(* The worker runs, informers catch up, deleted objects go away.            *)
Fairness ==
    /\ WF_vars(Reconcile)
    /\ WF_vars(RefreshAgent)
    /\ WF_vars(RefreshConfigMap /\ UNCHANGED <<ver, pc, localVars>>)
    /\ \A o \in Object : WF_vars(Vanish(o) /\ UNCHANGED <<ver, pc, localVars>>)

FairSpec == Spec /\ Fairness
-----------------------------------------------------------------------------
Tracks(c, o) == \E k \in Key : o \in c.data[k]

(* Write-ahead without retry: whatever the informer shows, the objects that *)
(* ApplyAll still has to apply are listed in the ConfigMap under the key of *)
(* the current generation.                                                  *)
RecordedBeforeApply == pc = "apply" => todo \subseteq lifecycleCm.data[getCurrentGenKey]

(* The remote controller keeps the promises of DependentRegistry: recorded  *)
(* before present, present only under the finalizer, forgotten only when    *)
(* gone, released only when empty.                                          *)
Registry == INSTANCE DependentRegistry WITH
    present  <- objs,
    recorded <- {o \in Object : Tracks(lifecycleCm, o)},
    guarded  <- cr.exists /\ "v3" \in cr.finalizers

RegistrySpec == Registry!Spec

(* Conflicts, faults and crashes only delay: exactly the dependents of the  *)
(* latest generation and the running version exist in the end.              *)
Settles == <>[](cr.exists /\ ~cr.deleting => objs = Deps[<<ver, cr.gen>>])

(* A deleted CR whose record exists goes away, and once it is gone the      *)
(* failures to patch it end: the controller comes to rest.                  *)
DeletionEnds ==
    /\ cr.deleting /\ lifecycleCm.exists ~> ~cr.exists
    /\ []<>(~cr.exists => pc = "idle" /\ ~queued)
=============================================================================
