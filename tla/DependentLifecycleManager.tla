---------------------- MODULE DependentLifecycleManager ----------------------
(***************************************************************************)
(* pkg/k8s/operator/lifecycle/dependent_lifecycle_manager.go: the record   *)
(* of every dependent ever applied, kept in a ConfigMap under one key per  *)
(* operator version and CR generation.  A reconcile writes the record      *)
(* before it applies objects (UpdateDependentLifecycleInfo) and afterwards *)
(* deletes what the current generation no longer lists                     *)
(* (CleanupDependents).  Both run inside retry; every API call is a step,  *)
(* so that informers, users and crashes interleave between the calls.      *)
(***************************************************************************)
EXTENDS KubeCluster

CONSTANTS
    Deps,             \* the dependents built for a version and a generation
    Attempts,         \* attempts of retry (5 in the code)
    BackoffSuffices,  \* see LastAttemptIsFresh
    CreationSeen      \* see RecordVisible

VARIABLES
    ver,          \* version of the running operator
    pc,           \* where the reconcile is
    agent,        \* the CR as this reconcile read it
    local,        \* the ConfigMap value this attempt works on
    localCurrent, \* its resourceVersion is still the server's
    attempt,      \* failed attempts of the running retry loop
    todo,         \* objects applyAll has still to apply
    keys,         \* keys of local.data CleanupDependents has still to visit
    visiting,     \* the key whose objects it waits for
    failed        \* the errBuilder of the running loop is not empty

localVars == <<agent, local, localCurrent, attempt, todo, keys, visiting, failed>>

ASSUME LifecycleAssumption ==
    /\ Deps \in [Version \X Gen -> SUBSET Object]
    /\ \A vg \in Version \X Gen : Deps[vg] # {}
    /\ Attempts \in Nat \ {0}
    /\ BackoffSuffices \in BOOLEAN
    /\ CreationSeen \in BOOLEAN

NoAgent == [exists |-> FALSE, gen |-> 1, deleting |-> FALSE, finalizers |-> {}]

(* The reconcile returns; an error or Requeue puts the CR back in the queue. *)
Return(requeue) ==
    /\ pc' = "idle"
    /\ queued' = (queued \/ requeue)
    /\ agent' = NoAgent
    /\ local' = Missing /\ localCurrent' = FALSE
    /\ attempt' = 0
    /\ todo' = {} /\ keys' = {} /\ visiting' = {} /\ failed' = FALSE

(* A write to the ConfigMap gives it a new resourceVersion, unless it       *)
(* changes nothing.                                                         *)
WriteConfigMap(c) ==
    /\ lifecycleCm' = c
    /\ cacheCurrent' = (cacheCurrent /\ c = lifecycleCm)
-----------------------------------------------------------------------------
getCurrentGenKey == [ver |-> ver, gen |-> agent.gen, dirty |-> FALSE]
DirtyKey(k) == [k EXCEPT !.dirty = TRUE]

(* What the running reconcile wants to exist: nothing for DeleteAll.        *)
currentDependents == IF agent.deleting THEN {} ELSE Deps[<<ver, agent.gen>>]

(* Assumed where BackoffSuffices: the informer delivers the last write      *)
(* within the backoff of retry, so the last attempt reads what is current.  *)
LastAttemptIsFresh == BackoffSuffices /\ attempt = Attempts - 1 => cacheCurrent

(* Mutant: an entry is written to a fresh Data instead of the one read.     *)
RecordedAlone(c, k) == [c EXCEPT !.data = [NoData EXCEPT ![k] = Deps[<<ver, agent.gen>>]]]

(* getOrInitializeLifecycleCm and the additions to Data.  A ConfigMap that  *)
(* is not found is initialised without a resourceVersion.                   *)
Recorded(c, k) ==
    [c EXCEPT !.data = [j \in Key |->
        CASE j = k                            -> Deps[<<ver, agent.gen>>]
          [] j = DirtyKey(k) /\ c.data[k] # {} -> c.data[k]
          [] OTHER                            -> c.data[j]]]

UpdateGet ==
    /\ pc = "update"
    /\ LastAttemptIsFresh
    /\ local' = Recorded(cmCache, getCurrentGenKey)
    /\ localCurrent' = cacheCurrent
    /\ pc' = "updateApply"
    /\ UNCHANGED <<clusterVars, ver, agent, attempt, todo, keys, visiting, failed>>

(* Mutants: a conflict counts as success; a conflict ends the reconcile     *)
(* without a requeue; the loop runs once more than the attempts allow.      *)
ConflictIgnored(again, success) == success
ConflictDropped(again, success) == Return(FALSE)
OneAttemptMore(again, success) ==
    IF attempt < Attempts
    THEN /\ pc' = again
         /\ attempt' = attempt + 1
         /\ UNCHANGED <<queued, agent, local, localCurrent, todo, keys, visiting, failed>>
    ELSE success

(* retry after a conflict: another attempt, and after the last one the outer *)
(* err, which is still nil, so the caller carries on as after a success.     *)
RetryConflict(again, success) ==
    IF attempt + 1 < Attempts
    THEN /\ pc' = again
         /\ attempt' = attempt + 1
         /\ UNCHANGED <<queued, agent, local, localCurrent, todo, keys, visiting, failed>>
    ELSE success

ContinueWithApply ==
    /\ pc' = "apply"
    /\ todo' = Deps[<<ver, agent.gen>>]
    /\ attempt' = 0 /\ failed' = FALSE
    /\ local' = Missing /\ localCurrent' = FALSE
    /\ UNCHANGED <<queued, agent, keys, visiting>>

(* A server-side apply without a resourceVersion is unconditional and drops *)
(* the keys of the field owner it does not mention.                         *)
UpdateApply ==
    /\ pc = "updateApply"
    /\ \/ /\ ~local.exists \/ localCurrent
          /\ WriteConfigMap([exists |-> TRUE, data |-> local.data])
          /\ ContinueWithApply
          /\ UNCHANGED boundVars
       \/ /\ local.exists /\ ~localCurrent
          /\ RetryConflict("update", ContinueWithApply)
          /\ UNCHANGED <<lifecycleCm, cacheCurrent, boundVars>>
       \/ /\ Fault
          /\ Return(TRUE)
          /\ UNCHANGED <<lifecycleCm, cacheCurrent, restarts>>
    /\ UNCHANGED <<cr, objs, terminating, crCache, cmCache, ver>>
-----------------------------------------------------------------------------
(* The read of a missing ConfigMap leaves the zero ConfigMap.               *)
CleanupGet ==
    /\ pc = "cleanup"
    /\ LastAttemptIsFresh
    /\ local' = cmCache
    /\ localCurrent' = cacheCurrent
    /\ keys' = {k \in Key : cmCache.data[k] # {}}
    /\ failed' = FALSE
    /\ pc' = "cleanupKeys"
    /\ UNCHANGED <<clusterVars, ver, agent, attempt, todo, visiting>>

(* Mutant: the diff against the current generation is missing.              *)
DeprecatedAll(k) == local.data[k]

Deprecated(k) == local.data[k] \ currentDependents

(* DeleteAllInTimeLimit sends every delete, then waits until the objects    *)
(* are gone; a failed delete returns without waiting.                       *)
DeleteDeprecated(k) ==
    /\ pc = "cleanupKeys"
    /\ k \in keys
    /\ \E F \in SUBSET Deprecated(k) :
          /\ terminating' = terminating \cup ((Deprecated(k) \ F) \cap objs)
          /\ \/ F = {} /\ pc' = "verifyDeletion" /\ visiting' = {k} /\ UNCHANGED <<failed, faults>>
             \/ F # {} /\ Fault /\ failed' = TRUE /\ UNCHANGED <<pc, visiting>>
    /\ keys' = keys \ {k}
    /\ UNCHANGED <<cr, objs, lifecycleCm, cacheVars, queued, restarts,
                   ver, agent, local, localCurrent, attempt, todo>>

(* Mutant: the key is dropped whether or not the objects are gone.          *)
ForgetUnverified(k) ==
    /\ pc = "verifyDeletion"
    /\ k \in visiting
    /\ local' = IF k = getCurrentGenKey THEN local
                ELSE [local EXCEPT !.data[k] = {}]
    /\ pc' = "cleanupKeys"
    /\ visiting' = {}
    /\ UNCHANGED <<clusterVars, ver, agent, localCurrent, attempt, todo, keys, failed>>

(* verifyDeletion ends when no object exists any more, or with the error of *)
(* the expired context, which may come first even if they are gone.  The    *)
(* key is dropped only without an error and only if it is not the current.  *)
VerifyDeletion(k) ==
    /\ pc = "verifyDeletion"
    /\ k \in visiting
    /\ \/ /\ Deprecated(k) \cap objs = {}
          /\ local' = IF k = getCurrentGenKey THEN local
                      ELSE [local EXCEPT !.data[k] = {}]
          /\ UNCHANGED <<failed, faults>>
       \/ /\ Fault
          /\ failed' = TRUE
          /\ UNCHANGED local
    /\ pc' = "cleanupKeys"
    /\ visiting' = {}
    /\ UNCHANGED <<serverVars, cacheVars, queued, restarts,
                   ver, agent, localCurrent, attempt, todo, keys>>

(* cleanupDependents goes on to the finalizer, applyResources is done.      *)
CleanupSucceeded ==
    IF agent.deleting
    THEN /\ pc' = "removeFinalizer"
         /\ attempt' = 0 /\ failed' = FALSE
         /\ local' = Missing /\ localCurrent' = FALSE
         /\ UNCHANGED <<queued, agent, todo, keys, visiting>>
    ELSE Return(FALSE)

(* The zero ConfigMap has no name and is rejected.  Next to a failed        *)
(* deletion a conflict is retried unless the API status of the deletion,    *)
(* the first in the multierror, hides it from isConflictError.              *)
CleanupApply ==
    /\ pc = "cleanupKeys" /\ keys = {}
    /\ \/ /\ local.exists /\ localCurrent
          /\ WriteConfigMap(local)
          /\ IF failed THEN Return(TRUE) ELSE CleanupSucceeded
          /\ UNCHANGED boundVars
       \/ /\ local.exists /\ ~localCurrent
          /\ RetryConflict("cleanup", CleanupSucceeded) \/ (failed /\ Return(TRUE))
          /\ UNCHANGED <<lifecycleCm, cacheCurrent, boundVars>>
       \/ /\ ~local.exists
          /\ Return(TRUE)
          /\ UNCHANGED <<lifecycleCm, cacheCurrent, boundVars>>
       \/ /\ local.exists /\ Fault
          /\ Return(TRUE)
          /\ UNCHANGED <<lifecycleCm, cacheCurrent, restarts>>
    /\ UNCHANGED <<cr, objs, terminating, crCache, cmCache, ver>>
-----------------------------------------------------------------------------
(* The garbage collector removes what the CR owned once it is gone, object  *)
(* by object.                                                               *)
GarbageCollect(o) ==
    /\ ~cr.exists
    /\ o \in objs \cap Owned
    /\ objs' = objs \ {o}
    /\ terminating' = terminating \ {o}
    /\ UNCHANGED <<cr, lifecycleCm, cacheVars, queued, boundVars, ver, pc, localVars>>

GarbageCollectRecord ==
    /\ ~cr.exists
    /\ lifecycleCm.exists
    /\ lifecycleCm' = Missing
    /\ cacheCurrent' = FALSE
    /\ localCurrent' = FALSE
    /\ UNCHANGED <<cr, objs, terminating, crCache, cmCache, queued, boundVars,
                   ver, pc, agent, local, attempt, todo, keys, visiting, failed>>
=============================================================================
