------------------------ MODULE ReconcilerInvariants -------------------------
(***************************************************************************)
(* The inductive invariants behind the safety of InstanaAgentReconciler,   *)
(* and the mapping to DependentRegistry.  PhaseInv and FinalizerInv hold   *)
(* however far the informers lag; RecordInv needs LastAttemptIsFresh and   *)
(* RecordVisible.                                                          *)
(***************************************************************************)
EXTENDS InstanaAgentReconciler

Applying == pc \in {"dryRun", "update", "updateApply", "apply"}
Cleaning == pc \in {"cleanup", "cleanupKeys", "verifyDeletion"}

(* What the place in reconcile says about the copy of the CR it works on    *)
(* and about its local variables.                                           *)
PhaseInv ==
    /\ pc = "idle" => agent = NoAgent
    /\ pc \in {"helm", "removeV1"} => "v1" \in agent.finalizers
    /\ pc \notin {"idle", "helm", "removeV1"} => "v1" \notin agent.finalizers
    /\ Applying => ~agent.deleting
    /\ Applying \/ Cleaning => "v3" \in agent.finalizers
    /\ pc = "removeFinalizer" => agent.deleting
    /\ pc # "verifyDeletion" => visiting = {}
    /\ visiting \cap keys = {}
    /\ \A j, k \in visiting : j = k

(* How the three copies of the CR are related: deletion is permanent,       *)
(* finalizerV1 only ever disappears, and finalizerV3 is on the server       *)
(* whenever a copy that is not under deletion shows it.                     *)
FinalizerInv ==
    /\ ~cr.exists => cr.finalizers = {}
    /\ agent.deleting => crCache.deleting
    /\ crCache.deleting => cr.deleting
    /\ "v1" \in cr.finalizers => "v1" \in crCache.finalizers
    /\ pc # "idle" /\ "v1" \in crCache.finalizers => "v1" \in agent.finalizers
    /\ "v1" \in crCache.finalizers \cup agent.finalizers => "v3" \notin cr.finalizers
    /\ "v3" \in agent.finalizers /\ ~agent.deleting => "v3" \in cr.finalizers
    /\ "v3" \in crCache.finalizers /\ ~crCache.deleting => "v3" \in cr.finalizers
    /\ pc = "removeV1" => ~helmRelease

(* The relation of the copies of the ConfigMap: a current local copy is the *)
(* server's, with the additions of Update or without what CleanupDependents *)
(* has verified to be gone.                                                 *)
CopyInv ==
    /\ cacheCurrent => cmCache = lifecycleCm
    /\ localCurrent => cacheCurrent /\ pc \in {"updateApply", "cleanupKeys", "verifyDeletion"}
    /\ pc = "updateApply" /\ localCurrent => local = Recorded(lifecycleCm, getCurrentGenKey)
    /\ pc \in {"cleanupKeys", "verifyDeletion"} /\ localCurrent =>
          /\ local.exists = lifecycleCm.exists
          /\ local.data[getCurrentGenKey] = lifecycleCm.data[getCurrentGenKey]
          /\ \A k \in Key :
                \/ local.data[k] = lifecycleCm.data[k]
                \/ /\ local.data[k] = {} /\ k \notin keys \cup visiting
                   /\ lifecycleCm.data[k] \cap objs \subseteq currentDependents

(* A key lists at most what its version and generation ask for, which makes *)
(* it safe to overwrite a "-dirty" entry.                                   *)
DataInv ==
    /\ ~lifecycleCm.exists => lifecycleCm.data = NoData
    /\ \A k \in Key : /\ lifecycleCm.data[k] \subseteq Deps[<<k.ver, k.gen>>]
                      /\ cmCache.data[k] \subseteq Deps[<<k.ver, k.gen>>]
                      /\ local.data[k] \subseteq Deps[<<k.ver, k.gen>>]

(* The write-ahead discipline: the entry of the current generation is on    *)
(* the server from the moment the first object is applied.                  *)
WriteAheadInv ==
    /\ pc \in {"dryRun", "update", "updateApply"} =>
          (lifecycleCm.exists => cmCache.exists)
    /\ pc = "updateApply" => local.data[getCurrentGenKey] = Deps[<<ver, agent.gen>>]
    /\ pc = "updateApply" /\ ~local.exists => ~lifecycleCm.exists
    /\ pc = "apply" \/ (Cleaning /\ ~agent.deleting) =>
          lifecycleCm.data[getCurrentGenKey] = Deps[<<ver, agent.gen>>]
    /\ pc = "apply" => todo \subseteq Deps[<<ver, agent.gen>>]

(* The last attempt conflicts only if the CR is gone, every key that was    *)
(* visited without an error lists nothing deprecated, and the finalizer     *)
(* outlives the dependents.                                                 *)
CleanupInv ==
    /\ pc \in {"updateApply", "cleanupKeys", "verifyDeletion"}
          /\ attempt = Attempts - 1 /\ ~localCurrent => ~cr.exists
    /\ pc \in {"cleanupKeys", "verifyDeletion"} /\ localCurrent /\ ~failed =>
          \A k \in Key \ (keys \cup visiting) :
             lifecycleCm.data[k] \cap objs \subseteq currentDependents
    /\ pc = "removeFinalizer" => objs = {}
    /\ objs # {} => "v3" \in cr.finalizers

RecordInv == DataInv /\ WriteAheadInv /\ CleanupInv /\ Tracked

LagInv == TypeOK /\ PhaseInv /\ FinalizerInv /\ CopyInv
SafetyInv == LagInv /\ RecordInv
-----------------------------------------------------------------------------
TrackedObjects == {o \in Object : Tracks(lifecycleCm, o)}
Guarded == cr.exists /\ "v3" \in cr.finalizers

Registry == INSTANCE DependentRegistry WITH
    present <- objs, recorded <- TrackedObjects, guarded <- Guarded

(* The controller implements the registry: crashes, stale reads, conflicts, *)
(* retries and upgrades never show outside it.                              *)
RegistrySpec == Registry!Spec
=============================================================================
