----------------------- MODULE ReconcilerSafetyProofs ------------------------
(***************************************************************************)
(* With informers that keep up in the two ways the code relies on, every   *)
(* dependent is recorded while it exists and the finalizer outlives it:    *)
(* SafetyInv is inductive, and the controller implements DependentRegistry.*)
(***************************************************************************)
EXTENDS ReconcilerLagProofs

LEMMA KeyFacts ==
    ASSUME TypeOK
    PROVE  /\ getCurrentGenKey \in Key
           /\ getCurrentGenKey.ver = ver /\ getCurrentGenKey.gen = agent.gen
           /\ DirtyKey(getCurrentGenKey) \in Key
           /\ DirtyKey(getCurrentGenKey).ver = ver
           /\ DirtyKey(getCurrentGenKey).gen = agent.gen
           /\ DirtyKey(getCurrentGenKey) # getCurrentGenKey
BY KeyType DEF TypeOK, getCurrentGenKey, DirtyKey

LEMMA RecordedFacts ==
    ASSUME TypeOK, NEW c \in ConfigMap
    PROVE  LET k == getCurrentGenKey
               r == Recorded(c, k)
           IN  /\ r.exists = c.exists
               /\ r.data[k] = Deps[<<ver, agent.gen>>]
               /\ \A j \in Key \ {k, DirtyKey(k)} : r.data[j] = c.data[j]
               /\ r.data[DirtyKey(k)] = IF c.data[k] # {} THEN c.data[k] ELSE c.data[DirtyKey(k)]
BY KeyFacts DEF Recorded, ConfigMap

LEMMA MissingFacts == Missing.data = NoData /\ \A k \in Key : Missing.data[k] = {}
BY DEF Missing, NoData

(* The steps that leave the ConfigMap, its copies and the place of the      *)
(* reconcile alone, and at most remove dependents or the CR.                *)
LEMMA RecordKept ==
    ASSUME RecordInv, objs' \subseteq objs,
           cr'.finalizers = cr.finalizers, cr'.exists => cr.exists,
           UNCHANGED <<lifecycleCm, cmCache, ver, pc, agent, local, localCurrent,
                       attempt, todo, keys, visiting, failed>>
    PROVE  RecordInv'
<1>1. getCurrentGenKey' = getCurrentGenKey /\ currentDependents' = currentDependents
  BY DEF getCurrentGenKey, currentDependents
<1>2. DataInv'
  BY DEF RecordInv, DataInv
<1>3. WriteAheadInv'
  BY <1>1 DEF RecordInv, WriteAheadInv, Cleaning
<1>4. CleanupInv'
  BY <1>1 DEF RecordInv, CleanupInv
<1>5. Tracked'
  BY DEF RecordInv, Tracked, Tracks
<1>6. QED
  BY <1>2, <1>3, <1>4, <1>5 DEF RecordInv

(* Between two reconciles nothing but the record and the finalizer counts.  *)
LEMMA RecordIdle ==
    ASSUME pc' \in {"idle", "helm", "removeV1", "addFinalizer"},
           DataInv', Tracked', objs' # {} => "v3" \in cr'.finalizers
    PROVE  RecordInv'
BY DEF RecordInv, WriteAheadInv, CleanupInv, Cleaning

(* A return that leaves the ConfigMap and the dependents alone.             *)
LEMMA RecordReturn ==
    ASSUME RecordInv, NEW b, Return(b), UNCHANGED <<lifecycleCm, cmCache, objs>>,
           objs # {} => "v3" \in cr'.finalizers
    PROVE  RecordInv'
<1>1. DataInv'
  BY MissingFacts DEF RecordInv, DataInv, Return
<1>2. Tracked'
  BY DEF RecordInv, Tracked, Tracks
<1>3. QED
  BY <1>1, <1>2, RecordIdle DEF Return

LEMMA RecordEnvironment == SafetyInv /\ Environment => RecordInv'
<1> SUFFICES ASSUME SafetyInv, Environment PROVE RecordInv'
    OBVIOUS
<1>1. CASE (UserEdit \/ UserDelete) /\ UNCHANGED <<ver, pc, localVars, helmRelease>>
  <2>1. cr'.finalizers = cr.finalizers /\ (cr'.exists => cr.exists)
    BY <1>1 DEF UserEdit, UserDelete, SafetyInv, LagInv, TypeOK, ClusterTypeOK, Agent
  <2>2. QED
    BY <1>1, <2>1, RecordKept DEF SafetyInv, UserEdit, UserDelete, cacheVars, localVars
<1>2. CASE RefreshConfigMap /\ UNCHANGED <<ver, pc, localVars, helmRelease>>
  <2> USE <1>2 DEF RefreshConfigMap, SafetyInv, RecordInv, serverVars, localVars
  <2>1. getCurrentGenKey' = getCurrentGenKey /\ currentDependents' = currentDependents
    BY DEF getCurrentGenKey, currentDependents
  <2>2. DataInv'
    BY DEF DataInv
  <2>3. WriteAheadInv'
    BY <2>1 DEF WriteAheadInv, Cleaning
  <2>4. CleanupInv'
    BY <2>1 DEF CleanupInv
  <2>5. Tracked'
    BY DEF Tracked, Tracks
  <2>6. QED
    BY <2>2, <2>3, <2>4, <2>5
<1>3. CASE GarbageCollectRecord
  <2> USE <1>3 DEF GarbageCollectRecord, SafetyInv, RecordInv
  <2>1. objs = {} /\ "v3" \notin cr.finalizers
    BY DEF CleanupInv, LagInv, FinalizerInv
  <2>2. ~Applying /\ (Cleaning => agent.deleting)
    BY <2>1 DEF LagInv, PhaseInv, FinalizerInv
  <2>3. DataInv'
    BY MissingFacts DEF DataInv
  <2>4. WriteAheadInv'
    BY <2>2 DEF WriteAheadInv, Cleaning, Applying
  <2>5. CleanupInv'
    BY <2>1 DEF CleanupInv
  <2>6. Tracked'
    BY <2>1 DEF Tracked
  <2>7. QED
    BY <2>3, <2>4, <2>5, <2>6
<1>4. ASSUME NEW v \in Version, Restart(v) PROVE RecordInv'
  <2> USE <1>4 DEF Restart, SafetyInv, RecordInv, serverVars
  <2>1. DataInv'
    BY MissingFacts DEF DataInv
  <2>2. Tracked'
    BY DEF Tracked, Tracks
  <2>3. QED
    BY <2>1, <2>2, RecordIdle DEF CleanupInv
<1>5. QED
  BY <1>1, <1>2, <1>3, <1>4, RecordKept
  DEF Environment, OtherEvent, Vanish, GarbageCollect, RefreshAgent, SafetyInv,
      serverVars, cacheVars, localVars
-----------------------------------------------------------------------------
(* The steps of the controller itself.                                      *)
LEMMA RecordController ==
    ASSUME CreationSeen, SafetyInv,
           \/ StartReconcile \/ CleanupHelmChart
           \/ RemoveHelmFinalizer \/ AddFinalizer \/ RemoveFinalizer
           \/ DryRun \/ ApplyDone \/ \E o \in Object : ApplyObject(o)
    PROVE  RecordInv'
<1> USE DEF SafetyInv, RecordInv, serverVars, cacheVars, localVars
<1>1. ASSUME UNCHANGED <<lifecycleCm, cmCache, objs, cr, ver, agent, local>>,
             pc' \notin {"updateApply", "cleanupKeys", "verifyDeletion", "removeFinalizer", "apply"},
             pc' \in {"dryRun", "update"} => (lifecycleCm.exists => cmCache.exists),
             pc' = "cleanup" /\ ~agent.deleting =>
                lifecycleCm.data[getCurrentGenKey] = Deps[<<ver, agent.gen>>]
      PROVE  RecordInv'
  <2>1. getCurrentGenKey' = getCurrentGenKey
    BY <1>1 DEF getCurrentGenKey
  <2>2. DataInv'
    BY <1>1 DEF DataInv
  <2>3. Tracked'
    BY <1>1 DEF Tracked, Tracks
  <2>4. QED
    BY <1>1, <2>1, <2>2, <2>3 DEF WriteAheadInv, CleanupInv, Cleaning
<1>2. CASE StartReconcile
  <2>1. UNCHANGED <<lifecycleCm, cmCache, objs, cr, ver, local>>
    BY <1>2 DEF StartReconcile
  <2>2. pc' \in {"idle", "helm", "addFinalizer", "dryRun", "cleanup"}
    BY <1>2 DEF StartReconcile, NextStep, handleDeletion, addOrUpdateFinalizers
  <2>3. pc' = "cleanup" => agent'.deleting
    BY <1>2 DEF StartReconcile, NextStep, handleDeletion, addOrUpdateFinalizers
  <2>4. pc' = "dryRun" => (lifecycleCm.exists => cmCache.exists)
    BY <1>2 DEF StartReconcile, RecordVisible
  <2>5. DataInv'
    BY <2>1 DEF DataInv
  <2>6. Tracked'
    BY <2>1 DEF Tracked, Tracks
  <2>7. QED
    BY <2>1, <2>2, <2>3, <2>4, <2>5, <2>6 DEF WriteAheadInv, CleanupInv, Cleaning
<1>3. CASE CleanupHelmChart
  BY <1>1, <1>3, RecordReturn DEF CleanupHelmChart, CleanupInv
<1>4. CASE RemoveHelmFinalizer \/ AddFinalizer \/ RemoveFinalizer
  <2>1. objs # {} => "v3" \in cr'.finalizers
    <3>1. CASE UNCHANGED cr
      BY <3>1 DEF CleanupInv
    <3>2. ASSUME NEW F, updateAgent(F), ~UNCHANGED cr PROVE cr'.finalizers = F
      BY <3>2 DEF updateAgent, PatchedFinalizers, LagInv, TypeOK, ClusterTypeOK, Agent
    <3>3. CASE RemoveHelmFinalizer
      BY <3>3 DEF RemoveHelmFinalizer, CleanupInv, LagInv, PhaseInv, FinalizerInv
    <3>4. CASE AddFinalizer
      BY <3>1, <3>2, <3>4 DEF AddFinalizer
    <3>5. CASE RemoveFinalizer
      BY <3>5 DEF RemoveFinalizer, CleanupInv
    <3>6. QED
      BY <1>4, <3>3, <3>4, <3>5
  <2>2. QED
    BY <1>4, <2>1, RecordReturn
    DEF RemoveHelmFinalizer, AddFinalizer, RemoveFinalizer, updateAgent
<1>5. CASE DryRun
  BY <1>1, <1>5, RecordReturn DEF DryRun, CleanupInv, WriteAheadInv
<1>6. CASE ApplyDone
  BY <1>1, <1>6, RecordReturn DEF ApplyDone, CleanupInv, WriteAheadInv
<1>7. ASSUME NEW o \in Object, ApplyObject(o) PROVE RecordInv'
  <2>1. getCurrentGenKey' = getCurrentGenKey /\ getCurrentGenKey \in Key
    BY <1>7, KeyFacts DEF ApplyObject, getCurrentGenKey, LagInv
  <2>2. /\ UNCHANGED <<lifecycleCm, cmCache, cr, ver, pc, agent, local>>
        /\ pc = "apply" /\ todo' \subseteq todo /\ objs' \subseteq objs \cup {o} /\ o \in todo
    BY <1>7 DEF ApplyObject
  <2>3. o \in lifecycleCm.data[getCurrentGenKey]
    BY <2>2 DEF WriteAheadInv
  <2>4. DataInv'
    BY <2>2 DEF DataInv
  <2>5. WriteAheadInv'
    BY <2>1, <2>2 DEF WriteAheadInv, Cleaning
  <2>6. "v3" \in cr.finalizers
    BY <2>2 DEF LagInv, PhaseInv, FinalizerInv, Applying
  <2>7. CleanupInv'
    BY <2>2, <2>6 DEF CleanupInv
  <2>8. Tracked'
    BY <2>1, <2>2, <2>3 DEF Tracked, Tracks
  <2>9. QED
    BY <2>4, <2>5, <2>7, <2>8
<1>8. QED
  BY <1>2, <1>3, <1>4, <1>5, <1>6, <1>7
-----------------------------------------------------------------------------
(* UpdateDependentLifecycleInfo *)
LEMMA RecordUpdateGet == ASSUME BackoffSuffices, SafetyInv, UpdateGet PROVE RecordInv'
<1> USE DEF SafetyInv, RecordInv
<1>1. /\ UNCHANGED <<lifecycleCm, cmCache, cacheCurrent, objs, cr, ver, agent, attempt>>
      /\ pc = "update" /\ pc' = "updateApply"
      /\ local' = Recorded(cmCache, getCurrentGenKey) /\ localCurrent' = cacheCurrent
  BY DEF UpdateGet, clusterVars, serverVars, cacheVars
<1>2. getCurrentGenKey' = getCurrentGenKey
  BY <1>1 DEF getCurrentGenKey
<1>3. /\ local'.exists = cmCache.exists
      /\ local'.data[getCurrentGenKey] = Deps[<<ver, agent.gen>>]
      /\ \A k \in Key : local'.data[k] \subseteq Deps[<<k.ver, k.gen>>]
  <2>1. TypeOK /\ cmCache \in ConfigMap
    BY DEF LagInv, TypeOK, ClusterTypeOK
  <2>2. QED
    BY <1>1, <2>1, KeyFacts, RecordedFacts DEF DataInv
<1>4. DataInv'
  BY <1>1, <1>3 DEF DataInv
<1>5. WriteAheadInv'
  BY <1>1, <1>2, <1>3 DEF WriteAheadInv, Cleaning
<1>6. attempt = Attempts - 1 => localCurrent'
  BY <1>1 DEF UpdateGet, LastAttemptIsFresh
<1>7. CleanupInv'
  BY <1>1, <1>6 DEF CleanupInv
<1>8. Tracked'
  BY <1>1 DEF Tracked, Tracks
<1>9. QED
  BY <1>4, <1>5, <1>7, <1>8

(* The write of Update keeps every entry or what it listed.                 *)
LEMMA UpdateKeepsTracks ==
    ASSUME SafetyInv, pc = "updateApply", ~local.exists \/ localCurrent,
           NEW o, Tracks(lifecycleCm, o)
    PROVE  \E k \in Key : o \in local.data[k]
<1> USE DEF SafetyInv, RecordInv
<1>1. PICK k \in Key : o \in lifecycleCm.data[k]
  BY DEF Tracks
<1>2. lifecycleCm.exists
  BY <1>1 DEF DataInv, NoData
<1>3. localCurrent /\ local = Recorded(lifecycleCm, getCurrentGenKey)
  BY <1>2 DEF WriteAheadInv, LagInv, CopyInv
<1>4. TypeOK /\ lifecycleCm \in ConfigMap
  BY DEF LagInv, TypeOK, ClusterTypeOK
<1>5. CASE k \in {getCurrentGenKey, DirtyKey(getCurrentGenKey)}
  <2>1. o \in Deps[<<ver, agent.gen>>]
    BY <1>1, <1>4, <1>5, KeyFacts DEF DataInv
  <2>2. QED
    BY <2>1, <1>3, <1>4, KeyFacts, RecordedFacts
<1>6. CASE k \notin {getCurrentGenKey, DirtyKey(getCurrentGenKey)}
  BY <1>1, <1>3, <1>4, <1>6, RecordedFacts
<1>7. QED
  BY <1>5, <1>6

LEMMA UpdateWrite ==
    ASSUME UpdateApply, lifecycleCm' # lifecycleCm
    PROVE  /\ UNCHANGED <<cr, objs>> /\ pc = "updateApply"
           /\ ~local.exists \/ localCurrent
           /\ lifecycleCm'.data = local.data
<1>1. /\ UNCHANGED <<cr, objs>> /\ pc = "updateApply"
      /\ ~local.exists \/ localCurrent
      /\ WriteConfigMap([exists |-> TRUE, data |-> local.data])
  BY DEF UpdateApply
<1>2. lifecycleCm' = [exists |-> TRUE, data |-> local.data]
  BY <1>1 DEF WriteConfigMap
<1>3. QED
  BY <1>1, <1>2

LEMMA RecordUpdateApply == ASSUME SafetyInv, UpdateApply PROVE RecordInv'
<1> USE DEF SafetyInv, RecordInv
<1>1. pc = "updateApply" /\ UNCHANGED <<cr, objs, cmCache, ver>>
  BY DEF UpdateApply
<1>2. cr.exists /\ "v3" \in cr.finalizers /\ ~agent.deleting
  BY <1>1 DEF LagInv, PhaseInv, FinalizerInv, Applying
<1>3. CASE /\ ~local.exists \/ localCurrent
           /\ WriteConfigMap([exists |-> TRUE, data |-> local.data])
           /\ ContinueWithApply
  <2>1. /\ lifecycleCm'.exists /\ lifecycleCm'.data = local.data
        /\ UNCHANGED agent /\ pc' = "apply" /\ todo' = Deps[<<ver, agent.gen>>]
        /\ local' = Missing
    BY <1>3 DEF WriteConfigMap, ContinueWithApply
  <2>2. getCurrentGenKey' = getCurrentGenKey
    BY <1>1, <2>1 DEF getCurrentGenKey
  <2>3. DataInv'
    BY <1>1, <2>1, MissingFacts DEF DataInv
  <2>4. WriteAheadInv'
    BY <1>1, <2>1, <2>2 DEF WriteAheadInv, Cleaning
  <2>5. CleanupInv'
    BY <1>1, <1>2, <2>1 DEF CleanupInv
  <2>6. Tracked'
    BY <1>1, <1>3, <2>1, UpdateKeepsTracks DEF Tracked, Tracks
  <2>7. QED
    BY <2>3, <2>4, <2>5, <2>6
<1>4. CASE /\ local.exists /\ ~localCurrent
           /\ RetryConflict("update", ContinueWithApply)
           /\ UNCHANGED <<lifecycleCm, cacheCurrent>>
  <2>1. attempt + 1 < Attempts
    BY <1>1, <1>2, <1>4, LifecycleAssumption DEF CleanupInv, LagInv, TypeOK
  <2>2. UNCHANGED <<agent, local>> /\ pc' = "update"
    BY <1>4, <2>1 DEF RetryConflict
  <2>3. DataInv'
    BY <1>1, <1>4, <2>2 DEF DataInv
  <2>4. WriteAheadInv'
    BY <1>1, <1>4, <2>2 DEF WriteAheadInv, Cleaning
  <2>5. CleanupInv'
    BY <1>1, <2>2 DEF CleanupInv
  <2>6. Tracked'
    BY <1>1, <1>4 DEF Tracked, Tracks
  <2>7. QED
    BY <2>3, <2>4, <2>5, <2>6
<1>5. CASE Return(TRUE) /\ UNCHANGED <<lifecycleCm, cacheCurrent>>
  BY <1>1, <1>2, <1>5, RecordReturn
<1>6. QED
  BY <1>3, <1>4, <1>5 DEF UpdateApply
-----------------------------------------------------------------------------
(* CleanupDependents *)
LEMMA RecordCleanupGet == ASSUME BackoffSuffices, SafetyInv, CleanupGet PROVE RecordInv'
<1> USE DEF SafetyInv, RecordInv
<1>1. /\ UNCHANGED <<lifecycleCm, cmCache, cacheCurrent, objs, cr, ver, agent, attempt, visiting>>
      /\ pc = "cleanup" /\ pc' = "cleanupKeys"
      /\ local' = cmCache /\ localCurrent' = cacheCurrent
      /\ keys' = {k \in Key : cmCache.data[k] # {}}
  BY DEF CleanupGet, clusterVars, serverVars, cacheVars
<1>2. getCurrentGenKey' = getCurrentGenKey
  BY <1>1 DEF getCurrentGenKey
<1>3. DataInv'
  BY <1>1 DEF DataInv
<1>4. WriteAheadInv'
  BY <1>1, <1>2 DEF WriteAheadInv, Cleaning
<1>5. attempt = Attempts - 1 => localCurrent'
  BY <1>1 DEF CleanupGet, LastAttemptIsFresh
<1>6. localCurrent' => \A k \in Key \ keys' : lifecycleCm.data[k] = {}
  BY <1>1 DEF LagInv, CopyInv
<1>7. CleanupInv'
  BY <1>1, <1>5, <1>6 DEF CleanupInv
<1>8. Tracked'
  BY <1>1 DEF Tracked, Tracks
<1>9. QED
  BY <1>3, <1>4, <1>7, <1>8

LEMMA RecordDelete ==
    ASSUME SafetyInv, NEW k \in Key, DeleteDeprecated(k)
    PROVE  RecordInv'
<1> USE DEF SafetyInv, RecordInv
<1>1. /\ UNCHANGED <<lifecycleCm, cmCache, cacheCurrent, objs, cr, ver, agent, attempt,
                     local, localCurrent>>
      /\ pc = "cleanupKeys" /\ pc' \in {"cleanupKeys", "verifyDeletion"}
      /\ failed' \/ (keys' \cup visiting' = keys \cup visiting /\ UNCHANGED failed)
  <2>1. visiting = {}
    BY DEF DeleteDeprecated, LagInv, PhaseInv
  <2>2. QED
    BY <2>1 DEF DeleteDeprecated, cacheVars
<1>2. getCurrentGenKey' = getCurrentGenKey /\ currentDependents' = currentDependents
  BY <1>1 DEF getCurrentGenKey, currentDependents
<1>3. DataInv'
  BY <1>1 DEF DataInv
<1>4. WriteAheadInv'
  BY <1>1, <1>2 DEF WriteAheadInv, Cleaning
<1>5. CleanupInv'
  BY <1>1, <1>2 DEF CleanupInv
<1>6. Tracked'
  BY <1>1 DEF Tracked, Tracks
<1>7. QED
  BY <1>3, <1>4, <1>5, <1>6

LEMMA RecordVerify ==
    ASSUME SafetyInv, NEW k \in Key, VerifyDeletion(k)
    PROVE  RecordInv'
<1> USE DEF SafetyInv, RecordInv
<1>1. /\ UNCHANGED <<lifecycleCm, cmCache, cacheCurrent, objs, cr, ver, agent, attempt,
                     localCurrent, keys>>
      /\ pc = "verifyDeletion" /\ pc' = "cleanupKeys"
      /\ visiting = {k} /\ visiting' = {}
  BY DEF VerifyDeletion, serverVars, cacheVars, LagInv, PhaseInv
<1>2. getCurrentGenKey' = getCurrentGenKey /\ currentDependents' = currentDependents
  BY <1>1 DEF getCurrentGenKey, currentDependents
<1>3. \A j \in Key : local'.data[j] \subseteq local.data[j]
  BY DEF VerifyDeletion, LagInv, TypeOK, ConfigMap
<1>4. DataInv'
  BY <1>1, <1>3 DEF DataInv
<1>5. WriteAheadInv'
  BY <1>1, <1>2 DEF WriteAheadInv, Cleaning
<1>6. localCurrent /\ ~failed' => ~failed /\ lifecycleCm.data[k] \cap objs \subseteq currentDependents
  <2> SUFFICES ASSUME localCurrent, ~failed'
               PROVE  ~failed /\ lifecycleCm.data[k] \cap objs \subseteq currentDependents
      OBVIOUS
  <2>1. Deprecated(k) \cap objs = {} /\ ~failed
    BY DEF VerifyDeletion
  <2>2. local.data[k] = lifecycleCm.data[k]
    BY <1>1 DEF LagInv, CopyInv
  <2>3. QED
    BY <2>1, <2>2 DEF Deprecated
<1>7. CleanupInv'
  BY <1>1, <1>2, <1>6 DEF CleanupInv
<1>8. Tracked'
  BY <1>1 DEF Tracked, Tracks
<1>9. QED
  BY <1>4, <1>5, <1>7, <1>8

(* The write of CleanupDependents still lists whatever exists.              *)
LEMMA CleanupKeepsTracks ==
    ASSUME SafetyInv, pc = "cleanupKeys", localCurrent, NEW o \in objs
    PROVE  \E k \in Key : o \in local.data[k]
<1> USE DEF SafetyInv, RecordInv
<1>1. PICK k \in Key : o \in lifecycleCm.data[k]
  BY DEF Tracked, Tracks
<1>2. CASE local.data[k] = lifecycleCm.data[k]
  BY <1>1, <1>2
<1>3. CASE local.data[k] # lifecycleCm.data[k]
  <2>1. o \in currentDependents
    BY <1>1, <1>3 DEF LagInv, CopyInv
  <2>2. ~agent.deleting /\ o \in Deps[<<ver, agent.gen>>]
    BY <2>1 DEF currentDependents
  <2>3. o \in local.data[getCurrentGenKey]
    BY <2>2 DEF WriteAheadInv, Cleaning, LagInv, CopyInv
  <2>4. QED
    BY <2>3, KeyFacts DEF LagInv
<1>4. QED
  BY <1>2, <1>3

LEMMA RecordCleanupApply == ASSUME SafetyInv, CleanupApply PROVE RecordInv'
<1> USE DEF SafetyInv, RecordInv
<1>1. pc = "cleanupKeys" /\ keys = {} /\ visiting = {} /\ UNCHANGED <<cr, objs, cmCache, ver>>
  BY DEF CleanupApply, LagInv, PhaseInv
<1>2. objs # {} => "v3" \in cr'.finalizers
  BY <1>1 DEF CleanupInv
<1>3. ASSUME CleanupSucceeded, agent.deleting, objs = {}, DataInv', Tracked'
      PROVE  RecordInv'
  BY <1>1, <1>3 DEF CleanupSucceeded, WriteAheadInv, CleanupInv, Cleaning
<1>4. CASE /\ local.exists /\ localCurrent
           /\ WriteConfigMap(local)
           /\ IF failed THEN Return(TRUE) ELSE CleanupSucceeded
  <2>1. local' = Missing
    BY <1>4 DEF Return, CleanupSucceeded
  <2>2. DataInv'
    BY <1>1, <1>4, <2>1, MissingFacts DEF DataInv, WriteConfigMap
  <2>3. Tracked'
    BY <1>1, <1>4, CleanupKeepsTracks DEF Tracked, Tracks, WriteConfigMap
  <2>4. CASE ~failed /\ agent.deleting
    <3>1. objs = {}
      BY <1>1, <1>4, <2>4 DEF CleanupInv, Tracked, Tracks, currentDependents
    <3>2. QED
      BY <1>3, <1>4, <2>2, <2>3, <2>4, <3>1
  <2>5. CASE failed \/ ~agent.deleting
    BY <1>1, <1>2, <1>4, <2>2, <2>3, <2>5, RecordIdle DEF Return, CleanupSucceeded
  <2>6. QED
    BY <2>4, <2>5
<1>5. CASE Return(TRUE) /\ UNCHANGED <<lifecycleCm, cacheCurrent>>
  BY <1>1, <1>2, <1>5, RecordReturn
<1>6. CASE /\ local.exists /\ ~localCurrent
           /\ RetryConflict("cleanup", CleanupSucceeded)
           /\ UNCHANGED <<lifecycleCm, cacheCurrent>>
  <2>1. CASE attempt + 1 < Attempts
    <3>1. UNCHANGED <<agent, local>> /\ pc' = "cleanup"
      BY <1>6, <2>1 DEF RetryConflict
    <3>2. getCurrentGenKey' = getCurrentGenKey
      BY <1>1, <3>1 DEF getCurrentGenKey
    <3>3. DataInv'
      BY <1>1, <1>6, <3>1 DEF DataInv
    <3>4. WriteAheadInv'
      BY <1>1, <1>6, <3>1, <3>2 DEF WriteAheadInv, Cleaning
    <3>5. CleanupInv' /\ Tracked'
      BY <1>1, <1>6, <3>1 DEF CleanupInv, Tracked, Tracks
    <3>6. QED
      BY <3>3, <3>4, <3>5
  <2>2. CASE ~(attempt + 1 < Attempts)
    <3>1. objs = {}
      <4>1. attempt = Attempts - 1
        BY <2>2, LifecycleAssumption DEF LagInv, TypeOK
      <4>2. ~cr.exists
        BY <1>1, <1>6, <4>1 DEF CleanupInv
      <4>3. QED
        BY <4>2 DEF CleanupInv, LagInv, FinalizerInv
    <3>2. CleanupSucceeded
      BY <1>6, <2>2 DEF RetryConflict
    <3>3. local' = Missing
      BY <3>2 DEF CleanupSucceeded, Return
    <3>4. DataInv' /\ Tracked'
      BY <1>1, <1>6, <3>1, <3>3, MissingFacts DEF DataInv, Tracked
    <3>5. CASE agent.deleting
      BY <1>3, <3>1, <3>2, <3>4, <3>5
    <3>6. CASE ~agent.deleting
      BY <1>1, <1>2, <3>2, <3>4, <3>6, RecordIdle DEF CleanupSucceeded, Return
    <3>7. QED
      BY <3>5, <3>6
  <2>3. QED
    BY <2>1, <2>2
<1>7. QED
  BY <1>4, <1>5, <1>6 DEF CleanupApply
-----------------------------------------------------------------------------
LEMMA InitSafety == Init => SafetyInv
<1> SUFFICES ASSUME Init PROVE SafetyInv
    OBVIOUS
<1>1. DataInv
  BY MissingFacts DEF Init, ClusterInit, DataInv
<1>2. WriteAheadInv /\ CleanupInv /\ Tracked
  BY DEF Init, ClusterInit, WriteAheadInv, CleanupInv, Tracked, Cleaning
<1>3. QED
  BY <1>1, <1>2, InitLag DEF SafetyInv, RecordInv

LEMMA NextSafety ==
    ASSUME BackoffSuffices, CreationSeen, SafetyInv, [Next]_vars
    PROVE  SafetyInv'
<1>1. LagInv'
  BY NextLag DEF SafetyInv
<1>2. CASE Environment
  BY <1>1, <1>2, RecordEnvironment DEF SafetyInv
<1>3. CASE Reconcile
  BY <1>1, <1>3, RecordController, RecordUpdateGet, RecordUpdateApply, RecordCleanupGet,
     RecordDelete, RecordVerify, RecordCleanupApply
  DEF Reconcile, Lifecycle, SafetyInv
<1>4. CASE UNCHANGED vars
  BY <1>1, <1>4, RecordKept
  DEF vars, clusterVars, serverVars, cacheVars, localVars, SafetyInv
<1>5. QED
  BY <1>2, <1>3, <1>4 DEF Next

(* If the informer delivers a write within the backoff of retry, and a new  *)
(* ConfigMap before the next reconcile, SafetyInv holds for every set of    *)
(* objects, versions and generations and any number of faults and crashes.  *)
THEOREM SafetyInvariant ==
    ASSUME BackoffSuffices, CreationSeen
    PROVE  Spec => []SafetyInv
<1>1. SafetyInv /\ [Next]_vars => SafetyInv'
  BY NextSafety
<1>2. QED
  BY <1>1, InitSafety, PTL DEF Spec

(* Every dependent that exists is listed in the lifecycle ConfigMap.        *)
THEOREM TrackedCorrect == ASSUME BackoffSuffices, CreationSeen PROVE Spec => []Tracked
<1>1. SafetyInv => Tracked
  BY DEF SafetyInv, RecordInv
<1>2. QED
  BY <1>1, SafetyInvariant, PTL

(* No dependent outlives finalizerV3 or precedes it.                        *)
THEOREM FinalizerCorrect ==
    ASSUME BackoffSuffices, CreationSeen
    PROVE  Spec => []FinalizerGuardsDependents
<1>1. SafetyInv => FinalizerGuardsDependents
  BY DEF SafetyInv, RecordInv, CleanupInv, LagInv, FinalizerInv, FinalizerGuardsDependents
<1>2. QED
  BY <1>1, SafetyInvariant, PTL

(* applyAll starts only after the entry of the generation was written.      *)
THEOREM WriteAheadCorrect ==
    ASSUME BackoffSuffices, CreationSeen
    PROVE  Spec => []RecordedBeforeApply
<1>1. SafetyInv => RecordedBeforeApply
  BY DEF SafetyInv, RecordInv, WriteAheadInv, RecordedBeforeApply
<1>2. QED
  BY <1>1, SafetyInvariant, PTL

(* UpdateDependentLifecycleInfo never drops what the ConfigMap lists.       *)
THEOREM UpdateCorrect == ASSUME BackoffSuffices, CreationSeen PROVE Spec => UpdateOnlyAdds
<1> DEFINE A == pc = "updateApply" /\ lifecycleCm'.exists =>
                  \A o \in Object : Tracks(lifecycleCm, o) => Tracks(lifecycleCm', o)
<1>1. SafetyInv /\ [Next]_vars => [A]_vars
  <2> SUFFICES ASSUME SafetyInv, Next, pc = "updateApply", lifecycleCm'.exists,
                      NEW o \in Object, Tracks(lifecycleCm, o)
               PROVE  Tracks(lifecycleCm', o)
      OBVIOUS
  <2>1. CASE lifecycleCm' = lifecycleCm
    BY <2>1
  <2>2. CASE UpdateApply /\ lifecycleCm' # lifecycleCm
    BY <2>2, UpdateWrite, UpdateKeepsTracks DEF Tracks
  <2>3. CASE GarbageCollectRecord
    BY <2>3 DEF GarbageCollectRecord, Missing
  <2>4. QED
    BY <2>1, <2>2, <2>3
    DEF Next, Environment, Reconcile, Lifecycle, OtherEvent, RefreshConfigMap, Vanish, UserEdit,
        UserDelete, GarbageCollect, RefreshAgent, Restart, StartReconcile,
        CleanupHelmChart, RemoveHelmFinalizer, AddFinalizer, RemoveFinalizer, updateAgent,
        DryRun, ApplyDone, ApplyObject, UpdateGet, CleanupGet, CleanupApply,
        DeleteDeprecated, VerifyDeletion, clusterVars, serverVars
<1>2. QED
  BY <1>1, SafetyInvariant, PTL DEF Spec, UpdateOnlyAdds
-----------------------------------------------------------------------------
(* A step that leaves the dependents and the record alone, and gives up the *)
(* finalizer only when no dependent is left, is a step of the registry.     *)
LEMMA RegistryGuardStep ==
    ASSUME UNCHANGED <<objs, lifecycleCm>>, Guarded /\ ~Guarded' => objs = {}
    PROVE  [Registry!Next]_(Registry!vars)
<1>1. TrackedObjects' = TrackedObjects
  BY DEF TrackedObjects, Tracks
<1>2. QED
  BY <1>1 DEF Registry!Next, Registry!vars, Registry!Guard, Registry!Release, Guarded

LEMMA RegistryStep ==
    ASSUME SafetyInv, SafetyInv', [Next]_vars
    PROVE  [Registry!Next]_(Registry!vars)
<1> USE DEF SafetyInv, RecordInv
<1>1. CASE UNCHANGED <<cr, objs, lifecycleCm>>
  BY <1>1, RegistryGuardStep DEF Guarded
<1>2. CASE UserEdit \/ UserDelete
  <2>1. Guarded' = Guarded
    BY <1>2 DEF UserEdit, UserDelete, Guarded, LagInv, TypeOK, ClusterTypeOK, Agent
  <2>2. QED
    BY <1>2, <2>1, RegistryGuardStep DEF UserEdit, UserDelete
<1>3. CASE RemoveHelmFinalizer \/ AddFinalizer \/ RemoveFinalizer
  <2>1. UNCHANGED <<objs, lifecycleCm>>
    BY <1>3 DEF RemoveHelmFinalizer, AddFinalizer, RemoveFinalizer, updateAgent
  <2>2. ASSUME Guarded, ~Guarded' PROVE objs = {}
    <3>1. "v3" \notin cr'.finalizers
      BY <2>2 DEF Guarded, LagInv, FinalizerInv, updateAgent, PatchedFinalizers,
                  RemoveHelmFinalizer, AddFinalizer, RemoveFinalizer, TypeOK, ClusterTypeOK, Agent
    <3>2. QED
      BY <2>1, <3>1 DEF CleanupInv
  <2>3. QED
    BY <2>1, <2>2, RegistryGuardStep
<1>4. ASSUME NEW o \in Object, Vanish(o) \/ GarbageCollect(o)
      PROVE  [Registry!Next]_(Registry!vars)
  <2>1. objs' = objs \ {o} /\ UNCHANGED <<cr, lifecycleCm>>
    BY <1>4 DEF Vanish, GarbageCollect
  <2>2. Registry!Vanish(o)
    BY <2>1 DEF Registry!Vanish, TrackedObjects, Tracks, Guarded
  <2>3. QED
    BY <2>2 DEF Registry!Next
<1>5. ASSUME NEW o \in Object, ApplyObject(o)
      PROVE  [Registry!Next]_(Registry!vars)
  <2>1. UNCHANGED <<cr, lifecycleCm>> /\ pc = "apply" /\ o \in todo
    BY <1>5 DEF ApplyObject
  <2>2. CASE objs' = objs \cup {o}
    <3>1. Guarded
      BY <2>1 DEF Guarded, LagInv, PhaseInv, FinalizerInv, Applying
    <3>2. o \in TrackedObjects
      BY <2>1, KeyFacts DEF TrackedObjects, Tracks, WriteAheadInv, LagInv
    <3>3. Registry!Create(o)
      BY <2>1, <2>2, <3>1, <3>2 DEF Registry!Create, TrackedObjects, Tracks, Guarded
    <3>4. QED
      BY <3>3 DEF Registry!Next
  <2>3. QED
    BY <1>1, <1>5, <2>1, <2>2 DEF ApplyObject
<1>6. CASE UpdateApply /\ lifecycleCm' # lifecycleCm
  <2>1. /\ UNCHANGED <<cr, objs>> /\ pc = "updateApply"
        /\ ~local.exists \/ localCurrent
        /\ lifecycleCm'.data = local.data
    BY <1>6, UpdateWrite
  <2>2. TrackedObjects \subseteq TrackedObjects'
    BY <2>1, UpdateKeepsTracks DEF TrackedObjects, Tracks
  <2>3. Guarded /\ Guarded'
    BY <2>1 DEF Guarded, LagInv, PhaseInv, FinalizerInv, Applying
  <2>4. Registry!Record(TrackedObjects')
    BY <2>1, <2>2, <2>3 DEF Registry!Record
  <2>5. TrackedObjects' \in SUBSET Object
    BY DEF TrackedObjects
  <2>6. QED
    BY <2>4, <2>5 DEF Registry!Next
<1>7. ASSUME UNCHANGED <<cr, objs>>, TrackedObjects' \subseteq TrackedObjects
      PROVE  [Registry!Next]_(Registry!vars)
  <2> DEFINE S == TrackedObjects \ TrackedObjects'
  <2>1. S \cap objs = {}
    BY <1>7 DEF TrackedObjects, Tracked, Tracks
  <2>2. TrackedObjects' = TrackedObjects \ S
    BY <1>7
  <2>3. Registry!Forget(S)
    BY <1>7, <2>1, <2>2 DEF Registry!Forget, Guarded
  <2>4. S \in SUBSET Object
    BY DEF TrackedObjects
  <2>5. QED
    BY <2>3, <2>4 DEF Registry!Next
<1>8. CASE CleanupApply /\ lifecycleCm' # lifecycleCm
  <2>1. UNCHANGED <<cr, objs>> /\ lifecycleCm' = local /\ localCurrent /\ pc = "cleanupKeys"
    BY <1>8 DEF CleanupApply, WriteConfigMap
  <2>2. \A k \in Key : local.data[k] \subseteq lifecycleCm.data[k]
    BY <2>1 DEF LagInv, CopyInv
  <2>3. TrackedObjects' \subseteq TrackedObjects
    BY <2>1, <2>2 DEF TrackedObjects, Tracks
  <2>4. QED
    BY <1>7, <2>1, <2>3
<1>9. CASE GarbageCollectRecord
  BY <1>7, <1>9, MissingFacts DEF GarbageCollectRecord, TrackedObjects, Tracks
<1>10. QED
  BY <1>1, <1>2, <1>3, <1>4, <1>5, <1>6, <1>8, <1>9
  DEF Next, Environment, Reconcile, Lifecycle, OtherEvent, RefreshConfigMap,
      RefreshAgent, Restart, StartReconcile, CleanupHelmChart, DryRun, ApplyDone,
      UpdateGet, UpdateApply, CleanupGet, CleanupApply, DeleteDeprecated, VerifyDeletion,
      vars, clusterVars, serverVars

(* The controller with its lifecycle manager implements DependentRegistry.  *)
THEOREM RegistryRefinement ==
    ASSUME BackoffSuffices, CreationSeen
    PROVE  Spec => RegistrySpec
<1>1. Init => Registry!Init
  <2> SUFFICES ASSUME Init PROVE Registry!Init
      OBVIOUS
  <2>1. objs = {} /\ TrackedObjects = {}
    BY MissingFacts DEF Init, ClusterInit, TrackedObjects, Tracks
  <2>2. PICK F \in {{}, {"v1"}} :
            cr = [exists |-> TRUE, gen |-> 1, deleting |-> FALSE, finalizers |-> F]
    BY DEF Init, ClusterInit
  <2>3. ~Guarded
    BY <2>2 DEF Guarded
  <2>4. QED
    BY <2>1, <2>3 DEF Registry!Init, Guarded
<1>2. SafetyInv /\ SafetyInv' /\ [Next]_vars => [Registry!Next]_(Registry!vars)
  BY RegistryStep
<1>3. QED
  BY <1>1, <1>2, SafetyInvariant, PTL DEF Spec, RegistrySpec, Registry!Spec
=============================================================================
