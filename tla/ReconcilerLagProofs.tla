------------------------- MODULE ReconcilerLagProofs -------------------------
(***************************************************************************)
(* What holds however far the informers lag behind the API server, for     *)
(* every set of objects and versions and every bound: the variables keep   *)
(* their types, LagInv is inductive, dependents are created only under     *)
(* finalizerV3, CleanupDependents forgets only what is gone or current,    *)
(* dependents common to all generations stay, and the Helm release holds   *)
(* finalizerV1.                                                            *)
(***************************************************************************)
EXTENDS ReconcilerInvariants, TLAPS

USE DEF Finalizer

LEMMA GenFacts == 1 \in Gen /\ Gen \subseteq Nat
BY ConstantsAssumption DEF Gen

LEMMA ConstantValues == Missing \in ConfigMap /\ NoAgent \in Agent
BY GenFacts DEF Missing, ConfigMap, NoData, NoAgent, Agent

(* A finalizer patch yields a well-formed CR.                               *)
LEMMA PatchType ==
    ASSUME cr \in Agent, NEW F, F \subseteq Finalizer
    PROVE  PatchedFinalizers(F) \in Agent
BY DEF PatchedFinalizers, Agent

LEMMA KeyType ==
    ASSUME agent \in Agent, ver \in Version
    PROVE  getCurrentGenKey \in Key /\ DirtyKey(getCurrentGenKey) \in Key
BY DEF getCurrentGenKey, DirtyKey, Key, Agent

LEMMA DepsType ==
    ASSUME agent \in Agent, ver \in Version
    PROVE  Deps[<<ver, agent.gen>>] \subseteq Object
BY LifecycleAssumption DEF Agent

LEMMA RecordedType ==
    ASSUME agent \in Agent, ver \in Version, NEW c \in ConfigMap
    PROVE  Recorded(c, getCurrentGenKey) \in ConfigMap
BY KeyType, DepsType DEF Recorded, ConfigMap

(* The local state a reconcile leaves behind when it returns.               *)
LEMMA ReturnType ==
    ASSUME TypeOK, NEW b \in BOOLEAN, Return(b)
    PROVE  /\ pc' \in PC /\ queued' \in BOOLEAN
           /\ agent' \in Agent
           /\ local' \in ConfigMap /\ localCurrent' \in BOOLEAN
           /\ attempt' \in 0..(Attempts - 1)
           /\ todo' \subseteq Object
           /\ keys' \subseteq Key /\ visiting' \subseteq Key
           /\ failed' \in BOOLEAN
<1>1. queued' \in BOOLEAN
  BY Zenon DEF Return, TypeOK, ClusterTypeOK
<1>2. 0 \in 0..(Attempts - 1)
  BY LifecycleAssumption
<1>3. QED
  BY <1>1, <1>2, ConstantValues DEF Return, PC

LEMMA InitType == Init => TypeOK
<1> SUFFICES ASSUME Init PROVE TypeOK
    OBVIOUS
<1>1. cr \in Agent /\ crCache \in Agent
  <2>1. PICK F \in {{}, {"v1"}} :
            cr = [exists |-> TRUE, gen |-> 1, deleting |-> FALSE, finalizers |-> F]
    BY DEF Init, ClusterInit
  <2>2. QED
    BY <2>1, GenFacts DEF Init, ClusterInit, Agent
<1>2. 0 \in 0..(Attempts - 1) /\ 0 \in 0..MaxFaults /\ 0 \in 0..MaxRestarts
  BY LifecycleAssumption, ConstantsAssumption
<1>3. ClusterTypeOK
  BY <1>1, <1>2, ConstantValues DEF Init, ClusterInit, ClusterTypeOK
<1>4. helmRelease \in BOOLEAN
  BY DEF Init
<1>5. QED
  BY <1>2, <1>3, <1>4, ConstantValues DEF Init, TypeOK, PC
-----------------------------------------------------------------------------
LEMMA EnvironmentType == TypeOK /\ Environment => TypeOK'
<1> SUFFICES ASSUME TypeOK, Environment PROVE TypeOK'
    OBVIOUS
<1> USE DEF TypeOK, ClusterTypeOK, clusterVars, serverVars, cacheVars, boundVars, localVars
<1>1. CASE UserEdit /\ UNCHANGED <<ver, pc, localVars, helmRelease>>
  <2>1. cr' \in Agent
    BY <1>1, ConstantsAssumption DEF UserEdit, Agent, Gen
  <2>2. QED
    BY <1>1, <2>1 DEF UserEdit
<1>2. CASE UserDelete /\ UNCHANGED <<ver, pc, localVars, helmRelease>>
  <2>1. cr.gen + 1 \in Gen
    BY <1>2, ConstantsAssumption DEF UserDelete, Agent, Gen
  <2>2. cr' \in Agent
    BY <1>2, <2>1 DEF UserDelete, Agent
  <2>3. QED
    BY <1>2, <2>2 DEF UserDelete
<1>3. CASE OtherEvent /\ UNCHANGED <<ver, pc, localVars, helmRelease>>
  BY <1>3 DEF OtherEvent
<1>4. CASE RefreshConfigMap /\ UNCHANGED <<ver, pc, localVars, helmRelease>>
  BY <1>4 DEF RefreshConfigMap
<1>5. ASSUME NEW o \in Object, Vanish(o) /\ UNCHANGED <<ver, pc, localVars, helmRelease>>
      PROVE  TypeOK'
  BY <1>5 DEF Vanish
<1>6. CASE GarbageCollectRecord /\ UNCHANGED helmRelease
  BY <1>6, ConstantValues DEF GarbageCollectRecord
<1>7. ASSUME NEW o \in Object, GarbageCollect(o) /\ UNCHANGED helmRelease
      PROVE  TypeOK'
  BY <1>7 DEF GarbageCollect
<1>8. CASE RefreshAgent
  BY <1>8 DEF RefreshAgent
<1>9. ASSUME NEW v \in Version, Restart(v)
      PROVE  TypeOK'
  <2>1. 0 \in 0..(Attempts - 1)
    BY LifecycleAssumption
  <2>2. restarts' \in 0..MaxRestarts
    BY <1>9, ConstantsAssumption DEF Restart
  <2>3. queued' \in BOOLEAN
    BY <1>9 DEF Restart, Agent
  <2>4. QED
    BY <1>9, <2>1, <2>2, <2>3, ConstantValues DEF Restart, PC
<1>10. QED
  BY <1>1, <1>2, <1>3, <1>4, <1>5, <1>6, <1>7, <1>8, <1>9 DEF Environment
-----------------------------------------------------------------------------
LEMMA FaultType == TypeOK /\ Fault => faults' \in 0..MaxFaults
BY ConstantsAssumption DEF TypeOK, ClusterTypeOK, Fault

LEMMA LifecycleType == TypeOK /\ Lifecycle /\ UNCHANGED helmRelease => TypeOK'
<1> SUFFICES ASSUME TypeOK, Lifecycle, UNCHANGED helmRelease PROVE TypeOK'
    OBVIOUS
<1> USE DEF TypeOK, ClusterTypeOK, clusterVars, serverVars, cacheVars, boundVars
<1>0. 0 \in 0..(Attempts - 1)
  BY LifecycleAssumption
<1>1. CASE UpdateGet
  BY <1>1, RecordedType DEF UpdateGet, PC
<1>2. CASE UpdateApply
  <2>1. UNCHANGED <<cr, objs, terminating, crCache, cmCache, ver>>
    BY <1>2 DEF UpdateApply
  <2>2. ASSUME ContinueWithApply, UNCHANGED boundVars,
               lifecycleCm' \in ConfigMap, cacheCurrent' \in BOOLEAN
        PROVE  TypeOK'
    BY <2>1, <2>2, <1>0, DepsType, ConstantValues DEF ContinueWithApply, PC
  <2>3. CASE /\ WriteConfigMap([exists |-> TRUE, data |-> local.data])
             /\ ContinueWithApply
             /\ UNCHANGED boundVars
    <3>1. lifecycleCm' \in ConfigMap
      BY <2>3 DEF WriteConfigMap, ConfigMap
    <3>2. cacheCurrent' \in BOOLEAN
      BY <2>3 DEF WriteConfigMap
    <3>3. QED
      BY <2>2, <2>3, <3>1, <3>2
  <2>4. CASE /\ RetryConflict("update", ContinueWithApply)
             /\ UNCHANGED <<lifecycleCm, cacheCurrent, boundVars>>
    <3>1. CASE attempt + 1 < Attempts
      <4>1. attempt' \in 0..(Attempts - 1)
        BY <2>4, <3>1, LifecycleAssumption DEF RetryConflict
      <4>2. QED
        BY <2>1, <2>4, <3>1, <4>1 DEF RetryConflict, PC
    <3>2. CASE ~(attempt + 1 < Attempts)
      BY <2>2, <2>4, <3>2 DEF RetryConflict
    <3>3. QED
      BY <3>1, <3>2
  <2>5. CASE /\ Fault /\ Return(TRUE)
             /\ UNCHANGED <<lifecycleCm, cacheCurrent, restarts>>
    BY <2>1, <2>5, FaultType, ReturnType
  <2>6. QED
    BY <1>2, <2>3, <2>4, <2>5 DEF UpdateApply
<1>3. CASE CleanupGet
  BY <1>3 DEF CleanupGet, PC, Key
<1>4. CASE CleanupApply
  <2>1. UNCHANGED <<cr, objs, terminating, crCache, cmCache, ver>>
    BY <1>4 DEF CleanupApply
  <2>2. ASSUME NEW b \in BOOLEAN, Return(b), faults' \in 0..MaxFaults, UNCHANGED restarts,
               lifecycleCm' \in ConfigMap, cacheCurrent' \in BOOLEAN
        PROVE  TypeOK'
    BY <2>1, <2>2, ReturnType
  <2>3. ASSUME CleanupSucceeded, UNCHANGED boundVars,
               lifecycleCm' \in ConfigMap, cacheCurrent' \in BOOLEAN
        PROVE  TypeOK'
    <3>1. CASE agent.deleting
      BY <2>1, <2>3, <3>1, <1>0, ConstantValues DEF CleanupSucceeded, PC
    <3>2. CASE ~agent.deleting
      BY <2>2, <2>3, <3>2 DEF CleanupSucceeded
    <3>3. QED
      BY <3>1, <3>2
  <2>4. CASE /\ WriteConfigMap(local)
             /\ IF failed THEN Return(TRUE) ELSE CleanupSucceeded
             /\ UNCHANGED boundVars
    <3>1. lifecycleCm' \in ConfigMap
      BY <2>4 DEF WriteConfigMap
    <3>2. cacheCurrent' \in BOOLEAN
      BY <2>4 DEF WriteConfigMap
    <3>3. QED
      BY <2>2, <2>3, <2>4, <3>1, <3>2
  <2>5. CASE /\ RetryConflict("cleanup", CleanupSucceeded)
             /\ UNCHANGED <<lifecycleCm, cacheCurrent, boundVars>>
    <3>1. CASE attempt + 1 < Attempts
      <4>1. attempt' \in 0..(Attempts - 1)
        BY <2>5, <3>1, LifecycleAssumption DEF RetryConflict
      <4>2. QED
        BY <2>1, <2>5, <3>1, <4>1 DEF RetryConflict, PC
    <3>2. CASE ~(attempt + 1 < Attempts)
      BY <2>3, <2>5, <3>2 DEF RetryConflict
    <3>3. QED
      BY <3>1, <3>2
  <2>6. CASE Return(TRUE) /\ UNCHANGED <<lifecycleCm, cacheCurrent, boundVars>>
    BY <2>2, <2>6
  <2>7. CASE Fault /\ Return(TRUE) /\ UNCHANGED <<lifecycleCm, cacheCurrent, restarts>>
    BY <2>2, <2>7, FaultType
  <2>8. QED
    BY <1>4, <2>4, <2>5, <2>6, <2>7 DEF CleanupApply
<1>5. ASSUME NEW k \in Key, DeleteDeprecated(k)
      PROVE  TypeOK'
  BY <1>5, FaultType DEF DeleteDeprecated, PC
<1>6. ASSUME NEW k \in Key, VerifyDeletion(k)
      PROVE  TypeOK'
  <2>1. local' \in ConfigMap
    BY <1>6 DEF VerifyDeletion, ConfigMap
  <2>2. failed' \in BOOLEAN /\ faults' \in 0..MaxFaults
    BY <1>6, FaultType DEF VerifyDeletion
  <2>3. QED
    BY <1>6, <2>1, <2>2 DEF VerifyDeletion, PC
<1>7. QED
  BY <1>1, <1>2, <1>3, <1>4, <1>5, <1>6 DEF Lifecycle

LEMMA ReconcileType == TypeOK /\ Reconcile => TypeOK'
<1> SUFFICES ASSUME TypeOK, Reconcile PROVE TypeOK'
    OBVIOUS
<1> USE DEF TypeOK, ClusterTypeOK, serverVars, cacheVars, boundVars, localVars
<1>1. CASE StartReconcile
  BY <1>1 DEF StartReconcile, NextStep, handleDeletion, addOrUpdateFinalizers, PC
<1>2. CASE CleanupHelmChart
  BY <1>2, FaultType, ReturnType DEF CleanupHelmChart, PC
<1>3. ASSUME NEW F, F \subseteq Finalizer, updateAgent(F)
      PROVE  TypeOK'
  BY <1>3, FaultType, ReturnType, PatchType DEF updateAgent
<1>4. CASE RemoveHelmFinalizer \/ AddFinalizer \/ RemoveFinalizer
  BY <1>3, <1>4 DEF RemoveHelmFinalizer, AddFinalizer, RemoveFinalizer, Agent
<1>5. CASE DryRun
  BY <1>5, FaultType, ReturnType DEF DryRun, PC
<1>6. CASE ApplyDone
  BY <1>6, ReturnType DEF ApplyDone, PC
<1>7. ASSUME NEW o \in Object, ApplyObject(o)
      PROVE  TypeOK'
  BY <1>7, FaultType DEF ApplyObject
<1>8. QED
  BY <1>1, <1>2, <1>4, <1>5, <1>6, <1>7, LifecycleType DEF Reconcile

(* Every variable keeps its type: no retry counts past its attempts, no     *)
(* object is under deletion that does not exist.                            *)
THEOREM TypeCorrect == Spec => []TypeOK
<1>1. TypeOK /\ UNCHANGED vars => TypeOK'
  BY DEF TypeOK, ClusterTypeOK, vars, clusterVars, serverVars, cacheVars, boundVars, localVars
<1>2. TypeOK /\ [Next]_vars => TypeOK'
  BY <1>1, EnvironmentType, ReconcileType DEF Next
<1>3. QED
  BY InitType, <1>2, PTL DEF Spec
-----------------------------------------------------------------------------
LEMMA ReturnPhase == ASSUME NEW b, Return(b) PROVE PhaseInv'
BY DEF Return, PhaseInv, Applying, Cleaning, NoAgent

LEMMA PhaseEnvironment == TypeOK /\ PhaseInv /\ Environment => PhaseInv'
<1> SUFFICES ASSUME TypeOK, PhaseInv, Environment PROVE PhaseInv'
    OBVIOUS
<1>1. CASE UNCHANGED <<pc, agent, visiting, keys>>
  BY <1>1 DEF PhaseInv, Applying, Cleaning
<1>2. ASSUME NEW v \in Version, Restart(v) PROVE PhaseInv'
  BY <1>2 DEF Restart, PhaseInv, Applying, Cleaning, NoAgent
<1>3. QED
  BY <1>1, <1>2 DEF Environment, GarbageCollect, GarbageCollectRecord, RefreshAgent, localVars

LEMMA PhaseReconcile == TypeOK /\ PhaseInv /\ Reconcile => PhaseInv'
<1> SUFFICES ASSUME TypeOK, PhaseInv, Reconcile PROVE PhaseInv'
    OBVIOUS
<1> USE DEF PhaseInv, Applying, Cleaning, localVars
<1>1. CASE StartReconcile
  BY <1>1 DEF StartReconcile, NextStep, handleDeletion, addOrUpdateFinalizers
<1>2. CASE CleanupHelmChart
  BY <1>2, ReturnPhase DEF CleanupHelmChart
<1>3. CASE RemoveHelmFinalizer \/ AddFinalizer \/ RemoveFinalizer
  BY <1>3, ReturnPhase DEF RemoveHelmFinalizer, AddFinalizer, RemoveFinalizer, updateAgent
<1>4. CASE DryRun
  BY <1>4, ReturnPhase DEF DryRun
<1>5. CASE ApplyDone
  BY <1>5, ReturnPhase DEF ApplyDone
<1>6. ASSUME NEW o \in Object, ApplyObject(o) PROVE PhaseInv'
  BY <1>6 DEF ApplyObject
<1>7. CASE UpdateGet
  BY <1>7 DEF UpdateGet
<1>8. CASE UpdateApply
  BY <1>8, ReturnPhase DEF UpdateApply, RetryConflict, ContinueWithApply
<1>9. CASE CleanupGet
  BY <1>9 DEF CleanupGet
<1>10. CASE CleanupApply
  BY <1>10, ReturnPhase DEF CleanupApply, RetryConflict, CleanupSucceeded
<1>11. ASSUME NEW k \in Key, DeleteDeprecated(k) PROVE PhaseInv'
  BY <1>11 DEF DeleteDeprecated
<1>12. ASSUME NEW k \in Key, VerifyDeletion(k) PROVE PhaseInv'
  BY <1>12 DEF VerifyDeletion
<1>13. QED
  BY <1>1, <1>2, <1>3, <1>4, <1>5, <1>6, <1>7, <1>8, <1>9, <1>10, <1>11, <1>12
  DEF Reconcile, Lifecycle
-----------------------------------------------------------------------------
(* A return without a write to the CR.                                      *)
LEMMA ReturnFinalizer ==
    ASSUME FinalizerInv, NEW b, Return(b), UNCHANGED <<cr, crCache>>
    PROVE  FinalizerInv'
BY DEF FinalizerInv, Return, NoAgent

LEMMA FinalizerEnvironment == TypeOK /\ FinalizerInv /\ Environment => FinalizerInv'
<1> SUFFICES ASSUME TypeOK, FinalizerInv, Environment PROVE FinalizerInv'
    OBVIOUS
<1> USE DEF FinalizerInv
<1>1. CASE UNCHANGED <<cr, crCache, agent, pc, helmRelease>>
  BY <1>1
<1>2. CASE UserEdit /\ UNCHANGED <<ver, pc, localVars, helmRelease>>
  BY <1>2 DEF UserEdit, TypeOK, ClusterTypeOK, Agent, cacheVars, localVars
<1>3. CASE UserDelete /\ UNCHANGED <<ver, pc, localVars, helmRelease>>
  BY <1>3 DEF UserDelete, TypeOK, ClusterTypeOK, Agent, cacheVars, localVars
<1>4. CASE RefreshAgent
  BY <1>4 DEF RefreshAgent, serverVars, localVars
<1>5. ASSUME NEW v \in Version, Restart(v) PROVE FinalizerInv'
  BY <1>5 DEF Restart, serverVars, NoAgent
<1>6. QED
  BY <1>1, <1>2, <1>3, <1>4, <1>5
  DEF Environment, OtherEvent, RefreshConfigMap, Vanish, GarbageCollect, GarbageCollectRecord,
      serverVars, cacheVars, localVars

LEMMA FinalizerReconcile == TypeOK /\ PhaseInv /\ FinalizerInv /\ Reconcile => FinalizerInv'
<1> SUFFICES ASSUME TypeOK, PhaseInv, FinalizerInv, Reconcile PROVE FinalizerInv'
    OBVIOUS
<1>1. ASSUME UNCHANGED <<cr, crCache, agent, helmRelease>>,
             pc # "idle", pc' # "removeV1" \/ UNCHANGED pc
      PROVE  FinalizerInv'
  BY <1>1 DEF FinalizerInv
<1>2. CASE StartReconcile
  BY <1>2 DEF StartReconcile, NextStep, handleDeletion, addOrUpdateFinalizers, FinalizerInv, serverVars, cacheVars
<1>3. CASE CleanupHelmChart
  BY <1>3, ReturnFinalizer DEF CleanupHelmChart, FinalizerInv, serverVars, cacheVars, localVars
<1>4. ASSUME NEW F, updateAgent(F), pc # "idle",
             cr.exists /\ (cr.deleting => F \subseteq cr.finalizers)
                /\ cr' = PatchedFinalizers(F) /\ Return(TRUE) =>
                /\ "v1" \notin F
                /\ "v3" \in F => "v1" \notin crCache.finalizers
                /\ "v3" \in cr.finalizers \ F => crCache.deleting
      PROVE  FinalizerInv'
  <2>1. CASE UNCHANGED cr
    BY <1>4, <2>1, ReturnFinalizer DEF updateAgent, cacheVars
  <2>2. CASE ~UNCHANGED cr
    <3>1. /\ cr.exists /\ (cr.deleting => F \subseteq cr.finalizers)
          /\ cr' = PatchedFinalizers(F) /\ Return(TRUE)
          /\ UNCHANGED <<crCache, helmRelease>>
      BY <1>4, <2>2 DEF updateAgent, cacheVars
    <3>2. /\ cr'.finalizers = F /\ cr'.deleting = cr.deleting
          /\ ~cr'.exists => F = {}
      BY <3>1 DEF PatchedFinalizers, TypeOK, ClusterTypeOK, Agent
    <3>3. agent' = NoAgent /\ pc' = "idle"
      BY <3>1 DEF Return
    <3>4. QED
      BY <1>4, <3>1, <3>2, <3>3 DEF FinalizerInv, NoAgent
  <2>3. QED
    BY <2>1, <2>2
<1>5. CASE RemoveHelmFinalizer
  BY <1>4, <1>5 DEF RemoveHelmFinalizer, FinalizerInv, PhaseInv
<1>6. CASE AddFinalizer
  BY <1>4, <1>6 DEF AddFinalizer, FinalizerInv, PhaseInv
<1>7. CASE RemoveFinalizer
  BY <1>4, <1>7 DEF RemoveFinalizer, FinalizerInv, PhaseInv
<1>8. CASE DryRun
  BY <1>1, <1>8, ReturnFinalizer DEF DryRun, serverVars, cacheVars, localVars
<1>9. CASE ApplyDone
  BY <1>1, <1>9, ReturnFinalizer DEF ApplyDone, serverVars, cacheVars, localVars
<1>10. ASSUME NEW o \in Object, ApplyObject(o) PROVE FinalizerInv'
  BY <1>1, <1>10 DEF ApplyObject, cacheVars
<1>11. CASE UpdateGet /\ UNCHANGED helmRelease
  BY <1>1, <1>11 DEF UpdateGet, clusterVars, serverVars, cacheVars
<1>12. CASE UpdateApply /\ UNCHANGED helmRelease
  BY <1>1, <1>12, ReturnFinalizer DEF UpdateApply, RetryConflict, ContinueWithApply
<1>13. CASE CleanupGet /\ UNCHANGED helmRelease
  BY <1>1, <1>13 DEF CleanupGet, clusterVars, serverVars, cacheVars
<1>14. CASE CleanupApply /\ UNCHANGED helmRelease
  BY <1>1, <1>14, ReturnFinalizer DEF CleanupApply, RetryConflict, CleanupSucceeded
<1>15. ASSUME NEW k \in Key, DeleteDeprecated(k), UNCHANGED helmRelease PROVE FinalizerInv'
  BY <1>1, <1>15 DEF DeleteDeprecated, cacheVars
<1>16. ASSUME NEW k \in Key, VerifyDeletion(k), UNCHANGED helmRelease PROVE FinalizerInv'
  BY <1>1, <1>16 DEF VerifyDeletion, serverVars, cacheVars
<1>17. QED
  BY <1>2, <1>3, <1>5, <1>6, <1>7, <1>8, <1>9, <1>10, <1>11, <1>12, <1>13, <1>14, <1>15, <1>16
  DEF Reconcile, Lifecycle
-----------------------------------------------------------------------------
(* CopyInv asks nothing of a local copy that is not current.                *)
LEMMA CopyDropped ==
    ASSUME ~localCurrent', cacheCurrent' => cmCache' = lifecycleCm'
    PROVE  CopyInv'
BY DEF CopyInv

(* The steps that leave the ConfigMap and its copies alone and at most      *)
(* remove dependents.                                                       *)
LEMMA CopyKept ==
    ASSUME CopyInv, objs' \subseteq objs,
           UNCHANGED <<lifecycleCm, cmCache, cacheCurrent, ver, pc, agent, local,
                       localCurrent, keys, visiting>>
    PROVE  CopyInv'
<1>1. getCurrentGenKey' = getCurrentGenKey /\ currentDependents' = currentDependents
  BY DEF getCurrentGenKey, currentDependents
<1>2. Recorded(lifecycleCm, getCurrentGenKey)' = Recorded(lifecycleCm, getCurrentGenKey)
  BY <1>1 DEF Recorded
<1>3. QED
  BY <1>1, <1>2 DEF CopyInv

LEMMA CopyEnvironment == TypeOK /\ CopyInv /\ Environment => CopyInv'
<1> SUFFICES ASSUME TypeOK, CopyInv, Environment PROVE CopyInv'
    OBVIOUS
<1>1. CASE RefreshConfigMap /\ UNCHANGED <<ver, pc, localVars, helmRelease>>
  BY <1>1, CopyDropped DEF RefreshConfigMap, CopyInv, serverVars, localVars
<1>2. CASE GarbageCollectRecord
  BY <1>2, CopyDropped DEF GarbageCollectRecord
<1>3. ASSUME NEW v \in Version, Restart(v) PROVE CopyInv'
  BY <1>3, CopyDropped DEF Restart, serverVars
<1>4. QED
  BY <1>1, <1>2, <1>3, CopyKept
  DEF Environment, UserEdit, UserDelete, OtherEvent, Vanish, GarbageCollect, RefreshAgent,
      serverVars, cacheVars, localVars

LEMMA CopyReconcile == LagInv /\ Reconcile => CopyInv'
<1> SUFFICES ASSUME LagInv, Reconcile PROVE CopyInv'
    OBVIOUS
<1> USE DEF LagInv
<1>1. CASE ~localCurrent' /\ UNCHANGED <<lifecycleCm, cmCache, cacheCurrent>>
  BY <1>1, CopyDropped DEF CopyInv
<1>2. CASE \/ StartReconcile \/ CleanupHelmChart \/ DryRun \/ ApplyDone
           \/ RemoveHelmFinalizer \/ AddFinalizer \/ RemoveFinalizer
           \/ \E o \in Object : ApplyObject(o)
  <2>1. pc \notin {"updateApply", "cleanupKeys", "verifyDeletion"}
    BY <1>2 DEF StartReconcile, CleanupHelmChart, DryRun, ApplyDone, RemoveHelmFinalizer,
                AddFinalizer, RemoveFinalizer, ApplyObject
  <2>2. ~localCurrent
    BY <2>1 DEF CopyInv
  <2>3. QED
    BY <1>1, <1>2, <2>2
    DEF StartReconcile, CleanupHelmChart, DryRun, ApplyDone, RemoveHelmFinalizer,
        AddFinalizer, RemoveFinalizer, updateAgent, ApplyObject, Return,
        serverVars, cacheVars, localVars
<1>3. CASE UpdateGet
  <2>1. CASE ~cacheCurrent
    BY <1>1, <1>3, <2>1 DEF UpdateGet, clusterVars, serverVars, cacheVars
  <2>2. CASE cacheCurrent
    <3>1. getCurrentGenKey' = getCurrentGenKey
      BY <1>3 DEF UpdateGet, getCurrentGenKey
    <3>2. Recorded(lifecycleCm, getCurrentGenKey)' = Recorded(cmCache, getCurrentGenKey)
      BY <1>3, <2>2, <3>1 DEF UpdateGet, CopyInv, Recorded, clusterVars, serverVars
    <3>3. QED
      BY <1>3, <2>2, <3>2 DEF UpdateGet, CopyInv, clusterVars, serverVars, cacheVars
  <2>3. QED
    BY <2>1, <2>2 DEF TypeOK, ClusterTypeOK
<1>4. CASE UpdateApply
  <2>1. ~localCurrent'
    BY <1>4 DEF UpdateApply, ContinueWithApply, RetryConflict, Return
  <2>2. cacheCurrent' => cmCache' = lifecycleCm'
    BY <1>4 DEF UpdateApply, WriteConfigMap, CopyInv
  <2>3. QED
    BY <2>1, <2>2, CopyDropped
<1>5. CASE CleanupGet
  <2>1. getCurrentGenKey' = getCurrentGenKey
    BY <1>5 DEF CleanupGet, getCurrentGenKey
  <2>2. QED
    BY <1>5, <2>1 DEF CleanupGet, CopyInv, clusterVars, serverVars, cacheVars
<1>6. CASE CleanupApply
  <2>1. ~localCurrent'
    BY <1>6 DEF CleanupApply, CleanupSucceeded, RetryConflict, Return
  <2>2. cacheCurrent' => cmCache' = lifecycleCm'
    BY <1>6 DEF CleanupApply, WriteConfigMap, CopyInv
  <2>3. QED
    BY <2>1, <2>2, CopyDropped
<1>7. ASSUME NEW k \in Key, DeleteDeprecated(k) PROVE CopyInv'
  <2>1. getCurrentGenKey' = getCurrentGenKey /\ currentDependents' = currentDependents
    BY <1>7 DEF DeleteDeprecated, getCurrentGenKey, currentDependents
  <2>2. keys' \cup visiting' \subseteq keys \cup visiting
    BY <1>7 DEF DeleteDeprecated
  <2>3. pc' \in {"cleanupKeys", "verifyDeletion"}
    BY <1>7 DEF DeleteDeprecated
  <2>4. QED
    BY <1>7, <2>1, <2>2, <2>3 DEF DeleteDeprecated, CopyInv, cacheVars
<1>8. ASSUME NEW k \in Key, VerifyDeletion(k) PROVE CopyInv'
  <2>1. CASE ~localCurrent
    BY <1>1, <1>8, <2>1 DEF VerifyDeletion, serverVars, cacheVars
  <2>2. CASE localCurrent
    <3>1. getCurrentGenKey' = getCurrentGenKey /\ currentDependents' = currentDependents
      BY <1>8 DEF VerifyDeletion, getCurrentGenKey, currentDependents
    <3>2. local.data[k] = lifecycleCm.data[k]
      BY <1>8, <2>2 DEF VerifyDeletion, CopyInv
    <3>3. UNCHANGED <<lifecycleCm, cmCache, cacheCurrent, objs, keys, localCurrent>>
          /\ pc' = "cleanupKeys" /\ visiting' = {} /\ k \notin keys
      BY <1>8 DEF VerifyDeletion, PhaseInv, serverVars, cacheVars
    <3>4. CASE UNCHANGED local
      BY <1>8, <2>2, <3>1, <3>3, <3>4 DEF VerifyDeletion, CopyInv
    <3>5. CASE /\ k # getCurrentGenKey /\ Deprecated(k) \cap objs = {}
               /\ local' = [local EXCEPT !.data[k] = {}]
      <4>1. local'.exists = local.exists /\ local'.data = [local.data EXCEPT ![k] = {}]
        BY <3>5 DEF TypeOK, ConfigMap
      <4>2. \A j \in Key : local'.data[j] = IF j = k THEN {} ELSE local.data[j]
        BY <4>1 DEF TypeOK, ConfigMap
      <4>3. lifecycleCm.data[k] \cap objs \subseteq currentDependents
        BY <3>2, <3>5 DEF Deprecated
      <4>4. getCurrentGenKey \in Key
        BY KeyType DEF TypeOK
      <4>5. QED
        BY <1>8, <2>2, <3>1, <3>3, <3>5, <4>1, <4>2, <4>3, <4>4 DEF VerifyDeletion, CopyInv
    <3>6. QED
      BY <1>8, <3>4, <3>5 DEF VerifyDeletion
  <2>3. QED
    BY <2>1, <2>2
<1>9. QED
  BY <1>2, <1>3, <1>4, <1>5, <1>6, <1>7, <1>8 DEF Reconcile, Lifecycle
-----------------------------------------------------------------------------
LEMMA InitLag == Init => LagInv
<1> SUFFICES ASSUME Init PROVE LagInv
    OBVIOUS
<1>1. PhaseInv
  BY DEF Init, PhaseInv, Applying, Cleaning, NoAgent
<1>2. PICK F \in {{}, {"v1"}} :
          cr = [exists |-> TRUE, gen |-> 1, deleting |-> FALSE, finalizers |-> F]
  BY DEF Init, ClusterInit
<1>3. FinalizerInv
  BY <1>2 DEF Init, ClusterInit, FinalizerInv, NoAgent
<1>4. CopyInv
  BY DEF Init, ClusterInit, CopyInv
<1>5. QED
  BY <1>1, <1>3, <1>4, InitType DEF LagInv

LEMMA NextLag == LagInv /\ [Next]_vars => LagInv'
<1> SUFFICES ASSUME LagInv, [Next]_vars PROVE LagInv'
    OBVIOUS
<1>1. CASE Environment
  BY <1>1, EnvironmentType, PhaseEnvironment, FinalizerEnvironment, CopyEnvironment DEF LagInv
<1>2. CASE Reconcile
  BY <1>2, ReconcileType, PhaseReconcile, FinalizerReconcile, CopyReconcile DEF LagInv
<1>3. CASE UNCHANGED vars
  <2> USE <1>3 DEF vars, clusterVars, serverVars, cacheVars, boundVars, localVars, LagInv
  <2>1. TypeOK'
    BY DEF TypeOK, ClusterTypeOK
  <2>2. PhaseInv'
    BY DEF PhaseInv, Applying, Cleaning
  <2>3. FinalizerInv'
    BY DEF FinalizerInv
  <2>4. CopyInv'
    BY CopyKept
  <2>5. QED
    BY <2>1, <2>2, <2>3, <2>4
<1>4. QED
  BY <1>1, <1>2, <1>3 DEF Next

(* The copies of the CR and of the ConfigMap that the operator works on     *)
(* stay related to the server as LagInv says, however stale they are.       *)
THEOREM LagInvariant == Spec => []LagInv
BY InitLag, NextLag, PTL DEF Spec

(* cleanupHelmChart removes finalizerV1 only once the 2.x release is gone.  *)
THEOREM HelmReleaseCorrect == Spec => []HelmReleaseHoldsV1
<1>1. Init => HelmReleaseHoldsV1
  BY DEF Init, HelmReleaseHoldsV1
<1>2. LagInv /\ HelmReleaseHoldsV1 /\ [Next]_vars => HelmReleaseHoldsV1'
  <2> SUFFICES ASSUME LagInv, HelmReleaseHoldsV1, [Next]_vars, helmRelease'
               PROVE  "v1" \in cr'.finalizers
      BY DEF HelmReleaseHoldsV1
  <2>1. CASE cr'.finalizers = cr.finalizers
    BY <2>1
    DEF HelmReleaseHoldsV1, Next, Environment, Reconcile, GarbageCollect, GarbageCollectRecord,
        RefreshAgent, Restart, StartReconcile, CleanupHelmChart, RemoveHelmFinalizer, AddFinalizer,
        RemoveFinalizer, updateAgent, DryRun, ApplyDone, ApplyObject, vars
  <2>2. CASE RemoveHelmFinalizer \/ AddFinalizer \/ RemoveFinalizer
    <3>1. ~helmRelease
      BY <2>2 DEF RemoveHelmFinalizer, AddFinalizer, RemoveFinalizer, LagInv, PhaseInv,
                  FinalizerInv, HelmReleaseHoldsV1
    <3>2. QED
      BY <2>2, <3>1 DEF RemoveHelmFinalizer, AddFinalizer, RemoveFinalizer, updateAgent
  <2>3. CASE UserEdit \/ UserDelete
    BY <2>1, <2>3 DEF UserEdit, UserDelete, LagInv, TypeOK, ClusterTypeOK, Agent
  <2>4. QED
    BY <2>1, <2>2, <2>3
    DEF Next, Environment, Reconcile, Lifecycle, OtherEvent, RefreshConfigMap, Vanish,
        GarbageCollect, GarbageCollectRecord, RefreshAgent, Restart, StartReconcile,
        CleanupHelmChart, DryRun, ApplyDone, ApplyObject, UpdateGet, UpdateApply, CleanupGet,
        CleanupApply, DeleteDeprecated, VerifyDeletion, vars, clusterVars, serverVars
<1>3. QED
  BY <1>1, <1>2, LagInvariant, PTL DEF Spec

(* The API call that creates a dependent finds finalizerV3 on the server.   *)
THEOREM CreationCorrect == Spec => CreatedUnderFinalizer
<1>1. LagInv /\ [Next]_vars => [\A o \in objs' \ objs : "v3" \in cr.finalizers]_vars
  <2> SUFFICES ASSUME LagInv, Next, NEW o \in objs' \ objs PROVE "v3" \in cr.finalizers
      OBVIOUS
  <2>1. \E p \in Object : ApplyObject(p)
    BY DEF Next, Environment, Reconcile, Lifecycle, OtherEvent, RefreshConfigMap, Vanish, UserEdit,
        UserDelete, GarbageCollect, GarbageCollectRecord, RefreshAgent, Restart, StartReconcile,
        CleanupHelmChart, RemoveHelmFinalizer, AddFinalizer, RemoveFinalizer, updateAgent,
        DryRun, ApplyDone, UpdateGet, UpdateApply, CleanupGet, CleanupApply,
        DeleteDeprecated, VerifyDeletion, clusterVars, serverVars
  <2>2. QED
    BY <2>1 DEF ApplyObject, LagInv, PhaseInv, FinalizerInv, Applying
<1>2. QED
  BY <1>1, LagInvariant, PTL DEF Spec, CreatedUnderFinalizer

(* The write of CleanupDependents drops an object that still exists only if *)
(* the running reconcile wants it.                                          *)
THEOREM CleanupCorrect == Spec => CleanupForgetsOnlyGone
<1> DEFINE A == pc = "cleanupKeys" /\ lifecycleCm'.exists =>
                  \A o \in objs' : Tracks(lifecycleCm, o) /\ ~Tracks(lifecycleCm', o)
                                      => o \in currentDependents
<1>1. LagInv /\ [Next]_vars => [A]_vars
  <2> SUFFICES ASSUME LagInv, Next, pc = "cleanupKeys", lifecycleCm'.exists,
                      NEW o \in objs', Tracks(lifecycleCm, o), ~Tracks(lifecycleCm', o)
               PROVE  o \in currentDependents
      OBVIOUS
  <2>1. lifecycleCm' # lifecycleCm
    BY DEF Tracks
  <2>2. ~GarbageCollectRecord
    BY DEF GarbageCollectRecord, Missing
  <2>3. CleanupApply
    BY <2>1, <2>2
    DEF Next, Environment, Reconcile, Lifecycle, OtherEvent, RefreshConfigMap, Vanish, UserEdit,
        UserDelete, GarbageCollect, RefreshAgent, Restart, StartReconcile,
        CleanupHelmChart, RemoveHelmFinalizer, AddFinalizer, RemoveFinalizer, updateAgent,
        DryRun, ApplyDone, ApplyObject, UpdateGet, UpdateApply, CleanupGet,
        DeleteDeprecated, VerifyDeletion, clusterVars, serverVars
  <2>4. localCurrent /\ lifecycleCm' = local /\ objs' = objs
    BY <2>1, <2>3 DEF CleanupApply, WriteConfigMap
  <2>5. PICK k \in Key : o \in lifecycleCm.data[k] /\ o \notin local.data[k]
    BY <2>4 DEF Tracks
  <2>6. QED
    BY <2>4, <2>5 DEF LagInv, CopyInv
<1>2. QED
  BY <1>1, LagInvariant, PTL DEF Spec, CleanupForgetsOnlyGone

(* No stale read, retry, restart or upgrade deletes a dependent that every  *)
(* version and generation asks for.                                         *)
THEOREM CommonDependentsCorrect == Spec => []CommonDependentsStay
<1>1. Init => CommonDependentsStay
  BY DEF Init, ClusterInit, CommonDependentsStay
<1>2. LagInv /\ CommonDependentsStay /\ [Next]_vars => CommonDependentsStay'
  <2> SUFFICES ASSUME LagInv, CommonDependentsStay, [Next]_vars,
                      ~cr'.deleting, NEW o \in terminating'
               PROVE  \E vg \in Version \X Gen : o \notin Deps[vg]
      BY DEF CommonDependentsStay
  <2>1. ~cr.deleting
    <3>1. CASE UserEdit \/ UserDelete
      BY <3>1 DEF UserEdit, UserDelete
    <3>2. ASSUME NEW F, updateAgent(F) PROVE ~cr.deleting
      BY <3>2 DEF updateAgent, PatchedFinalizers, LagInv, TypeOK, ClusterTypeOK, Agent
    <3>3. QED
      BY <3>1, <3>2
      DEF Next, Environment, Reconcile, Lifecycle, OtherEvent, RefreshConfigMap, Vanish,
          GarbageCollect, GarbageCollectRecord, RefreshAgent, Restart, StartReconcile,
          CleanupHelmChart, RemoveHelmFinalizer, AddFinalizer, RemoveFinalizer,
          DryRun, ApplyDone, ApplyObject, UpdateGet, UpdateApply, CleanupGet, CleanupApply,
          DeleteDeprecated, VerifyDeletion, vars, clusterVars, serverVars
  <2>2. CASE o \in terminating
    BY <2>1, <2>2 DEF CommonDependentsStay
  <2>3. CASE o \notin terminating
    <3>1. PICK k \in Key : DeleteDeprecated(k)
      BY <2>3
      DEF Next, Environment, Reconcile, Lifecycle, OtherEvent, RefreshConfigMap, Vanish, UserEdit,
          UserDelete, GarbageCollect, GarbageCollectRecord, RefreshAgent, Restart, StartReconcile,
          CleanupHelmChart, RemoveHelmFinalizer, AddFinalizer, RemoveFinalizer, updateAgent,
          DryRun, ApplyDone, ApplyObject, UpdateGet, UpdateApply, CleanupGet, CleanupApply,
          VerifyDeletion, vars, clusterVars, serverVars
    <3>2. o \in Deprecated(k)
      BY <2>3, <3>1 DEF DeleteDeprecated
    <3>3. ~agent.deleting
      BY <2>1 DEF LagInv, FinalizerInv
    <3>4. o \notin Deps[<<ver, agent.gen>>]
      BY <3>2, <3>3 DEF Deprecated, currentDependents
    <3>5. <<ver, agent.gen>> \in Version \X Gen
      BY DEF LagInv, TypeOK, Agent
    <3>6. QED
      BY <3>4, <3>5
  <2>4. QED
    BY <2>2, <2>3
<1>3. QED
  BY <1>1, <1>2, LagInvariant, PTL DEF Spec
=============================================================================
