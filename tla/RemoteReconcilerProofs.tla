------------------------ MODULE RemoteReconcilerProofs ------------------------
(***************************************************************************)
(* RemoteReconciler for every set of objects and versions and every bound. *)
(* Type correctness and the write-ahead rule hold however far the informers*)
(* lag; that the controller implements DependentRegistry needs an informer *)
(* that shows a new ConfigMap before the next reconcile.                   *)
(***************************************************************************)
EXTENDS RemoteReconciler, TLAPS

USE DEF Finalizer

LEMMA GenFacts == 1 \in Gen /\ Gen \subseteq Nat
BY ConstantsAssumption DEF Gen

LEMMA ConstantValues == Missing \in ConfigMap /\ NoAgent \in Agent
BY GenFacts DEF Missing, ConfigMap, NoData, NoAgent, Agent

LEMMA FaultType == TypeOK /\ Fault => faults' \in 0..MaxFaults
BY ConstantsAssumption DEF TypeOK, ClusterTypeOK, Fault

LEMMA KeyType ==
    ASSUME agent \in Agent, ver \in Version
    PROVE  getCurrentGenKey \in Key /\ DirtyKey(getCurrentGenKey) \in Key
BY DEF getCurrentGenKey, DirtyKey, Key, Agent

LEMMA DependentsType ==
    ASSUME agent \in Agent, ver \in Version
    PROVE  currentDependents \subseteq Object
BY RemoteAssumption DEF currentDependents, Agent

LEMMA RecordedType ==
    ASSUME agent \in Agent, ver \in Version, NEW c \in ConfigMap
    PROVE  /\ Recorded(c, getCurrentGenKey) \in ConfigMap
           /\ Recorded(c, getCurrentGenKey).data[getCurrentGenKey] = currentDependents
BY KeyType, DependentsType DEF Recorded, ConfigMap

LEMMA WriteType ==
    ASSUME NEW c \in ConfigMap, WriteConfigMap(c)
    PROVE  lifecycleCm' \in ConfigMap /\ cacheCurrent' \in BOOLEAN
<1>1. lifecycleCm' \in ConfigMap
  BY DEF WriteConfigMap
<1>2. cacheCurrent' \in BOOLEAN
  BY DEF WriteConfigMap
<1>3. QED
  BY <1>1, <1>2

(* The local state a reconcile leaves behind when it returns.               *)
LEMMA ReturnType ==
    ASSUME TypeOK, NEW b \in BOOLEAN, Return(b)
    PROVE  /\ pc' \in PC /\ queued' \in BOOLEAN
           /\ agent' \in Agent
           /\ local' \in ConfigMap /\ localCurrent' \in BOOLEAN
           /\ todo' \subseteq Object
           /\ keys' \subseteq Key /\ visiting' \subseteq Key
           /\ failed' \in BOOLEAN
<1>1. queued' \in BOOLEAN
  BY Zenon DEF Return, TypeOK, ClusterTypeOK
<1>2. QED
  BY <1>1, ConstantValues DEF Return, Idle, PC

LEMMA InitType == Init => TypeOK
<1> SUFFICES ASSUME Init PROVE TypeOK
  OBVIOUS
<1>1. cr \in Agent /\ crCache \in Agent
  <2>1. PICK F \in {{}, {"v1"}} :
            cr = [exists |-> TRUE, gen |-> 1, deleting |-> FALSE, finalizers |-> F]
    BY DEF Init, ClusterInit
  <2>2. QED
    BY <2>1, GenFacts DEF Init, ClusterInit, Agent
<1>2. 0 \in 0..MaxFaults /\ 0 \in 0..MaxRestarts
  BY ConstantsAssumption
<1>3. ClusterTypeOK
  BY <1>1, <1>2, ConstantValues DEF Init, ClusterInit, ClusterTypeOK
<1>4. QED
  BY <1>3, RemoteAssumption, ConstantValues DEF Init, TypeOK, PC
-----------------------------------------------------------------------------
LEMMA EnvironmentType == TypeOK /\ Environment => TypeOK'
<1> SUFFICES ASSUME TypeOK, Environment PROVE TypeOK'
  OBVIOUS
<1> USE DEF TypeOK, ClusterTypeOK, clusterVars, serverVars, cacheVars, boundVars, localVars
<1>1. CASE UserEdit /\ UNCHANGED <<ver, pc, localVars>>
  <2>1. cr' \in Agent
    BY <1>1, ConstantsAssumption DEF UserEdit, Agent, Gen
  <2>2. QED
    BY <1>1, <2>1 DEF UserEdit
<1>2. CASE UserDelete /\ UNCHANGED <<ver, pc, localVars>>
  <2>1. cr.gen + 1 \in Gen
    BY <1>2, ConstantsAssumption DEF UserDelete, Agent, Gen
  <2>2. cr' \in Agent
    BY <1>2, <2>1 DEF UserDelete, Agent
  <2>3. QED
    BY <1>2, <2>2 DEF UserDelete
<1>3. CASE OtherEvent /\ UNCHANGED <<ver, pc, localVars>>
  BY <1>3 DEF OtherEvent
<1>4. CASE RefreshConfigMap /\ UNCHANGED <<ver, pc, localVars>>
  BY <1>4 DEF RefreshConfigMap
<1>5. ASSUME NEW o \in Object, Vanish(o) /\ UNCHANGED <<ver, pc, localVars>> PROVE TypeOK'
  BY <1>5 DEF Vanish
<1>6. CASE GarbageCollect
  BY <1>6, ConstantValues DEF GarbageCollect
<1>7. CASE RefreshAgent
  <2>1. queued' \in BOOLEAN
    BY <1>7, Zenon DEF RefreshAgent
  <2>2. QED
    BY <1>7, <2>1 DEF RefreshAgent
<1>8. ASSUME NEW v \in Version, Restart(v) PROVE TypeOK'
  <2>1. restarts' \in 0..MaxRestarts
    BY <1>8, ConstantsAssumption DEF Restart
  <2>2. queued' \in BOOLEAN
    BY <1>8 DEF Restart, Agent
  <2>3. QED
    BY <1>8, <2>1, <2>2, ConstantValues DEF Restart, Idle, PC
<1>9. QED
  BY <1>1, <1>2, <1>3, <1>4, <1>5, <1>6, <1>7, <1>8 DEF Environment

LEMMA ReconcileType == TypeOK /\ Reconcile => TypeOK'
<1> SUFFICES ASSUME TypeOK, Reconcile PROVE TypeOK'
  OBVIOUS
<1> USE DEF TypeOK, ClusterTypeOK, clusterVars, serverVars, cacheVars, boundVars, localVars
<1>1. CASE StartReconcile
  BY <1>1 DEF StartReconcile, handleDeletion, PC, Agent
<1>2. ASSUME NEW F, F \subseteq Finalizer, updateAgent(F) PROVE TypeOK'
  <2>1. cr' \in Agent
    BY <1>2 DEF updateAgent, PatchedFinalizers, Agent
  <2>2. faults' \in 0..MaxFaults
    BY <1>2, FaultType DEF updateAgent
  <2>3. QED
    BY <1>2, <2>1, <2>2, ReturnType DEF updateAgent
<1>3. CASE AddFinalizer \/ RemoveFinalizer
  BY <1>2, <1>3 DEF AddFinalizer, RemoveFinalizer, Agent
<1>4. CASE DryRun
  BY <1>4, FaultType, ReturnType DEF DryRun, CallFails, PC
<1>5. ASSUME NEW o \in Object, ApplyObject(o) PROVE TypeOK'
  BY <1>5, FaultType DEF ApplyObject
<1>6. CASE ApplyDone
  BY <1>6, ReturnType DEF ApplyDone, PC
<1>7. CASE UpdateGet
  BY <1>7, RecordedType DEF UpdateGet, PC
<1>8. CASE UpdateApply
  <2>1. UNCHANGED <<cr, objs, terminating, crCache, cmCache, restarts, ver>>
    BY <1>8 DEF UpdateApply
  <2>2. CASE /\ WriteConfigMap([exists |-> TRUE, data |-> local.data])
             /\ pc' = "apply" /\ todo' = currentDependents
             /\ local' = Missing /\ localCurrent' = FALSE
             /\ UNCHANGED <<queued, agent, keys, visiting, failed, faults>>
    <3>1. [exists |-> TRUE, data |-> local.data] \in ConfigMap
      BY DEF ConfigMap
    <3>2. lifecycleCm' \in ConfigMap /\ cacheCurrent' \in BOOLEAN
      BY <2>2, <3>1, WriteType
    <3>3. QED
      BY <2>1, <2>2, <3>2, DependentsType, ConstantValues DEF PC
  <2>3. CASE Conflict /\ UNCHANGED <<lifecycleCm, cacheCurrent, faults>>
    BY <2>1, <2>3, ReturnType DEF Conflict
  <2>4. CASE CallFails /\ UNCHANGED <<lifecycleCm, cacheCurrent>>
    BY <2>1, <2>4, FaultType, ReturnType DEF CallFails
  <2>5. QED
    BY <1>8, <2>2, <2>3, <2>4 DEF UpdateApply
<1>9. CASE CleanupGet
  BY <1>9 DEF CleanupGet, PC, Key
<1>10. ASSUME NEW k \in Key, DeleteAll(k) PROVE TypeOK'
  <2>1. terminating' \subseteq objs /\ keys' \subseteq Key
    BY <1>10 DEF DeleteAll
  <2>2. pc' \in PC /\ visiting' \subseteq Key /\ failed' \in BOOLEAN /\ faults' \in 0..MaxFaults
    BY <1>10, FaultType DEF DeleteAll, PC
  <2>3. QED
    BY <1>10, <2>1, <2>2 DEF DeleteAll
<1>11. ASSUME NEW k \in Key, VerifyDeletion(k) PROVE TypeOK'
  <2>1. local' \in ConfigMap
    BY <1>11 DEF VerifyDeletion, ConfigMap
  <2>2. failed' \in BOOLEAN /\ faults' \in 0..MaxFaults
    BY <1>11, FaultType DEF VerifyDeletion
  <2>3. QED
    BY <1>11, <2>1, <2>2 DEF VerifyDeletion, PC
<1>12. CASE CleanupApply
  <2>1. UNCHANGED <<cr, objs, terminating, crCache, cmCache, restarts, ver>>
    BY <1>12 DEF CleanupApply
  <2>2. ASSUME NEW b \in BOOLEAN, Return(b), faults' \in 0..MaxFaults,
               lifecycleCm' \in ConfigMap, cacheCurrent' \in BOOLEAN
        PROVE  TypeOK'
    BY <2>1, <2>2, ReturnType
  <2>3. CASE /\ WriteConfigMap(local) /\ UNCHANGED faults
             /\ IF agent.deleting /\ ~failed
                THEN /\ pc' = "removeFinalizer"
                     /\ local' = Missing /\ localCurrent' = FALSE
                     /\ UNCHANGED <<queued, agent, todo, keys, visiting, failed>>
                ELSE Return(failed)
    <3>1. lifecycleCm' \in ConfigMap /\ cacheCurrent' \in BOOLEAN
      BY <2>3, WriteType
    <3>2. QED
      BY <2>1, <2>2, <2>3, <3>1, ConstantValues DEF PC
  <2>4. CASE Return(TRUE) /\ UNCHANGED <<lifecycleCm, cacheCurrent, faults>>
    BY <2>2, <2>4
  <2>5. CASE CallFails /\ UNCHANGED <<lifecycleCm, cacheCurrent>>
    BY <2>2, <2>5, FaultType DEF CallFails
  <2>6. QED
    BY <1>12, <2>3, <2>4, <2>5 DEF CleanupApply
<1>13. QED
  BY <1>1, <1>3, <1>4, <1>5, <1>6, <1>7, <1>8, <1>9, <1>10, <1>11, <1>12 DEF Reconcile

(* Every variable of the remote controller keeps its type, and no dependent *)
(* is under deletion that does not exist.                                   *)
THEOREM TypeCorrect == Spec => []TypeOK
<1>1. TypeOK /\ UNCHANGED vars => TypeOK'
  BY DEF TypeOK, ClusterTypeOK, vars, clusterVars, serverVars, cacheVars, boundVars, localVars
<1>2. TypeOK /\ [Next]_vars => TypeOK'
  BY <1>1, EnvironmentType, ReconcileType DEF Next
<1>3. QED
  BY InitType, <1>2, PTL DEF Spec
-----------------------------------------------------------------------------
Applying == pc \in {"dryRun", "update", "updateApply", "apply"}

(* How the copies of the CR are related.  Deletion is permanent, and the    *)
(* finalizer is on the server whenever a copy that is not under deletion    *)
(* shows it: only a reconcile that has seen the deletion removes it.        *)
CopyInv ==
    /\ Applying => ~agent.deleting /\ "v3" \in agent.finalizers
    /\ pc = "removeFinalizer" => agent.deleting
    /\ ~cr.exists => cr.finalizers = {}
    /\ agent.deleting => crCache.deleting
    /\ crCache.deleting => cr.deleting
    /\ "v3" \in agent.finalizers /\ ~agent.deleting => "v3" \in cr.finalizers
    /\ "v3" \in crCache.finalizers /\ ~crCache.deleting => "v3" \in cr.finalizers

(* The record is complete before it is written and is not lost after.       *)
WriteAhead ==
    /\ pc = "updateApply" => local.data[getCurrentGenKey] = currentDependents
    /\ RecordedBeforeApply

RemoteInv == TypeOK /\ CopyInv /\ WriteAhead

LEMMA RemoteInit == Init => RemoteInv
<1> SUFFICES ASSUME Init PROVE RemoteInv
  OBVIOUS
<1>1. CopyInv
  BY DEF Init, ClusterInit, CopyInv, Applying, NoAgent
<1>2. WriteAhead
  BY DEF Init, WriteAhead, RecordedBeforeApply
<1>3. QED
  BY <1>1, <1>2, InitType DEF RemoteInv

LEMMA CopyReturn ==
    ASSUME CopyInv, NEW b, Return(b), UNCHANGED <<cr, crCache>>
    PROVE  CopyInv'
BY DEF CopyInv, Return, Idle, NoAgent, Applying

LEMMA CopyNext == RemoteInv /\ [Next]_vars => CopyInv'
<1> SUFFICES ASSUME RemoteInv, [Next]_vars PROVE CopyInv'
  OBVIOUS
<1> USE DEF RemoteInv, clusterVars, serverVars, cacheVars, boundVars, localVars
<1>0. cr \in Agent /\ crCache \in Agent /\ agent \in Agent
  BY DEF TypeOK, ClusterTypeOK
<1>1. ASSUME UNCHANGED <<cr, crCache, agent>>,
             Applying' => ~agent.deleting /\ "v3" \in agent.finalizers,
             pc' = "removeFinalizer" => agent.deleting
      PROVE  CopyInv'
  BY <1>1 DEF CopyInv
<1>2. CASE StartReconcile
  BY <1>0, <1>2 DEF StartReconcile, handleDeletion, CopyInv, Applying, Agent
<1>3. CASE AddFinalizer
  <2>1. CASE UNCHANGED cr
    BY <1>3, <2>1, CopyReturn DEF AddFinalizer, updateAgent
  <2>2. CASE cr.exists /\ cr' = PatchedFinalizers(agent.finalizers \cup {"v3"})
    <3>1. cr'.finalizers = agent.finalizers \cup {"v3"} /\ cr'.exists /\ cr'.deleting = cr.deleting
      BY <1>0, <2>2 DEF PatchedFinalizers, Agent
    <3>2. QED
      BY <1>3, <3>1 DEF AddFinalizer, updateAgent, Return, Idle, NoAgent, CopyInv, Applying
  <2>3. QED
    BY <1>3, <2>1, <2>2 DEF AddFinalizer, updateAgent
<1>4. CASE RemoveFinalizer
  <2>1. CASE UNCHANGED cr
    BY <1>4, <2>1, CopyReturn DEF RemoveFinalizer, updateAgent
  <2>2. CASE cr' = PatchedFinalizers(agent.finalizers \ {"v3"}) /\ cr.exists
    <3>1. /\ cr'.finalizers = agent.finalizers \ {"v3"} /\ cr'.deleting = cr.deleting
          /\ ~cr'.exists => cr'.finalizers = {}
      BY <1>0, <2>2 DEF PatchedFinalizers, Agent
    <3>2. crCache.deleting
      BY <1>4 DEF RemoveFinalizer, CopyInv
    <3>3. QED
      BY <1>4, <3>1, <3>2
      DEF RemoveFinalizer, updateAgent, Return, Idle, NoAgent, CopyInv, Applying
  <2>3. QED
    BY <1>4, <2>1, <2>2 DEF RemoveFinalizer, updateAgent
<1>5. CASE DryRun
  BY <1>1, <1>5, CopyReturn DEF DryRun, CallFails, CopyInv, Applying
<1>6. CASE UpdateGet
  BY <1>1, <1>6 DEF UpdateGet, CopyInv, Applying
<1>7. CASE UpdateApply
  <2>1. CASE pc' = "apply" /\ UNCHANGED agent
    BY <1>1, <1>7, <2>1 DEF UpdateApply, CopyInv, Applying
  <2>2. CASE Return(TRUE)
    BY <1>7, <2>2, CopyReturn DEF UpdateApply
  <2>3. QED
    BY <1>7, <2>1, <2>2 DEF UpdateApply, Conflict, CallFails
<1>8. ASSUME NEW o \in Object, ApplyObject(o) PROVE CopyInv'
  BY <1>1, <1>8 DEF ApplyObject, CopyInv, Applying
<1>9. CASE ApplyDone
  BY <1>1, <1>9, CopyReturn DEF ApplyDone, Applying
<1>10. CASE CleanupGet
  BY <1>1, <1>10 DEF CleanupGet, Applying
<1>11. ASSUME NEW k \in Key, DeleteAll(k) \/ VerifyDeletion(k) PROVE CopyInv'
  <2>1. pc' \in {"cleanupKeys", "verifyDeletion"} /\ UNCHANGED <<cr, crCache, agent>>
    BY <1>11 DEF DeleteAll, VerifyDeletion
  <2>2. QED
    BY <1>1, <2>1 DEF Applying
<1>12. CASE CleanupApply
  <2>1. CASE pc' = "removeFinalizer" /\ agent.deleting /\ UNCHANGED agent
    BY <1>1, <1>12, <2>1 DEF CleanupApply, Applying
  <2>2. CASE \E b \in {TRUE, failed} : Return(b)
    BY <1>12, <2>2, CopyReturn DEF CleanupApply
  <2>3. QED
    BY <1>12, <2>1, <2>2 DEF CleanupApply, CallFails
<1>13. CASE UserEdit /\ UNCHANGED <<ver, pc, localVars>>
  BY <1>0, <1>13 DEF UserEdit, CopyInv, Applying, Agent
<1>14. CASE UserDelete /\ UNCHANGED <<ver, pc, localVars>>
  BY <1>0, <1>14 DEF UserDelete, CopyInv, Applying, Agent
<1>15. ASSUME UNCHANGED <<cr, crCache, agent, pc>> PROVE CopyInv'
  BY <1>1, <1>15 DEF CopyInv, Applying
<1>16. (OtherEvent \/ RefreshConfigMap \/ \E o \in Object : Vanish(o)) /\ UNCHANGED <<ver, pc, localVars>>
         => UNCHANGED <<cr, crCache, agent, pc>>
  BY DEF OtherEvent, RefreshConfigMap, Vanish
<1>17. GarbageCollect \/ UNCHANGED vars => UNCHANGED <<cr, crCache, agent, pc>>
  BY DEF GarbageCollect, vars
<1>18. CASE RefreshAgent
  BY <1>18 DEF RefreshAgent, CopyInv, Applying
<1>19. ASSUME NEW v \in Version, Restart(v) PROVE CopyInv'
  BY <1>19 DEF Restart, Idle, NoAgent, CopyInv, Applying
<1>20. QED
  BY <1>2, <1>3, <1>4, <1>5, <1>6, <1>7, <1>8, <1>9, <1>10, <1>11, <1>12, <1>13, <1>14, <1>15,
     <1>16, <1>17, <1>18, <1>19
  DEF Next, Reconcile, Environment

LEMMA WriteAheadNext == RemoteInv /\ [Next]_vars => WriteAhead'
<1> SUFFICES ASSUME RemoteInv, [Next]_vars PROVE WriteAhead'
  OBVIOUS
<1> USE DEF RemoteInv, clusterVars, serverVars, cacheVars, boundVars, localVars
<1>1. ASSUME pc' \notin {"updateApply", "apply"} PROVE WriteAhead'
  BY <1>1 DEF WriteAhead, RecordedBeforeApply
<1>2. ASSUME UNCHANGED <<pc, ver, agent, local, lifecycleCm>>, todo' \subseteq todo PROVE WriteAhead'
  BY <1>2 DEF WriteAhead, RecordedBeforeApply, getCurrentGenKey, currentDependents
<1>3. CASE UpdateGet
  <2>1. cmCache \in ConfigMap /\ agent \in Agent /\ ver \in Version
    BY DEF TypeOK, ClusterTypeOK
  <2>2. pc' = "updateApply" /\ local' = Recorded(cmCache, getCurrentGenKey) /\ UNCHANGED <<ver, agent>>
    BY <1>3 DEF UpdateGet
  <2>3. getCurrentGenKey' = getCurrentGenKey /\ currentDependents' = currentDependents
    BY <2>2 DEF getCurrentGenKey, currentDependents
  <2>4. local'.data[getCurrentGenKey] = currentDependents
    BY <2>1, <2>2, RecordedType
  <2>5. QED
    BY <2>2, <2>3, <2>4 DEF WriteAhead, RecordedBeforeApply
<1>4. CASE UpdateApply
  <2>1. CASE /\ pc' = "apply" /\ todo' = currentDependents /\ UNCHANGED agent
             /\ WriteConfigMap([exists |-> TRUE, data |-> local.data])
    <3>1. lifecycleCm'.data = local.data
      BY <2>1 DEF WriteConfigMap
    <3>2. getCurrentGenKey' = getCurrentGenKey
      BY <1>4, <2>1 DEF UpdateApply, getCurrentGenKey
    <3>3. local.data[getCurrentGenKey] = currentDependents
      BY <1>4 DEF UpdateApply, WriteAhead
    <3>4. QED
      BY <2>1, <3>1, <3>2, <3>3 DEF WriteAhead, RecordedBeforeApply
  <2>2. CASE Return(TRUE)
    BY <1>1, <2>2 DEF Return, Idle
  <2>3. QED
    BY <1>4, <2>1, <2>2 DEF UpdateApply, Conflict, CallFails
<1>5. ASSUME NEW o \in Object, ApplyObject(o) PROVE WriteAhead'
  BY <1>2, <1>5 DEF ApplyObject
<1>6. StartReconcile => pc' \notin {"updateApply", "apply"}
  BY DEF StartReconcile, handleDeletion, TypeOK, ClusterTypeOK, Agent
<1>7. AddFinalizer \/ RemoveFinalizer \/ DryRun \/ ApplyDone => pc' \notin {"updateApply", "apply"}
  BY DEF AddFinalizer, RemoveFinalizer, updateAgent, DryRun, CallFails, ApplyDone, Return, Idle
<1>8. CleanupGet \/ CleanupApply \/ (\E k \in Key : DeleteAll(k) \/ VerifyDeletion(k))
        => pc' \notin {"updateApply", "apply"}
  BY DEF CleanupGet, CleanupApply, CallFails, DeleteAll, VerifyDeletion, Return, Idle
<1>9. CASE GarbageCollect
  <2>1. ~Applying /\ UNCHANGED pc
    BY <1>9 DEF GarbageCollect, CopyInv
  <2>2. QED
    BY <1>1, <2>1 DEF Applying
<1>10. (\/ UserEdit \/ UserDelete \/ OtherEvent \/ RefreshConfigMap
        \/ \E o \in Object : Vanish(o)) /\ UNCHANGED <<ver, pc, localVars>>
         => UNCHANGED <<pc, ver, agent, local, lifecycleCm, todo>>
  BY DEF UserEdit, UserDelete, OtherEvent, RefreshConfigMap, Vanish
<1>11. RefreshAgent \/ UNCHANGED vars => UNCHANGED <<pc, ver, agent, local, lifecycleCm, todo>>
  BY DEF RefreshAgent, vars
<1>12. ASSUME NEW v \in Version, Restart(v) PROVE WriteAhead'
  BY <1>1, <1>12 DEF Restart, Idle
<1>13. QED
  BY <1>1, <1>2, <1>3, <1>4, <1>5, <1>6, <1>7, <1>8, <1>9, <1>10, <1>11, <1>12
  DEF Next, Reconcile, Environment

LEMMA RemoteNext == RemoteInv /\ [Next]_vars => RemoteInv'
<1>1. TypeOK /\ UNCHANGED vars => TypeOK'
  BY DEF TypeOK, ClusterTypeOK, vars, clusterVars, serverVars, cacheVars, boundVars, localVars
<1>2. TypeOK /\ [Next]_vars => TypeOK'
  BY <1>1, EnvironmentType, ReconcileType DEF Next
<1>3. QED
  BY <1>2, CopyNext, WriteAheadNext DEF RemoteInv

(* Whatever the informers show and however the CR, the version and the      *)
(* conflicts follow each other: an object the remote controller is about to *)
(* apply is recorded on the server under the key of the generation and      *)
(* version at work.  The record cannot be collected meanwhile, as the CR    *)
(* still carries the finalizer.                                             *)
THEOREM RecordedBeforeApplyTheorem == Spec => []RecordedBeforeApply
<1>1. RemoteInv => RecordedBeforeApply
  BY DEF RemoteInv, WriteAhead
<1>2. QED
  BY RemoteInit, RemoteNext, <1>1, PTL DEF Spec
-----------------------------------------------------------------------------
Cleaning == pc \in {"cleanup", "cleanupKeys", "verifyDeletion"}
Tracked == \A o \in objs : Tracks(lifecycleCm, o)

(* Dependents are cleaned up for a CR with the finalizer, and the key that  *)
(* CleanupDependents is waiting for is no longer to be visited.             *)
VisitInv ==
    /\ Cleaning => "v3" \in agent.finalizers
    /\ pc # "verifyDeletion" => visiting = {}
    /\ visiting \cap keys = {}
    /\ \A j, k \in visiting : j = k

(* A current local copy of the ConfigMap is the server's, with the          *)
(* additions of Update or without what has been verified to be gone.        *)
RecordCopies ==
    /\ cacheCurrent => cmCache = lifecycleCm
    /\ localCurrent => cacheCurrent /\ pc \in {"updateApply", "cleanupKeys", "verifyDeletion"}
    /\ pc = "updateApply" /\ localCurrent => local = Recorded(lifecycleCm, getCurrentGenKey)
    /\ pc \in {"cleanupKeys", "verifyDeletion"} /\ localCurrent =>
          /\ local.data[getCurrentGenKey] = lifecycleCm.data[getCurrentGenKey]
          /\ \A k \in Key :
                \/ local.data[k] = lifecycleCm.data[k]
                \/ /\ local.data[k] = {} /\ k \notin keys \cup visiting
                   /\ lifecycleCm.data[k] \cap objs \subseteq currentDependents

(* A key lists at most what its version and generation ask for, so that a   *)
(* "-dirty" entry may be overwritten.                                       *)
DataInv ==
    /\ ~lifecycleCm.exists => lifecycleCm.data = NoData
    /\ \A k \in Key : /\ lifecycleCm.data[k] \subseteq Deps[<<k.ver, k.gen>>]
                      /\ cmCache.data[k] \subseteq Deps[<<k.ver, k.gen>>]
                      /\ local.data[k] \subseteq Deps[<<k.ver, k.gen>>]

(* A reconcile that records has seen the ConfigMap if there is one, and the *)
(* entry it wrote stays on the server until it returns.                     *)
KeptInv ==
    /\ pc \in {"dryRun", "update", "updateApply"} => (lifecycleCm.exists => cmCache.exists)
    /\ pc = "updateApply" /\ ~local.exists => ~lifecycleCm.exists
    /\ pc = "apply" \/ (Cleaning /\ ~agent.deleting) =>
          lifecycleCm.data[getCurrentGenKey] = Deps[<<ver, agent.gen>>]

(* A key visited without an error lists nothing deprecated that exists, and *)
(* the finalizer outlives the dependents.                                   *)
CleanupInv ==
    /\ pc \in {"cleanupKeys", "verifyDeletion"} /\ localCurrent /\ ~failed =>
          \A k \in Key \ (keys \cup visiting) :
             lifecycleCm.data[k] \cap objs \subseteq currentDependents
    /\ pc = "removeFinalizer" => objs = {}
    /\ objs # {} => "v3" \in cr.finalizers

RecordInv == VisitInv /\ RecordCopies /\ DataInv /\ KeptInv /\ CleanupInv /\ Tracked

(* The inductive invariant of the refinement; it needs CreationSeen.        *)
SafetyInv == RemoteInv /\ RecordInv
-----------------------------------------------------------------------------
LEMMA KeyFacts ==
    ASSUME TypeOK
    PROVE  /\ getCurrentGenKey \in Key
           /\ getCurrentGenKey.ver = ver /\ getCurrentGenKey.gen = agent.gen
           /\ DirtyKey(getCurrentGenKey) \in Key
           /\ DirtyKey(getCurrentGenKey).ver = ver
           /\ DirtyKey(getCurrentGenKey).gen = agent.gen
           /\ DirtyKey(getCurrentGenKey) # getCurrentGenKey
BY KeyType DEF TypeOK, getCurrentGenKey, DirtyKey

LEMMA RecordedFacts ==
    ASSUME TypeOK, NEW c \in ConfigMap
    PROVE  LET k == getCurrentGenKey
               r == Recorded(c, k)
           IN  /\ r.exists = c.exists
               /\ r.data[k] = currentDependents
               /\ \A j \in Key \ {k, DirtyKey(k)} : r.data[j] = c.data[j]
               /\ r.data[DirtyKey(k)] = IF c.data[k] # {} THEN c.data[k] ELSE c.data[DirtyKey(k)]
BY KeyFacts DEF Recorded, ConfigMap

LEMMA MissingFacts == Missing.data = NoData /\ \A k \in Key : Missing.data[k] = {}
BY DEF Missing, NoData

(* The steps that leave the ConfigMap, its copies and the place of the      *)
(* reconcile alone, and at most remove dependents.                          *)
LEMMA RecordKept ==
    ASSUME RecordInv, objs' \subseteq objs, cr'.finalizers = cr.finalizers,
           UNCHANGED <<lifecycleCm, cmCache, cacheCurrent, ver, pc, localVars>>
    PROVE  RecordInv'
<1> USE DEF localVars
<1>1. getCurrentGenKey' = getCurrentGenKey /\ currentDependents' = currentDependents
  BY DEF getCurrentGenKey, currentDependents
<1>2. VisitInv' /\ DataInv'
  BY DEF RecordInv, VisitInv, DataInv, Cleaning
<1>3. RecordCopies'
  <2>1. Recorded(lifecycleCm, getCurrentGenKey)' = Recorded(lifecycleCm, getCurrentGenKey)
    BY <1>1 DEF Recorded
  <2>2. QED
    BY <1>1, <2>1 DEF RecordInv, RecordCopies
<1>4. KeptInv'
  BY <1>1 DEF RecordInv, KeptInv, Cleaning
<1>5. CleanupInv'
  BY <1>1 DEF RecordInv, CleanupInv
<1>6. Tracked'
  BY DEF RecordInv, Tracked, Tracks
<1>7. QED
  BY <1>2, <1>3, <1>4, <1>5, <1>6 DEF RecordInv

(* Between two reconciles nothing but the record and the finalizer counts.  *)
LEMMA RecordIdle ==
    ASSUME Idle, DataInv', Tracked', objs' # {} => "v3" \in cr'.finalizers,
           cacheCurrent' => cmCache' = lifecycleCm'
    PROVE  RecordInv'
BY DEF Idle, RecordInv, VisitInv, RecordCopies, KeptInv, CleanupInv, Cleaning

(* A return that leaves the ConfigMap and the dependents alone.             *)
LEMMA RecordReturn ==
    ASSUME RecordInv, NEW b, Return(b), UNCHANGED <<lifecycleCm, cmCache, cacheCurrent, objs>>,
           objs # {} => "v3" \in cr'.finalizers
    PROVE  RecordInv'
<1>1. DataInv'
  BY MissingFacts DEF RecordInv, DataInv, Return, Idle
<1>2. Tracked'
  BY DEF RecordInv, Tracked, Tracks
<1>3. QED
  BY <1>1, <1>2, RecordIdle DEF Return, RecordInv, RecordCopies

LEMMA RecordEnvironment == SafetyInv /\ Environment => RecordInv'
<1> SUFFICES ASSUME SafetyInv, Environment PROVE RecordInv'
  OBVIOUS
<1> USE DEF SafetyInv, serverVars, cacheVars, boundVars
<1>1. CASE (UserEdit \/ UserDelete) /\ UNCHANGED <<ver, pc, localVars>>
  <2>1. cr'.finalizers = cr.finalizers
    BY <1>1 DEF UserEdit, UserDelete, RemoteInv, TypeOK, ClusterTypeOK, Agent
  <2>2. QED
    BY <1>1, <2>1, RecordKept DEF UserEdit, UserDelete
<1>2. CASE RefreshConfigMap /\ UNCHANGED <<ver, pc, localVars>>
  <2> USE <1>2 DEF RefreshConfigMap, RecordInv, localVars
  <2>1. getCurrentGenKey' = getCurrentGenKey /\ currentDependents' = currentDependents
    BY DEF getCurrentGenKey, currentDependents
  <2>2. VisitInv' /\ DataInv' /\ Tracked'
    BY DEF VisitInv, DataInv, Tracked, Tracks, Cleaning
  <2>3. RecordCopies'
    BY DEF RecordCopies
  <2>4. KeptInv'
    BY <2>1 DEF KeptInv, Cleaning
  <2>5. CleanupInv'
    BY <2>1 DEF CleanupInv
  <2>6. QED
    BY <2>2, <2>3, <2>4, <2>5
<1>3. CASE GarbageCollect /\ lifecycleCm' = Missing /\ ~cacheCurrent' /\ ~localCurrent'
  <2> USE <1>3 DEF GarbageCollect, RecordInv
  <2>1. objs = {} /\ objs' = {} /\ "v3" \notin cr.finalizers
    BY DEF CleanupInv, RemoteInv, CopyInv
  <2>2. ~Applying /\ (Cleaning => agent.deleting)
    BY <2>1 DEF RemoteInv, CopyInv, VisitInv
  <2>3. VisitInv' /\ RecordCopies'
    BY DEF VisitInv, RecordCopies, Cleaning
  <2>4. DataInv'
    BY MissingFacts DEF DataInv
  <2>5. KeptInv'
    BY <2>2 DEF KeptInv, Cleaning, Applying
  <2>6. CleanupInv' /\ Tracked'
    BY <2>1 DEF CleanupInv, Tracked
  <2>7. QED
    BY <2>3, <2>4, <2>5, <2>6
<1>4. CASE GarbageCollect /\ objs' \subseteq objs /\ UNCHANGED <<lifecycleCm, cacheCurrent, localCurrent>>
  BY <1>4, RecordKept DEF GarbageCollect, localVars
<1>5. ASSUME NEW v \in Version, Restart(v) PROVE RecordInv'
  <2> USE <1>5 DEF Restart, RecordInv
  <2>1. DataInv'
    BY MissingFacts DEF DataInv, Idle
  <2>2. Tracked'
    BY DEF Tracked, Tracks
  <2>3. QED
    BY <2>1, <2>2, RecordIdle DEF CleanupInv
<1>6. ASSUME NEW o \in Object, Vanish(o), UNCHANGED <<ver, pc, localVars>> PROVE RecordInv'
  BY <1>6, RecordKept DEF Vanish
<1>7. CASE \/ OtherEvent /\ UNCHANGED <<ver, pc, localVars>>
           \/ RefreshAgent
  BY <1>7, RecordKept DEF OtherEvent, RefreshAgent
<1>8. GarbageCollect => \/ lifecycleCm' = Missing /\ ~cacheCurrent' /\ ~localCurrent'
                        \/ objs' \subseteq objs /\ UNCHANGED <<lifecycleCm, cacheCurrent, localCurrent>>
  BY DEF GarbageCollect
<1>9. QED
  BY <1>1, <1>2, <1>3, <1>4, <1>5, <1>6, <1>7, <1>8 DEF Environment
-----------------------------------------------------------------------------
(* The steps of the controller around the lifecycle manager.                *)
LEMMA RecordController ==
    ASSUME CreationSeen, SafetyInv,
           StartReconcile \/ AddFinalizer \/ RemoveFinalizer \/ DryRun \/ ApplyDone
    PROVE  RecordInv'
<1> USE DEF SafetyInv, RecordInv, serverVars, cacheVars, boundVars, localVars
<1>1. ASSUME UNCHANGED <<lifecycleCm, cmCache, cacheCurrent, objs, cr, ver, local, localCurrent,
                         keys, visiting, failed>>,
             pc \in {"idle", "dryRun", "apply"},
             pc' \in {"idle", "addFinalizer", "dryRun", "update", "cleanup"},
             pc' \in {"dryRun", "update"} => (lifecycleCm.exists => cmCache.exists),
             pc' = "cleanup" => /\ "v3" \in agent'.finalizers
                                /\ \/ agent'.deleting
                                   \/ /\ UNCHANGED agent
                                      /\ lifecycleCm.data[getCurrentGenKey] = Deps[<<ver, agent.gen>>]
      PROVE  RecordInv'
  <2>1. VisitInv' /\ RecordCopies'
    BY <1>1 DEF VisitInv, RecordCopies, Cleaning
  <2>2. DataInv' /\ Tracked'
    BY <1>1 DEF DataInv, Tracked, Tracks
  <2>3. KeptInv'
    BY <1>1 DEF KeptInv, Cleaning, getCurrentGenKey
  <2>4. CleanupInv'
    BY <1>1 DEF CleanupInv
  <2>5. QED
    BY <2>1, <2>2, <2>3, <2>4
<1>2. CASE StartReconcile
  <2>1. crCache \in Agent /\ pc = "idle"
    BY <1>2 DEF StartReconcile, RemoteInv, TypeOK, ClusterTypeOK
  <2>2. pc' \in {"idle", "addFinalizer", "dryRun", "cleanup"}
    BY <1>2, <2>1 DEF StartReconcile, handleDeletion, Agent
  <2>3. pc' = "cleanup" => agent'.deleting /\ "v3" \in agent'.finalizers
    BY <1>2, <2>1 DEF StartReconcile, handleDeletion, Agent
  <2>4. pc' = "dryRun" => (lifecycleCm.exists => cmCache.exists)
    BY <1>2 DEF StartReconcile, RecordVisible
  <2>5. QED
    BY <1>1, <1>2, <2>1, <2>2, <2>3, <2>4 DEF StartReconcile
<1>3. CASE AddFinalizer \/ RemoveFinalizer
  <2>1. objs # {} => "v3" \in cr'.finalizers
    <3>1. CASE UNCHANGED cr
      BY <3>1 DEF CleanupInv
    <3>2. ASSUME NEW F, updateAgent(F), ~UNCHANGED cr PROVE cr'.finalizers = F
      BY <3>2 DEF updateAgent, PatchedFinalizers, RemoteInv, TypeOK, ClusterTypeOK, Agent
    <3>3. CASE AddFinalizer
      BY <3>1, <3>2, <3>3 DEF AddFinalizer
    <3>4. CASE RemoveFinalizer
      BY <3>4 DEF RemoveFinalizer, CleanupInv
    <3>5. QED
      BY <1>3, <3>3, <3>4
  <2>2. QED
    BY <1>3, <2>1, RecordReturn DEF AddFinalizer, RemoveFinalizer, updateAgent
<1>4. CASE DryRun
  BY <1>1, <1>4, RecordReturn DEF DryRun, CallFails, CleanupInv, KeptInv
<1>5. CASE ApplyDone
  <2>1. pc = "apply" /\ "v3" \in agent.finalizers
    BY <1>5 DEF ApplyDone, RemoteInv, CopyInv, Applying
  <2>2. QED
    BY <1>1, <1>5, <2>1, RecordReturn DEF ApplyDone, CleanupInv, KeptInv
<1>6. QED
  BY <1>2, <1>3, <1>4, <1>5

LEMMA RecordApplyObject ==
    ASSUME SafetyInv, NEW o \in Object, ApplyObject(o)
    PROVE  RecordInv'
<1> USE DEF SafetyInv, RecordInv, cacheVars
<1>1. /\ UNCHANGED <<lifecycleCm, cmCache, cacheCurrent, cr, ver, pc, agent, local, localCurrent,
                     keys, visiting>>
      /\ pc = "apply" /\ objs' \subseteq objs \cup {o} /\ o \in todo
  BY DEF ApplyObject
<1>2. getCurrentGenKey' = getCurrentGenKey /\ getCurrentGenKey \in Key
  BY <1>1, KeyFacts DEF getCurrentGenKey, RemoteInv
<1>3. o \in lifecycleCm.data[getCurrentGenKey]
  BY <1>1 DEF RemoteInv, WriteAhead, RecordedBeforeApply
<1>4. "v3" \in cr.finalizers
  BY <1>1 DEF RemoteInv, CopyInv, Applying
<1>5. VisitInv' /\ DataInv'
  BY <1>1 DEF VisitInv, DataInv, Cleaning
<1>6. RecordCopies'
  BY <1>1 DEF RecordCopies
<1>7. KeptInv'
  BY <1>1, <1>2 DEF KeptInv, Cleaning
<1>8. CleanupInv'
  BY <1>1, <1>4 DEF CleanupInv
<1>9. Tracked'
  BY <1>1, <1>2, <1>3 DEF Tracked, Tracks
<1>10. QED
  BY <1>5, <1>6, <1>7, <1>8, <1>9
-----------------------------------------------------------------------------
(* UpdateDependentLifecycleInfo *)
LEMMA RecordUpdateGet == ASSUME SafetyInv, UpdateGet PROVE RecordInv'
<1> USE DEF SafetyInv, RecordInv
<1>1. /\ UNCHANGED <<lifecycleCm, cmCache, cacheCurrent, objs, cr, ver, agent, keys, visiting>>
      /\ pc = "update" /\ pc' = "updateApply"
      /\ local' = Recorded(cmCache, getCurrentGenKey) /\ localCurrent' = cacheCurrent
  BY DEF UpdateGet, clusterVars, serverVars, cacheVars
<1>2. getCurrentGenKey' = getCurrentGenKey /\ currentDependents' = currentDependents
  BY <1>1 DEF getCurrentGenKey, currentDependents
<1>3. TypeOK /\ cmCache \in ConfigMap
  BY DEF RemoteInv, TypeOK, ClusterTypeOK
<1>4. currentDependents = Deps[<<ver, agent.gen>>]
  BY <1>1 DEF currentDependents, RemoteInv, CopyInv, Applying
<1>5. /\ local'.exists = cmCache.exists
      /\ \A k \in Key : local'.data[k] \subseteq Deps[<<k.ver, k.gen>>]
  BY <1>1, <1>3, <1>4, KeyFacts, RecordedFacts DEF DataInv
<1>6. VisitInv' /\ DataInv'
  BY <1>1, <1>5 DEF VisitInv, DataInv, Cleaning
<1>7. RecordCopies'
  <2>1. Recorded(lifecycleCm, getCurrentGenKey)' = Recorded(lifecycleCm, getCurrentGenKey)
    BY <1>1, <1>2 DEF Recorded
  <2>2. QED
    BY <1>1, <2>1 DEF RecordCopies
<1>8. KeptInv'
  BY <1>1, <1>5 DEF KeptInv, Cleaning
<1>9. CleanupInv' /\ Tracked'
  BY <1>1 DEF CleanupInv, Tracked, Tracks
<1>10. QED
  BY <1>6, <1>7, <1>8, <1>9

(* The write of Update keeps every entry or what it listed.                 *)
LEMMA UpdateKeepsTracks ==
    ASSUME SafetyInv, pc = "updateApply", ~local.exists \/ localCurrent,
           NEW o, Tracks(lifecycleCm, o)
    PROVE  \E k \in Key : o \in local.data[k]
<1> USE DEF SafetyInv, RecordInv
<1>1. PICK k \in Key : o \in lifecycleCm.data[k]
  BY DEF Tracks
<1>2. lifecycleCm.exists
  BY <1>1 DEF DataInv, NoData
<1>3. localCurrent /\ local = Recorded(lifecycleCm, getCurrentGenKey)
  BY <1>2 DEF KeptInv, RecordCopies
<1>4. TypeOK /\ lifecycleCm \in ConfigMap
  BY DEF RemoteInv, TypeOK, ClusterTypeOK
<1>5. CASE k \in {getCurrentGenKey, DirtyKey(getCurrentGenKey)}
  <2>1. o \in Deps[<<ver, agent.gen>>]
    BY <1>1, <1>4, <1>5, KeyFacts DEF DataInv
  <2>2. o \in currentDependents
    BY <2>1 DEF currentDependents, RemoteInv, CopyInv, Applying
  <2>3. QED
    BY <2>2, <1>3, <1>4, KeyFacts, RecordedFacts
<1>6. CASE k \notin {getCurrentGenKey, DirtyKey(getCurrentGenKey)}
  BY <1>1, <1>3, <1>4, <1>6, RecordedFacts
<1>7. QED
  BY <1>5, <1>6

LEMMA UpdateWrite ==
    ASSUME UpdateApply
    PROVE  /\ UNCHANGED <<cr, objs, cmCache, ver>> /\ pc = "updateApply"
           /\ \/ /\ ~local.exists \/ localCurrent
                 /\ lifecycleCm' = [exists |-> TRUE, data |-> local.data]
                 /\ cacheCurrent' => cacheCurrent /\ UNCHANGED lifecycleCm
                 /\ pc' = "apply" /\ local' = Missing /\ ~localCurrent'
                 /\ UNCHANGED <<agent, keys, visiting>>
              \/ Return(TRUE) /\ UNCHANGED <<lifecycleCm, cacheCurrent>>
BY DEF UpdateApply, WriteConfigMap, Conflict, CallFails

LEMMA RecordUpdateApply == ASSUME SafetyInv, UpdateApply PROVE RecordInv'
<1> USE DEF SafetyInv, RecordInv
<1>1. pc = "updateApply" /\ UNCHANGED <<cr, objs, cmCache, ver>>
  BY UpdateWrite
<1>2. "v3" \in cr.finalizers /\ currentDependents = Deps[<<ver, agent.gen>>]
  BY <1>1 DEF RemoteInv, CopyInv, Applying, currentDependents
<1>3. CASE /\ ~local.exists \/ localCurrent
           /\ lifecycleCm' = [exists |-> TRUE, data |-> local.data]
           /\ cacheCurrent' => cacheCurrent /\ UNCHANGED lifecycleCm
           /\ pc' = "apply" /\ local' = Missing /\ ~localCurrent'
           /\ UNCHANGED <<agent, keys, visiting>>
  <2>1. lifecycleCm'.exists /\ lifecycleCm'.data = local.data
    BY <1>3
  <2>2. getCurrentGenKey' = getCurrentGenKey
    BY <1>1, <1>3 DEF getCurrentGenKey
  <2>3. VisitInv' /\ RecordCopies'
    BY <1>1, <1>3 DEF VisitInv, RecordCopies, Cleaning
  <2>4. DataInv'
    BY <1>1, <1>3, <2>1, MissingFacts DEF DataInv
  <2>5. KeptInv'
    BY <1>1, <1>2, <1>3, <2>1, <2>2 DEF KeptInv, Cleaning, RemoteInv, WriteAhead
  <2>6. CleanupInv'
    BY <1>1, <1>2, <1>3 DEF CleanupInv
  <2>7. Tracked'
    BY <1>1, <1>3, <2>1, UpdateKeepsTracks DEF Tracked, Tracks
  <2>8. QED
    BY <2>3, <2>4, <2>5, <2>6, <2>7
<1>4. CASE Return(TRUE) /\ UNCHANGED <<lifecycleCm, cacheCurrent>>
  BY <1>1, <1>2, <1>4, RecordReturn
<1>5. QED
  BY <1>3, <1>4, UpdateWrite
-----------------------------------------------------------------------------
(* CleanupDependents *)
LEMMA RecordCleanupGet == ASSUME SafetyInv, CleanupGet PROVE RecordInv'
<1> USE DEF SafetyInv, RecordInv
<1>1. /\ UNCHANGED <<lifecycleCm, cmCache, cacheCurrent, objs, cr, ver, agent, visiting>>
      /\ pc = "cleanup" /\ pc' = "cleanupKeys"
      /\ local' = cmCache /\ localCurrent' = cacheCurrent
      /\ keys' = {k \in Key : cmCache.data[k] # {}}
  BY DEF CleanupGet, clusterVars, serverVars, cacheVars
<1>2. getCurrentGenKey' = getCurrentGenKey
  BY <1>1 DEF getCurrentGenKey
<1>3. VisitInv' /\ DataInv'
  BY <1>1 DEF VisitInv, DataInv, Cleaning
<1>4. RecordCopies'
  BY <1>1 DEF RecordCopies
<1>5. KeptInv'
  BY <1>1, <1>2 DEF KeptInv, Cleaning
<1>6. localCurrent' => \A k \in Key \ keys' : lifecycleCm.data[k] = {}
  BY <1>1 DEF RecordCopies
<1>7. CleanupInv' /\ Tracked'
  BY <1>1, <1>6 DEF CleanupInv, Tracked, Tracks
<1>8. QED
  BY <1>3, <1>4, <1>5, <1>7

LEMMA RecordDelete ==
    ASSUME SafetyInv, NEW k \in Key, DeleteAll(k)
    PROVE  RecordInv'
<1> USE DEF SafetyInv, RecordInv
<1>1. /\ UNCHANGED <<lifecycleCm, cmCache, cacheCurrent, objs, cr, ver, agent, local, localCurrent>>
      /\ pc = "cleanupKeys" /\ visiting = {} /\ k \in keys /\ keys' = keys \ {k}
      /\ \/ pc' = "verifyDeletion" /\ visiting' = {k} /\ UNCHANGED failed
         \/ pc' = "cleanupKeys" /\ visiting' = {} /\ failed'
  <2>1. pc = "cleanupKeys" /\ visiting = {}
    BY DEF DeleteAll, VisitInv
  <2>2. QED
    BY <2>1 DEF DeleteAll, cacheVars
<1>2. getCurrentGenKey' = getCurrentGenKey /\ currentDependents' = currentDependents
  BY <1>1 DEF getCurrentGenKey, currentDependents
<1>3. VisitInv' /\ DataInv'
  BY <1>1 DEF VisitInv, DataInv, Cleaning
<1>4. RecordCopies'
  BY <1>1, <1>2 DEF RecordCopies
<1>5. KeptInv'
  BY <1>1, <1>2 DEF KeptInv, Cleaning
<1>6. CleanupInv' /\ Tracked'
  BY <1>1, <1>2 DEF CleanupInv, Tracked, Tracks
<1>7. QED
  BY <1>3, <1>4, <1>5, <1>6

LEMMA RecordVerify ==
    ASSUME SafetyInv, NEW k \in Key, VerifyDeletion(k)
    PROVE  RecordInv'
<1> USE DEF SafetyInv, RecordInv
<1>1. /\ UNCHANGED <<lifecycleCm, cmCache, cacheCurrent, objs, cr, ver, agent, localCurrent, keys>>
      /\ pc = "verifyDeletion" /\ pc' = "cleanupKeys"
      /\ visiting = {k} /\ visiting' = {}
  BY DEF VerifyDeletion, serverVars, cacheVars, VisitInv
<1>2. getCurrentGenKey' = getCurrentGenKey /\ currentDependents' = currentDependents
  BY <1>1 DEF getCurrentGenKey, currentDependents
<1>3. local \in ConfigMap
  BY DEF RemoteInv, TypeOK
<1>4. /\ \A j \in Key \ {k} : local'.data[j] = local.data[j]
      /\ \/ local'.data[k] = local.data[k]
         \/ /\ k # getCurrentGenKey /\ local'.data[k] = {}
            /\ Deprecated(k) \cap objs = {}
  BY <1>3 DEF VerifyDeletion, ConfigMap
<1>5. VisitInv' /\ DataInv'
  BY <1>1, <1>4 DEF VisitInv, DataInv, Cleaning
<1>6. localCurrent /\ Deprecated(k) \cap objs = {}
        => lifecycleCm.data[k] \cap objs \subseteq currentDependents
  <2> SUFFICES ASSUME localCurrent, Deprecated(k) \cap objs = {}
               PROVE  lifecycleCm.data[k] \cap objs \subseteq currentDependents
    OBVIOUS
  <2>1. local.data[k] = lifecycleCm.data[k]
    BY <1>1 DEF RecordCopies
  <2>2. QED
    BY <2>1 DEF Deprecated
<1>7. RecordCopies'
  <2> SUFFICES ASSUME localCurrent
               PROVE  /\ local'.data[getCurrentGenKey] = lifecycleCm.data[getCurrentGenKey]
                      /\ \A j \in Key :
                            \/ local'.data[j] = lifecycleCm.data[j]
                            \/ /\ local'.data[j] = {} /\ j \notin keys
                               /\ lifecycleCm.data[j] \cap objs \subseteq currentDependents
    BY <1>1, <1>2 DEF RecordCopies
  <2>1. getCurrentGenKey \in Key /\ k \notin keys
    BY <1>1, KeyFacts DEF RemoteInv, VisitInv
  <2>2. QED
    BY <1>1, <1>4, <1>6, <2>1 DEF RecordCopies
<1>8. KeptInv'
  BY <1>1, <1>2 DEF KeptInv, Cleaning
<1>9. ~failed' => ~failed /\ Deprecated(k) \cap objs = {}
  BY DEF VerifyDeletion
<1>10. CleanupInv' /\ Tracked'
  BY <1>1, <1>2, <1>6, <1>9 DEF CleanupInv, Tracked, Tracks
<1>11. QED
  BY <1>5, <1>7, <1>8, <1>10

(* The write of CleanupDependents still lists whatever exists.              *)
LEMMA CleanupKeepsTracks ==
    ASSUME SafetyInv, pc = "cleanupKeys", localCurrent, NEW o \in objs
    PROVE  \E k \in Key : o \in local.data[k]
<1> USE DEF SafetyInv, RecordInv
<1>1. PICK k \in Key : o \in lifecycleCm.data[k]
  BY DEF Tracked, Tracks
<1>2. CASE local.data[k] = lifecycleCm.data[k]
  BY <1>1, <1>2
<1>3. CASE local.data[k] # lifecycleCm.data[k]
  <2>1. o \in currentDependents
    BY <1>1, <1>3 DEF RecordCopies
  <2>2. ~agent.deleting /\ o \in Deps[<<ver, agent.gen>>]
    BY <2>1 DEF currentDependents
  <2>3. o \in local.data[getCurrentGenKey]
    BY <2>2 DEF KeptInv, Cleaning, RecordCopies
  <2>4. QED
    BY <2>3, KeyFacts DEF RemoteInv
<1>4. QED
  BY <1>2, <1>3

LEMMA CleanupWrite ==
    ASSUME CleanupApply
    PROVE  /\ UNCHANGED <<cr, objs, cmCache, ver>> /\ pc = "cleanupKeys" /\ keys = {}
           /\ \/ /\ local.exists /\ localCurrent /\ lifecycleCm' = local
                 /\ cacheCurrent' => cacheCurrent /\ UNCHANGED lifecycleCm
                 /\ \/ /\ agent.deleting /\ ~failed
                       /\ pc' = "removeFinalizer" /\ local' = Missing /\ ~localCurrent'
                       /\ UNCHANGED <<agent, keys, visiting>>
                    \/ Return(failed)
              \/ Return(TRUE) /\ UNCHANGED <<lifecycleCm, cacheCurrent>>
BY DEF CleanupApply, WriteConfigMap, CallFails

LEMMA RecordCleanupApply == ASSUME SafetyInv, CleanupApply PROVE RecordInv'
<1> USE DEF SafetyInv, RecordInv
<1>1. pc = "cleanupKeys" /\ keys = {} /\ visiting = {} /\ UNCHANGED <<cr, objs, cmCache, ver>>
  BY CleanupWrite DEF VisitInv
<1>2. objs # {} => "v3" \in cr'.finalizers
  BY <1>1 DEF CleanupInv
<1>3. ASSUME local.exists, localCurrent, lifecycleCm' = local, local' = Missing
      PROVE  DataInv' /\ Tracked'
  <2>1. DataInv'
    BY <1>1, <1>3, MissingFacts DEF DataInv
  <2>2. Tracked'
    BY <1>1, <1>3, CleanupKeepsTracks DEF Tracked, Tracks
  <2>3. QED
    BY <2>1, <2>2
<1>4. CASE /\ local.exists /\ localCurrent /\ lifecycleCm' = local
           /\ cacheCurrent' => cacheCurrent /\ UNCHANGED lifecycleCm
           /\ agent.deleting /\ ~failed
           /\ pc' = "removeFinalizer" /\ local' = Missing /\ ~localCurrent'
           /\ UNCHANGED <<agent, keys, visiting>>
  <2>1. objs = {}
    BY <1>1, <1>4 DEF CleanupInv, Tracked, Tracks, currentDependents
  <2>2. VisitInv' /\ RecordCopies'
    BY <1>1, <1>4 DEF VisitInv, RecordCopies, Cleaning
  <2>3. KeptInv' /\ CleanupInv'
    BY <1>1, <1>4, <2>1 DEF KeptInv, CleanupInv, Cleaning
  <2>4. QED
    BY <1>3, <1>4, <2>2, <2>3
<1>5. CASE /\ local.exists /\ localCurrent /\ lifecycleCm' = local
           /\ cacheCurrent' => cacheCurrent /\ UNCHANGED lifecycleCm
           /\ Return(failed)
  <2>1. cacheCurrent' => cmCache' = lifecycleCm'
    BY <1>1, <1>5 DEF RecordCopies
  <2>2. Idle
    BY <1>5 DEF Return
  <2>3. DataInv' /\ Tracked'
    BY <1>3, <1>5, <2>2 DEF Idle
  <2>4. objs' # {} => "v3" \in cr'.finalizers
    BY <1>1, <1>2
  <2>5. QED
    BY <2>1, <2>2, <2>3, <2>4, RecordIdle
<1>6. CASE Return(TRUE) /\ UNCHANGED <<lifecycleCm, cacheCurrent>>
  BY <1>1, <1>2, <1>6, RecordReturn
<1>7. QED
  BY <1>4, <1>5, <1>6, CleanupWrite
-----------------------------------------------------------------------------
LEMMA SafetyInit == Init => SafetyInv
<1> SUFFICES ASSUME Init PROVE SafetyInv
  OBVIOUS
<1>1. DataInv
  BY MissingFacts DEF Init, ClusterInit, DataInv
<1>2. VisitInv /\ RecordCopies /\ KeptInv
  BY DEF Init, ClusterInit, VisitInv, RecordCopies, KeptInv, Cleaning
<1>3. CleanupInv /\ Tracked
  BY DEF Init, ClusterInit, CleanupInv, Tracked
<1>4. QED
  BY <1>1, <1>2, <1>3, RemoteInit DEF SafetyInv, RecordInv

LEMMA SafetyNext ==
    ASSUME CreationSeen, SafetyInv, [Next]_vars
    PROVE  SafetyInv'
<1>1. RemoteInv'
  BY RemoteNext DEF SafetyInv
<1>2. CASE Environment
  BY <1>1, <1>2, RecordEnvironment DEF SafetyInv
<1>3. CASE Reconcile
  BY <1>1, <1>3, RecordController, RecordApplyObject, RecordUpdateGet, RecordUpdateApply,
     RecordCleanupGet, RecordDelete, RecordVerify, RecordCleanupApply
  DEF Reconcile, SafetyInv
<1>4. CASE UNCHANGED vars
  BY <1>1, <1>4, RecordKept DEF vars, clusterVars, serverVars, cacheVars, SafetyInv
<1>5. QED
  BY <1>2, <1>3, <1>4 DEF Next

(* If the informer shows a new ConfigMap before the next reconcile, then    *)
(* without any retry of conflicts and for every set of objects, versions    *)
(* and generations: every dependent of a remote agent is recorded while it  *)
(* exists, and finalizerV3 is there before it and outlives it.              *)
THEOREM DependentsRecordedAndGuarded ==
    ASSUME CreationSeen
    PROVE  Spec => [](Tracked /\ (objs # {} => cr.exists /\ "v3" \in cr.finalizers))
<1>1. SafetyInv /\ [Next]_vars => SafetyInv'
  BY SafetyNext
<1>2. SafetyInv => Tracked /\ (objs # {} => cr.exists /\ "v3" \in cr.finalizers)
  BY DEF SafetyInv, RecordInv, RemoteInv, CopyInv, CleanupInv
<1>3. QED
  BY <1>1, <1>2, SafetyInit, PTL DEF Spec
-----------------------------------------------------------------------------
TrackedObjects == {o \in Object : Tracks(lifecycleCm, o)}
Guarded == cr.exists /\ "v3" \in cr.finalizers

(* A step that leaves the dependents and the record alone, and gives up the *)
(* finalizer only when no dependent is left, is a step of the registry.     *)
LEMMA RegistryGuardStep ==
    ASSUME UNCHANGED <<objs, lifecycleCm>>, Guarded /\ ~Guarded' => objs = {}
    PROVE  [Registry!Next]_(Registry!vars)
<1>1. TrackedObjects' = TrackedObjects
  BY DEF TrackedObjects, Tracks
<1>2. QED
  BY <1>1 DEF Registry!Next, Registry!vars, Registry!Guard, Registry!Release, Guarded, TrackedObjects

(* A step that only drops entries is one too: what exists stays recorded.   *)
LEMMA RegistryForgetStep ==
    ASSUME Tracked', UNCHANGED <<cr, objs>>, TrackedObjects' \subseteq TrackedObjects,
           objs \subseteq Object
    PROVE  [Registry!Next]_(Registry!vars)
<1> DEFINE S == TrackedObjects \ TrackedObjects'
<1>1. S \cap objs = {}
  BY DEF TrackedObjects, Tracked, Tracks
<1>2. TrackedObjects' = TrackedObjects \ S
  OBVIOUS
<1>3. Registry!Forget(S)
  BY <1>1, <1>2 DEF Registry!Forget, TrackedObjects
<1>4. S \in SUBSET Object
  BY DEF TrackedObjects
<1>5. QED
  BY <1>3, <1>4 DEF Registry!Next

LEMMA RegistryStep ==
    ASSUME SafetyInv, SafetyInv', [Next]_vars
    PROVE  [Registry!Next]_(Registry!vars)
<1> USE DEF SafetyInv, RecordInv
<1>0. objs \subseteq Object
  BY DEF RemoteInv, TypeOK, ClusterTypeOK
<1>1. CASE UNCHANGED <<cr, objs, lifecycleCm>>
  BY <1>1, RegistryGuardStep DEF Guarded
<1>2. CASE UserEdit \/ UserDelete
  <2>1. Guarded' = Guarded
    BY <1>2 DEF UserEdit, UserDelete, Guarded, RemoteInv, TypeOK, ClusterTypeOK, Agent
  <2>2. QED
    BY <1>2, <2>1, RegistryGuardStep DEF UserEdit, UserDelete
<1>3. CASE AddFinalizer \/ RemoveFinalizer
  <2>1. UNCHANGED <<objs, lifecycleCm>>
    BY <1>3 DEF AddFinalizer, RemoveFinalizer, updateAgent
  <2>2. ASSUME ~Guarded' PROVE objs = {}
    BY <2>1, <2>2 DEF Guarded, CleanupInv, RemoteInv, CopyInv
  <2>3. QED
    BY <2>1, <2>2, RegistryGuardStep
<1>4. ASSUME NEW o \in Object, objs' = objs \ {o}, UNCHANGED <<cr, lifecycleCm>>
      PROVE  [Registry!Next]_(Registry!vars)
  <2>1. Registry!Vanish(o)
    BY <1>4 DEF Registry!Vanish, Tracks
  <2>2. QED
    BY <2>1 DEF Registry!Next
<1>5. ASSUME NEW o \in Object, ApplyObject(o)
      PROVE  [Registry!Next]_(Registry!vars)
  <2>1. UNCHANGED <<cr, lifecycleCm>> /\ pc = "apply" /\ o \in todo
    BY <1>5 DEF ApplyObject
  <2>2. CASE objs' = objs \cup {o}
    <3>1. Guarded
      BY <2>1 DEF Guarded, RemoteInv, CopyInv, Applying
    <3>2. Tracks(lifecycleCm, o)
      BY <2>1, KeyFacts DEF Tracks, RemoteInv, WriteAhead, RecordedBeforeApply
    <3>3. Registry!Create(o)
      BY <2>1, <2>2, <3>1, <3>2 DEF Registry!Create, Tracks, Guarded
    <3>4. QED
      BY <3>3 DEF Registry!Next
  <2>3. QED
    BY <1>1, <1>5, <2>1, <2>2 DEF ApplyObject
<1>6. CASE UpdateApply /\ lifecycleCm' # lifecycleCm
  <2>1. /\ UNCHANGED <<cr, objs>> /\ pc = "updateApply"
        /\ ~local.exists \/ localCurrent
        /\ lifecycleCm'.data = local.data
    <3>1. lifecycleCm' = [exists |-> TRUE, data |-> local.data] /\ (~local.exists \/ localCurrent)
      BY <1>6, UpdateWrite
    <3>2. QED
      BY <1>6, <3>1, UpdateWrite
  <2>2. TrackedObjects \subseteq TrackedObjects'
    BY <2>1, UpdateKeepsTracks DEF TrackedObjects, Tracks
  <2>3. Guarded /\ Guarded'
    BY <2>1 DEF Guarded, RemoteInv, CopyInv, Applying
  <2>4. Registry!Record(TrackedObjects')
    BY <2>1, <2>2, <2>3 DEF Registry!Record, TrackedObjects, Guarded
  <2>5. TrackedObjects' \in SUBSET Object
    BY DEF TrackedObjects
  <2>6. QED
    BY <2>4, <2>5 DEF Registry!Next
<1>7. CASE CleanupApply /\ lifecycleCm' # lifecycleCm
  <2>1. UNCHANGED <<cr, objs>> /\ lifecycleCm' = local /\ localCurrent /\ pc = "cleanupKeys"
    BY <1>7, CleanupWrite
  <2>2. \A k \in Key : local.data[k] \subseteq lifecycleCm.data[k]
    BY <2>1 DEF RecordCopies
  <2>3. TrackedObjects' \subseteq TrackedObjects
    BY <2>1, <2>2 DEF TrackedObjects, Tracks
  <2>4. QED
    BY <1>0, <2>1, <2>3, RegistryForgetStep
<1>8. CASE GarbageCollect
  <2>1. CASE lifecycleCm' = Missing
    <3>1. TrackedObjects' = {}
      BY <2>1, MissingFacts DEF TrackedObjects, Tracks
    <3>2. objs = {}
      BY <1>8 DEF GarbageCollect, CleanupInv, RemoteInv, CopyInv
    <3>3. UNCHANGED <<cr, objs>>
      BY <1>8, <3>2 DEF GarbageCollect
    <3>4. QED
      BY <1>0, <3>1, <3>3, RegistryForgetStep
  <2>2. QED
    BY <1>0, <1>4, <1>8, <2>1 DEF GarbageCollect
<1>9. ASSUME NEW o \in Object, Vanish(o) PROVE [Registry!Next]_(Registry!vars)
  BY <1>4, <1>9 DEF Vanish
<1>10. QED
  BY <1>1, <1>2, <1>3, <1>5, <1>6, <1>7, <1>8, <1>9
  DEF Next, Environment, Reconcile, OtherEvent, RefreshConfigMap, RefreshAgent, Restart,
      StartReconcile, DryRun, ApplyDone, UpdateGet, UpdateApply, CleanupGet, CleanupApply,
      DeleteAll, VerifyDeletion, vars, clusterVars, serverVars

(* The remote controller with its lifecycle manager implements              *)
(* DependentRegistry: a conflict or fault that ends the reconcile, a crash  *)
(* or an upgrade between any two steps never shows in the registry.         *)
THEOREM RegistryRefinement ==
    ASSUME CreationSeen
    PROVE  Spec => RegistrySpec
<1>1. Init => Registry!Init
  <2> SUFFICES ASSUME Init PROVE Registry!Init
    OBVIOUS
  <2>1. objs = {} /\ TrackedObjects = {} /\ "v3" \notin cr.finalizers
    BY MissingFacts DEF Init, ClusterInit, TrackedObjects, Tracks
  <2>2. QED
    BY <2>1 DEF Registry!Init, TrackedObjects
<1>2. SafetyInv /\ [Next]_vars => SafetyInv'
  BY SafetyNext
<1>3. SafetyInv /\ SafetyInv' /\ [Next]_vars => [Registry!Next]_(Registry!vars)
  BY RegistryStep
<1>4. QED
  BY <1>1, <1>2, <1>3, SafetyInit, PTL DEF Spec, RegistrySpec, Registry!Spec
=============================================================================
