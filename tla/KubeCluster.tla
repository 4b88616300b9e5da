----------------------------- MODULE KubeCluster -----------------------------
(***************************************************************************)
(* The Kubernetes state the operator works against: the InstanaAgent       *)
(* custom resource, its dependent objects, the lifecycle ConfigMap that    *)
(* records them, the informer copies the operator reads, and the work      *)
(* queue of the controller.  None of this code lives in the repository;    *)
(* it is modelled from the way the repository uses it.                     *)
(*                                                                         *)
(* resourceVersions are compared with the server's current one and with    *)
(* nothing else, so a copy carries one bit: whether it is still current.   *)
(***************************************************************************)
EXTENDS Naturals

CONSTANTS
    Object,         \* the dependents any generation of the CR can ask for
    Owned,          \* those that carry an owner reference to the CR
    Version,        \* operator versions that may be deployed
    MaxGen,         \* bound: highest metadata.generation of the CR
    MaxFaults,      \* bound: calls that fail for reasons outside the model
    MaxRestarts     \* bound: operator crashes, restarts and upgrades

VARIABLES
    cr,             \* the InstanaAgent on the API server
    crCache,        \* the informer's copy of it
    objs,           \* dependents present on the API server
    terminating,    \* dependents with a deletionTimestamp, still present
    lifecycleCm,    \* ConfigMap <agent>-dependents on the API server
    cmCache,        \* the informer's copy of it
    cacheCurrent,   \* cmCache has the resourceVersion of lifecycleCm
    queued,         \* the work queue holds a request for the CR
    faults,         \* faults so far
    restarts        \* restarts so far

serverVars == <<cr, objs, terminating, lifecycleCm>>
cacheVars  == <<crCache, cmCache, cacheCurrent>>
boundVars  == <<faults, restarts>>
clusterVars == <<serverVars, cacheVars, queued, boundVars>>

ASSUME ConstantsAssumption ==
    /\ Owned \subseteq Object
    /\ MaxGen \in Nat /\ MaxGen >= 2
    /\ MaxFaults \in Nat
    /\ MaxRestarts \in Nat
-----------------------------------------------------------------------------
Gen == 1..MaxGen

(* finalizerV1 belongs to the Helm based 2.x operator, finalizerV3 to this one. *)
Finalizer == {"v1", "v3"}

Agent == [exists: BOOLEAN, gen: Gen, deleting: BOOLEAN, finalizers: SUBSET Finalizer]

(* A key of ConfigMap.Data is "<version>_<generation>", "-dirty" appended or not. *)
Key == [ver: Version, gen: Gen, dirty: BOOLEAN]

(* No list of dependents is ever empty, so an absent key is one mapped to {}. *)
NoData == [k \in Key |-> {}]
ConfigMap == [exists: BOOLEAN, data: [Key -> SUBSET Object]]
Missing == [exists |-> FALSE, data |-> NoData]

ClusterTypeOK ==
    /\ cr \in Agent /\ crCache \in Agent
    /\ objs \subseteq Object /\ terminating \subseteq objs
    /\ lifecycleCm \in ConfigMap /\ cmCache \in ConfigMap
    /\ cacheCurrent \in BOOLEAN
    /\ queued \in BOOLEAN
    /\ faults \in 0..MaxFaults
    /\ restarts \in 0..MaxRestarts

(* A CR has just been created, or an upgrade from 2.x finds one with the old *)
(* finalizer, and the create event is queued.                               *)
ClusterInit ==
    /\ cr \in {[exists |-> TRUE, gen |-> 1, deleting |-> FALSE, finalizers |-> F] :
                  F \in {{}, {"v1"}}}
    /\ crCache = cr
    /\ objs = {} /\ terminating = {}
    /\ lifecycleCm = Missing /\ cmCache = Missing /\ cacheCurrent = TRUE
    /\ queued = TRUE
    /\ faults = 0 /\ restarts = 0
-----------------------------------------------------------------------------
(* A call fails: an unreachable API server, a webhook, a quota, a timeout.  *)
Fault == faults < MaxFaults /\ faults' = faults + 1

(* A merge patch that sets metadata.finalizers; the API server removes an   *)
(* object under deletion together with its last finalizer.                  *)
PatchedFinalizers(F) ==
    [cr EXCEPT !.finalizers = F, !.exists = @ /\ ~(cr.deleting /\ F = {})]

(* The user changes the spec: metadata.generation is incremented.           *)
UserEdit ==
    /\ cr.exists /\ ~cr.deleting
    /\ cr.gen + 1 < MaxGen
    /\ cr' = [cr EXCEPT !.gen = @ + 1]
    /\ UNCHANGED <<objs, terminating, lifecycleCm, cacheVars, queued, boundVars>>

(* The user deletes the CR: finalizers hold it back with a deletionTimestamp *)
(* and one more generation.                                                  *)
UserDelete ==
    /\ cr.exists /\ ~cr.deleting
    /\ cr.gen < MaxGen
    /\ cr' = IF cr.finalizers = {} THEN [cr EXCEPT !.exists = FALSE]
                                   ELSE [cr EXCEPT !.deleting = TRUE, !.gen = @ + 1]
    /\ UNCHANGED <<objs, terminating, lifecycleCm, cacheVars, queued, boundVars>>

(* A deleted dependent is finally gone.  The watch on owned objects queues  *)
(* the CR, one without an owner reference maps to no request.               *)
Vanish(o) ==
    /\ o \in terminating
    /\ objs' = objs \ {o}
    /\ terminating' = terminating \ {o}
    /\ queued' = (queued \/ o \in Owned)
    /\ UNCHANGED <<cr, lifecycleCm, cacheVars, boundVars>>

(* The informer of ConfigMaps catches up with the API server.               *)
RefreshConfigMap ==
    /\ ~cacheCurrent
    /\ cmCache' = lifecycleCm
    /\ cacheCurrent' = TRUE
    /\ UNCHANGED <<serverVars, crCache, queued, boundVars>>

(* Any watched event that passes the filter without changing the dependents: *)
(* a Namespace label, the status of the DaemonSet, a foreign edit.           *)
OtherEvent ==
    /\ ~queued
    /\ queued' = TRUE
    /\ UNCHANGED <<serverVars, cacheVars, boundVars>>
=============================================================================
