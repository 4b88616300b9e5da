---------------------------- MODULE OpenShiftEtcd ----------------------------
(***************************************************************************)
(* controllers/apply.go on OpenShift: setupOpenShiftETCDMonitoring copies  *)
(* the CA bundle and the client certificate of ETCD from the namespace     *)
(* openshift-etcd next to the k8sensor, and tells the builder of its       *)
(* Deployment whether to mount the copies.  When a source is missing or    *)
(* malformed the copies are deleted.  Errors of copying and deleting are   *)
(* logged and do not fail the reconcile.                                   *)
(***************************************************************************)
EXTENDS Naturals

CONSTANTS
    MaxRev,       \* bound: revisions of each source
    MaxFaults,    \* bound: failing API calls
    MaxRestarts   \* bound: operator crashes and restarts

VARIABLES
    source,     \* the two resources in openshift-etcd
    seen,       \* the informer's copies of them
    copies,     \* what was copied to the namespace of the agent
    mounted,    \* the k8sensor Deployment mounts the copies
    queued,     \* the work queue holds a request for the CR
    pc,         \* where the reconcile is
    read,       \* the sources as this reconcile read them
    exist,      \* OpenShiftETCDResourcesExist of the deployment context
    faults, restarts

clusterVars == <<source, seen>>
boundVars == <<faults, restarts>>
vars == <<clusterVars, copies, mounted, queued, pc, read, exist, boundVars>>

ASSUME BoundsAssumption == MaxRev \in Nat \ {0} /\ MaxFaults \in Nat /\ MaxRestarts \in Nat
-----------------------------------------------------------------------------
Name == {"ca", "cert"}

(* "malformed" stands for missing data, a missing key and an empty value.   *)
Content == {"absent", "malformed", "valid"}
Resource == [rev: 0..MaxRev, content: Content]
Absent == [rev |-> 0, content |-> "absent"]
NoResources == [n \in Name |-> Absent]

PC == {"idle", "fetchCert", "copyCA", "copyCert", "deleteCA", "deleteCert", "apply"}

TypeOK ==
    /\ source \in [Name -> Resource] /\ seen \in [Name -> Resource]
    /\ copies \in [Name -> Resource] /\ read \in [Name -> Resource]
    /\ mounted \in BOOLEAN /\ queued \in BOOLEAN /\ exist \in BOOLEAN
    /\ pc \in PC
    /\ faults \in 0..MaxFaults /\ restarts \in 0..MaxRestarts

Init ==
    /\ source \in [Name -> {Absent} \cup [rev: {1}, content: {"malformed", "valid"}]]
    /\ seen = source
    /\ copies = NoResources /\ mounted = FALSE
    /\ queued = TRUE /\ pc = "idle" /\ read = NoResources /\ exist = FALSE
    /\ faults = 0 /\ restarts = 0

Fault == faults < MaxFaults /\ faults' = faults + 1
-----------------------------------------------------------------------------
(* A read that fails is an error like that of a missing resource.           *)
Get(n) ==
    \/ read' = [read EXCEPT ![n] = seen[n]] /\ UNCHANGED faults
    \/ Fault /\ read' = [read EXCEPT ![n] = Absent]

(* The first of the two reads; the context starts with                      *)
(* OpenShiftETCDResourcesExist unset.                                       *)
StartReconcile ==
    /\ pc = "idle" /\ queued
    /\ queued' = FALSE
    /\ Get("ca")
    /\ exist' = FALSE
    /\ pc' = "fetchCert"
    /\ UNCHANGED <<clusterVars, copies, mounted, restarts>>

(* The errors for the CA bundle and for the certificate; the content of the *)
(* certificate is looked at only if the bundle is in order.                 *)
validateOpenShiftETCDResources(ca, cert) ==
    [caErr   |-> ca.content # "valid",
     certErr |-> cert.content = "absent" \/ (ca.content = "valid" /\ cert.content # "valid")]

FetchCert ==
    /\ pc = "fetchCert"
    /\ Get("cert")
    /\ LET err == validateOpenShiftETCDResources(read["ca"], read'["cert"])
       IN  pc' = IF err.caErr \/ err.certErr THEN "deleteCA" ELSE "copyCA"
    /\ UNCHANGED <<clusterVars, copies, mounted, queued, exist, restarts>>

(* copyETCDResourcesToNamespace: a forced apply each; the first failure     *)
(* ends the copying, and the reconcile goes on without ETCD monitoring.     *)
CopyCA ==
    /\ pc = "copyCA"
    /\ \/ /\ copies' = [copies EXCEPT !["ca"] = read["ca"]]
          /\ pc' = "copyCert"
          /\ UNCHANGED faults
       \/ /\ Fault
          /\ pc' = "apply"
          /\ UNCHANGED copies
    /\ UNCHANGED <<clusterVars, mounted, queued, read, exist, restarts>>

(* Mutant: the context is set whether or not the Secret could be copied.    *)
CopyCertUnchecked ==
    /\ pc = "copyCert"
    /\ \/ copies' = [copies EXCEPT !["cert"] = read["cert"]] /\ UNCHANGED faults
       \/ Fault /\ UNCHANGED copies
    /\ exist' = TRUE
    /\ pc' = "apply"
    /\ UNCHANGED <<clusterVars, mounted, queued, read, restarts>>

CopyCert ==
    /\ pc = "copyCert"
    /\ \/ /\ copies' = [copies EXCEPT !["cert"] = read["cert"]]
          /\ exist' = TRUE
          /\ UNCHANGED faults
       \/ /\ Fault
          /\ UNCHANGED <<copies, exist>>
    /\ pc' = "apply"
    /\ UNCHANGED <<clusterVars, mounted, queued, read, restarts>>

(* cleanupCopiedETCDResources: the copies are owned by the CR, so their     *)
(* disappearance queues it; an error is logged.                             *)
DeleteCopy(n, next) ==
    /\ \/ /\ copies' = [copies EXCEPT ![n] = Absent]
          /\ queued' = (queued \/ copies[n] # Absent)
          /\ UNCHANGED faults
       \/ /\ Fault
          /\ UNCHANGED <<copies, queued>>
    /\ pc' = next
    /\ UNCHANGED <<clusterVars, mounted, read, exist, restarts>>

(* Mutant: only the ConfigMap is cleaned up.                                *)
SkipCert == pc = "deleteCert" /\ pc' = "apply"
               /\ UNCHANGED <<clusterVars, copies, queued, mounted, read, exist, boundVars>>

DeleteCA == pc = "deleteCA" /\ DeleteCopy("ca", "deleteCert")
DeleteCert == pc = "deleteCert" /\ DeleteCopy("cert", "apply")

(* Mutant: the error of ApplyAll does not reach the work queue.             *)
ApplyErrorDropped ==
    /\ pc = "apply"
    /\ \/ mounted' = exist /\ UNCHANGED faults
       \/ Fault /\ UNCHANGED mounted
    /\ pc' = "idle"
    /\ UNCHANGED <<clusterVars, copies, queued, read, exist, restarts>>

(* ApplyAll with the Deployment built from the context.                     *)
ApplyDeployment ==
    /\ pc = "apply"
    /\ \/ /\ mounted' = exist
          /\ UNCHANGED <<queued, faults>>
       \/ /\ Fault
          /\ queued' = TRUE
          /\ UNCHANGED mounted
    /\ pc' = "idle"
    /\ UNCHANGED <<clusterVars, copies, read, exist, restarts>>
-----------------------------------------------------------------------------
(* OpenShift rotates, breaks or removes a source.  The operator does not    *)
(* own it, so no event reaches the queue.                                   *)
Rotate(n) ==
    /\ source[n].rev < MaxRev
    /\ \E c \in Content : source' = [source EXCEPT ![n] = [rev |-> source[n].rev + 1, content |-> c]]
    /\ UNCHANGED <<seen, copies, mounted, queued, pc, read, exist, boundVars>>

RefreshSource(n) ==
    /\ seen[n] # source[n]
    /\ seen' = [seen EXCEPT ![n] = source[n]]
    /\ UNCHANGED <<source, copies, mounted, queued, pc, read, exist, boundVars>>

OtherEvent ==
    /\ ~queued
    /\ queued' = TRUE
    /\ UNCHANGED <<clusterVars, copies, mounted, pc, read, exist, boundVars>>

Restart ==
    /\ restarts < MaxRestarts
    /\ restarts' = restarts + 1
    /\ seen' = source
    /\ queued' = TRUE /\ pc' = "idle" /\ read' = NoResources /\ exist' = FALSE
    /\ UNCHANGED <<source, copies, mounted, faults>>

Reconcile ==
    \/ StartReconcile \/ FetchCert
    \/ CopyCA \/ CopyCert \/ DeleteCA \/ DeleteCert
    \/ ApplyDeployment

Next ==
    \/ Reconcile
    \/ \E n \in Name : Rotate(n) \/ RefreshSource(n)
    \/ OtherEvent \/ Restart

Spec == Init /\ [][Next]_vars

(* The worker runs and the informers catch up; events are not owed.         *)
FairSpec == Spec /\ WF_vars(Reconcile) /\ \A n \in Name : WF_vars(RefreshSource(n))
-----------------------------------------------------------------------------
(* The k8sensor Deployment is switched to the mounts only when both copies  *)
(* are there and complete, whatever copyETCDResourcesToNamespace went       *)
(* through before: OpenShiftETCDResourcesExist never announces half a pair. *)
MountsOnlyCompletePair ==
    [][~mounted /\ mounted' => \A n \in Name : copies[n].content = "valid"]_vars

(* A Deployment that mounts a copy which is gone cannot start its pods.     *)
(* cleanupCopiedETCDResources produces that state before ApplyAll ends it,  *)
(* and every error or crash in between leads to another reconcile.          *)
NoDanglingMount ==
    mounted /\ (\E n \in Name : copies[n] = Absent) => pc # "idle" \/ queued

(* Only validated sources are copied, and the context announces the pair    *)
(* only while both copies are in place.                                     *)
PairInv ==
    /\ \A n \in Name : copies[n] = Absent \/ copies[n].content = "valid"
    /\ pc \in {"copyCA", "copyCert"} => \A n \in Name : read[n].content = "valid"
    /\ pc = "copyCert" => copies["ca"].content = "valid"
    /\ pc \notin {"idle", "apply"} => ~exist
    /\ pc = "apply" /\ exist => \A n \in Name : copies[n].content = "valid"
    /\ NoDanglingMount

(* The inductive invariant behind the two: setupOpenShiftETCDMonitoring     *)
(* keeps PairInv and the types.                                             *)
EtcdInv == TypeOK /\ PairInv

(* Copies and mounts follow the sources.                                    *)
InSync ==
    IF \A n \in Name : source[n].content = "valid"
    THEN copies = source /\ mounted
    ELSE copies = NoResources /\ ~mounted

(* If reconciles keep coming, each synchronising by itself, the copies and  *)
(* the Deployment end up in line with the sources after rotations, failed   *)
(* calls and restarts.                                                      *)
Synchronises == []<>queued => <>[]InSync
=============================================================================
