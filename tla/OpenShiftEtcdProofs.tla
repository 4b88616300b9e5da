------------------------- MODULE OpenShiftEtcdProofs -------------------------
(***************************************************************************)
(* Safety of the copies of the OpenShift ETCD certificates, for any number *)
(* of rotations, failing calls and restarts.                               *)
(***************************************************************************)
EXTENDS OpenShiftEtcd, TLAPS

LEMMA InitEtcd == Init => EtcdInv
<1> SUFFICES ASSUME Init PROVE EtcdInv
  OBVIOUS
<1>1. TypeOK
  <2>1. Absent \in Resource /\ [rev: {1}, content: {"malformed", "valid"}] \subseteq Resource
    BY BoundsAssumption DEF Absent, Resource, Content
  <2>2. source \in [Name -> Resource] /\ NoResources \in [Name -> Resource]
    BY <2>1 DEF Init, NoResources
  <2>3. 0 \in 0..MaxFaults /\ 0 \in 0..MaxRestarts
    BY BoundsAssumption
  <2>4. mounted \in BOOLEAN /\ queued \in BOOLEAN /\ exist \in BOOLEAN /\ pc \in PC
    BY DEF Init, PC
  <2> QED BY <2>2, <2>3, <2>4 DEF Init, TypeOK
<1>2. PairInv
  BY DEF Init, PairInv, NoDanglingMount, NoResources
<1> QED BY <1>1, <1>2 DEF EtcdInv

LEMMA TypeStep == TypeOK /\ [Next]_vars => TypeOK'
<1> SUFFICES ASSUME TypeOK, [Next]_vars PROVE TypeOK'
  OBVIOUS
<1> USE BoundsAssumption DEF TypeOK, PC
<1>1. Absent \in Resource /\ NoResources \in [Name -> Resource]
  BY DEF Absent, NoResources, Resource, Content
<1>2. "ca" \in Name /\ "cert" \in Name
  BY DEF Name
<1>0. Fault => faults' \in 0..MaxFaults
  BY DEF Fault
<1>a. ASSUME NEW n \in Name, Get(n) PROVE read' \in [Name -> Resource] /\ faults' \in 0..MaxFaults
  BY <1>0, <1>1, <1>a DEF Get
<1>3. CASE StartReconcile
  <2>1. read' \in [Name -> Resource] /\ faults' \in 0..MaxFaults
    BY <1>2, <1>3, <1>a DEF StartReconcile
  <2>2. queued' \in BOOLEAN /\ exist' \in BOOLEAN /\ pc' \in PC
    BY <1>3 DEF StartReconcile
  <2> QED BY <1>3, <2>1, <2>2 DEF StartReconcile, clusterVars
<1>4. CASE FetchCert
  <2>1. read' \in [Name -> Resource] /\ faults' \in 0..MaxFaults
    BY <1>2, <1>4, <1>a DEF FetchCert
  <2>2. pc' \in PC
    BY <1>4 DEF FetchCert
  <2> QED BY <1>4, <2>1, <2>2 DEF FetchCert, clusterVars
<1>5. CASE CopyCA
  BY <1>2, <1>5 DEF CopyCA, Fault, clusterVars
<1>6. CASE CopyCert
  <2>1. copies' \in [Name -> Resource]
    BY <1>2, <1>6 DEF CopyCert
  <2>2. faults' \in 0..MaxFaults
    BY <1>0, <1>6 DEF CopyCert
  <2>3. exist' \in BOOLEAN /\ pc' \in PC
    BY <1>6 DEF CopyCert
  <2> QED BY <1>6, <2>1, <2>2, <2>3 DEF CopyCert, clusterVars
<1>7. ASSUME NEW n \in Name, NEW next \in PC, DeleteCopy(n, next) PROVE TypeOK'
  <2>1. copies' \in [Name -> Resource]
    BY <1>1, <1>7 DEF DeleteCopy
  <2>2. faults' \in 0..MaxFaults
    BY <1>0, <1>7 DEF DeleteCopy
  <2>3. queued' \in BOOLEAN
    BY <1>7 DEF DeleteCopy
  <2> QED BY <1>7, <2>1, <2>2, <2>3 DEF DeleteCopy, clusterVars
<1>8. CASE DeleteCA
  BY <1>2, <1>7, <1>8 DEF DeleteCA
<1>9. CASE DeleteCert
  BY <1>2, <1>7, <1>9 DEF DeleteCert
<1>10. CASE ApplyDeployment
  <2>1. faults' \in 0..MaxFaults
    BY <1>0, <1>10 DEF ApplyDeployment
  <2>2. queued' \in BOOLEAN /\ mounted' \in BOOLEAN /\ pc' \in PC
    BY <1>10 DEF ApplyDeployment
  <2> QED BY <1>10, <2>1, <2>2 DEF ApplyDeployment, clusterVars
<1>11. ASSUME NEW n \in Name, Rotate(n) PROVE TypeOK'
  <2>1. PICK c \in Content : source' = [source EXCEPT ![n] = [rev |-> source[n].rev + 1, content |-> c]]
    BY <1>11 DEF Rotate
  <2>2. source[n].rev + 1 \in 0..MaxRev
    BY <1>11 DEF Rotate, Resource
  <2>3. [rev |-> source[n].rev + 1, content |-> c] \in Resource
    BY <2>2 DEF Resource
  <2> QED BY <1>11, <2>1, <2>3 DEF Rotate, boundVars
<1>12. ASSUME NEW n \in Name, RefreshSource(n) PROVE TypeOK'
  BY <1>12 DEF RefreshSource, boundVars
<1>13. CASE OtherEvent
  BY <1>13 DEF OtherEvent, clusterVars, boundVars
<1>14. CASE Restart
  <2>1. restarts' \in 0..MaxRestarts
    BY <1>14 DEF Restart
  <2> QED BY <1>1, <1>14, <2>1 DEF Restart
<1>15. CASE UNCHANGED vars
  BY <1>15 DEF vars, clusterVars, boundVars
<1> QED
  BY <1>3, <1>4, <1>5, <1>6, <1>8, <1>9, <1>10, <1>11, <1>12, <1>13, <1>14, <1>15
  DEF Next, Reconcile

LEMMA PairStep == TypeOK /\ PairInv /\ [Next]_vars => PairInv'
<1> SUFFICES ASSUME TypeOK, PairInv, [Next]_vars PROVE PairInv'
  OBVIOUS
<1> USE DEF PairInv, NoDanglingMount
<1>1. "ca" \in Name /\ "cert" \in Name /\ \A n \in Name : n = "ca" \/ n = "cert"
  BY DEF Name
<1>2. copies \in [Name -> Resource] /\ read \in [Name -> Resource] /\ seen \in [Name -> Resource]
  BY DEF TypeOK
<1>3. Absent.content # "valid"
  BY DEF Absent
<1>4. CASE StartReconcile
  BY <1>1, <1>2, <1>4 DEF StartReconcile
<1>5. CASE FetchCert
  <2>1. pc' = "copyCA" => \A n \in Name : read'[n].content = "valid"
    <3>1. \/ read' = [read EXCEPT !["cert"] = seen["cert"]]
          \/ read' = [read EXCEPT !["cert"] = Absent]
      BY <1>5 DEF FetchCert, Get
    <3>2. read'["ca"] = read["ca"]
      BY <1>1, <1>2, <3>1
    <3>3. pc' = "copyCA" => read["ca"].content = "valid" /\ read'["cert"].content = "valid"
      BY <1>5 DEF FetchCert, validateOpenShiftETCDResources
    <3> QED BY <1>1, <3>2, <3>3
  <2> QED BY <1>5, <2>1 DEF FetchCert
<1>6. CASE CopyCA
  BY <1>1, <1>2, <1>3, <1>6 DEF CopyCA
<1>7. CASE CopyCert
  BY <1>1, <1>2, <1>3, <1>7 DEF CopyCert
<1>8. CASE DeleteCA
  BY <1>1, <1>2, <1>8 DEF DeleteCA, DeleteCopy
<1>9. CASE DeleteCert
  BY <1>1, <1>2, <1>9 DEF DeleteCert, DeleteCopy
<1>10. CASE ApplyDeployment
  BY <1>1, <1>3, <1>10 DEF ApplyDeployment
<1>11. ASSUME NEW n \in Name, Rotate(n) PROVE PairInv'
  BY <1>11 DEF Rotate
<1>12. ASSUME NEW n \in Name, RefreshSource(n) PROVE PairInv'
  BY <1>12 DEF RefreshSource
<1>13. CASE OtherEvent
  BY <1>13 DEF OtherEvent
<1>14. CASE Restart
  BY <1>14 DEF Restart
<1>15. CASE UNCHANGED vars
  BY <1>15 DEF vars
<1> QED
  BY <1>4, <1>5, <1>6, <1>7, <1>8, <1>9, <1>10, <1>11, <1>12, <1>13, <1>14, <1>15
  DEF Next, Reconcile

(* EtcdInv is an inductive invariant of setupOpenShiftETCDMonitoring.       *)
THEOREM EtcdInvariant == Spec => []EtcdInv
<1>1. Init => EtcdInv
  BY InitEtcd
<1>2. EtcdInv /\ [Next]_vars => EtcdInv'
  BY TypeStep, PairStep DEF EtcdInv
<1> QED BY <1>1, <1>2, PTL DEF Spec

(* A Deployment that mounts a missing copy is always about to be reconciled *)
(* again, whatever call failed or crashed before.                           *)
THEOREM DanglingMountCorrect == Spec => []NoDanglingMount
<1>1. EtcdInv => NoDanglingMount
  BY DEF EtcdInv, PairInv
<1> QED BY <1>1, EtcdInvariant, PTL

(* The Deployment is switched to the mounts only with both copies in place. *)
THEOREM MountCorrect == Spec => MountsOnlyCompletePair
<1>1. EtcdInv /\ [Next]_vars =>
         [~mounted /\ mounted' => \A n \in Name : copies[n].content = "valid"]_vars
  <2> SUFFICES ASSUME EtcdInv, Next, ~mounted, mounted'
               PROVE  \A n \in Name : copies[n].content = "valid"
    OBVIOUS
  <2>1. ApplyDeployment
    BY DEF Next, Reconcile, StartReconcile, FetchCert, CopyCA, CopyCert, DeleteCA, DeleteCert,
           DeleteCopy, Rotate, RefreshSource, OtherEvent, Restart
  <2> QED BY <2>1 DEF ApplyDeployment, EtcdInv, PairInv
<1> QED BY <1>1, EtcdInvariant, PTL DEF Spec, MountsOnlyCompletePair
=============================================================================
