--------------------------- MODULE WorkloadsProofs ----------------------------
(***************************************************************************)
(* Every CR, every number of edits, faults and restarts: the upgrade rule  *)
(* of INSTANA_PERSIST_HOST_UNIQUE_ID; what the builders build and what     *)
(* their pods refer to; and, from there, that the references of the pods   *)
(* resolve, that clean-up keeps what they refer to, and that the           *)
(* credentials of the CR reach the pods.                                   *)
(***************************************************************************)
EXTENDS Workloads, SequenceTheorems, TLAPS

(* The inductive invariant.  Informer: it is right about every DaemonSet    *)
(* that exists, unless the operator has written it since.  Carried: the     *)
(* variable of a DaemonSet that exists and the decision of the running      *)
(* reconcile agree, so that applying the DaemonSet does not change it.      *)
Informer ==
    \A o \in DaemonSets : Lives(o) /\ o \notin unseen => seen[o] = Observed(o)

Carried ==
    pc = "apply" => \A o \in DaemonSets : Lives(o) =>
        (o \in read => o \in hostId) /\ (o \in hostId => GetsVariable(o))

HostIdInv ==
    /\ OwnWritesSeen
    /\ live = [o \in AnyObject |-> live[o]]
    /\ seen = [o \in DaemonSets |-> seen[o]]
    /\ Informer
    /\ Carried

LEMMA DaemonSetsAreObjects == DaemonSets \subseteq AnyObject
BY DEF DaemonSets, AnyObject, Object

LEMMA HostIdInit == OwnWritesSeen /\ Init => HostIdInv
<1> SUFFICES ASSUME OwnWritesSeen, Init PROVE HostIdInv
  OBVIOUS
<1>1. live = [o \in AnyObject |-> live[o]]
  BY DEF Init
<1>2. seen = [o \in DaemonSets |-> seen[o]] /\ Informer
  BY DEF Init, Informer
<1>3. Carried
  BY DEF Init, Carried
<1>4. QED
  BY <1>1, <1>2, <1>3 DEF HostIdInv

(* Steps that write no DaemonSet keep what the invariant says of them.      *)
LEMMA HostIdNext == HostIdInv /\ [Next]_vars => HostIdInv'
<1> SUFFICES ASSUME HostIdInv, [Next]_vars PROVE HostIdInv'
  OBVIOUS
<1> USE DEF HostIdInv, Informer, Carried, Lives, Observed, GetsVariable
<1>a. OwnWritesSeen'
  OBVIOUS
<1>b. DaemonSets \subseteq AnyObject
  BY DaemonSetsAreObjects
<1>1. CASE StartReconcile
  <2>1. unseen = {}
    BY <1>1 DEF StartReconcile, WritesVisible
  <2>2. UNCHANGED <<live, hostId, seen, unseen>> /\ read' = {o \in DaemonSets : seen[o] # "without"}
    BY <1>1 DEF StartReconcile, shouldSetPersistHostUniqueIDEnvVar, clusterVars
  <2>3. \A o \in DaemonSets : Lives(o) => (o \in read' <=> o \in hostId)
    BY <2>1, <2>2
  <2>4. Carried'
    BY <2>2, <2>3
  <2>5. Informer'
    BY <2>2
  <2>6. QED
    BY <1>a, <2>2, <2>4, <2>5
<1>2. CASE FailDryRun
  BY <1>2 DEF FailDryRun, vars, clusterVars, localVars
<1>3. CASE ApplyObject
  <2> DEFINE o == Head(todo)
  <2>1. pc = "apply" /\ UNCHANGED <<pc, cur, read, seen>>
    BY <1>3 DEF ApplyObject
  <2>2. CASE UNCHANGED <<live, hostId, unseen>>
    BY <1>a, <2>1, <2>2
  <2>3. CASE /\ live' = [live EXCEPT ![o] = cur]
             /\ hostId' = IF GetsVariable(o) THEN hostId \cup {o} ELSE hostId \ {o}
             /\ unseen' = unseen \cup ({o} \cap DaemonSets)
    <3>1. live' = [p \in AnyObject |-> live'[p]]
      BY <2>3
    <3>2. \A p \in DaemonSets \ {o} : live'[p] = live[p] /\ (p \in hostId' <=> p \in hostId)
                                      /\ (p \in unseen' <=> p \in unseen)
      BY <1>b, <2>3
    <3>3. \A p \in DaemonSets : p = o => p \in unseen'
      BY <2>3
    <3>4. Informer'
      BY <2>1, <3>2, <3>3
    <3>5. \A p \in DaemonSets : p = o => (p \in hostId' <=> GetsVariable(p))
      BY <2>3
    <3>6. Carried'
      BY <2>1, <3>2, <3>5
    <3>7. QED
      BY <1>a, <2>1, <3>1, <3>4, <3>6
  <2>4. QED
    BY <1>3, <2>2, <2>3 DEF ApplyObject
<1>4. CASE ApplyDone
  BY <1>4, <1>a DEF ApplyDone, Return, clusterVars
<1>5. CASE CleanupDependents
  <2>1. PICK D : /\ live' = [o \in AnyObject |-> IF o \in D THEN Absent ELSE live[o]]
                 /\ hostId' = hostId \ D
    BY <1>5 DEF CleanupDependents
  <2>2. pc' = "idle" /\ UNCHANGED <<seen, unseen>>
    BY <1>5 DEF CleanupDependents, Return
  <2>3. live' = [o \in AnyObject |-> live'[o]]
    BY <2>1
  <2>4. \A o \in DaemonSets : Lives(o)' => live'[o] = live[o] /\ (o \in hostId' <=> o \in hostId)
    BY <1>b, <2>1
  <2>5. Informer'
    BY <2>2, <2>4
  <2>6. QED
    BY <1>a, <2>2, <2>3, <2>5
<1>6. CASE Restart
  BY <1>6, <1>a DEF Restart, Return
<1>7. CASE \E f \in Edited : UserEdit(f)
  BY <1>7, <1>a DEF UserEdit, localVars
<1>8. ASSUME NEW d \in DaemonSets, DeleteByHand(d) PROVE HostIdInv'
  <2>1. live' = [live EXCEPT ![d] = Absent] /\ hostId' = hostId \ {d}
    BY <1>8 DEF DeleteByHand
  <2>2. UNCHANGED <<seen, unseen, pc, cur, read>>
    BY <1>8 DEF DeleteByHand, localVars
  <2>3. live' = [o \in AnyObject |-> live'[o]]
    BY <2>1
  <2>4. \A o \in DaemonSets : Lives(o)' => live'[o] = live[o] /\ (o \in hostId' <=> o \in hostId)
    BY <1>b, <2>1
  <2>5. Informer' /\ Carried'
    BY <2>2, <2>4
  <2>6. QED
    BY <1>a, <2>2, <2>3, <2>5
<1>9. ASSUME NEW d \in DaemonSets, Refresh(d) PROVE HostIdInv'
  BY <1>9, <1>a DEF Refresh, localVars
<1>10. CASE UNCHANGED vars
  BY <1>10, <1>a DEF vars, clusterVars, localVars
<1>11. QED
  BY <1>1, <1>2, <1>3, <1>4, <1>5, <1>6, <1>7, <1>8, <1>9, <1>10 DEF Next

(* One step: only ApplyObject writes the variable of a DaemonSet that stays. *)
LEMMA StepKeepsHostId ==
    ASSUME HostIdInv, [Next]_vars, NEW d \in DaemonSets, Lives(d), Lives(d)'
    PROVE  /\ d \in hostId => d \in hostId'
           /\ d \in hostId' \ hostId => "podHostId" \in cur
<1> USE DEF HostIdInv
<1>b. DaemonSets \subseteq AnyObject
  BY DaemonSetsAreObjects
<1>1. CASE ApplyObject
  <2> DEFINE o == Head(todo)
  <2>1. \/ UNCHANGED hostId
        \/ hostId' = IF GetsVariable(o) THEN hostId \cup {o} ELSE hostId \ {o}
    BY <1>1 DEF ApplyObject
  <2>2. (d \in read => d \in hostId) /\ (d \in hostId => GetsVariable(d))
    BY <1>1 DEF ApplyObject, Carried
  <2>3. d \in hostId => d \in hostId'
    BY <2>1, <2>2
  <2>4. d \in hostId' \ hostId => d = o /\ GetsVariable(d) /\ d \notin read
    BY <2>1, <2>2
  <2>5. QED
    BY <2>3, <2>4 DEF GetsVariable
<1>2. CASE CleanupDependents
  <2>1. PICK D : /\ live' = [o \in AnyObject |-> IF o \in D THEN Absent ELSE live[o]]
                 /\ hostId' = hostId \ D
    BY <1>2 DEF CleanupDependents
  <2>2. d \notin D
    BY <1>b, <2>1 DEF Lives
  <2>3. QED
    BY <2>1, <2>2
<1>3. ASSUME NEW e \in DaemonSets, DeleteByHand(e) PROVE d \in hostId' <=> d \in hostId
  <2>1. live' = [live EXCEPT ![e] = Absent] /\ hostId' = hostId \ {e}
    BY <1>3 DEF DeleteByHand
  <2>2. d # e
    BY <1>b, <2>1 DEF Lives
  <2>3. QED
    BY <2>1, <2>2
<1>4. StartReconcile \/ FailDryRun \/ ApplyDone \/ Restart \/ UNCHANGED vars => UNCHANGED hostId
  BY DEF StartReconcile, FailDryRun, ApplyDone, Restart, vars, clusterVars
<1>5. (\E f \in Edited : UserEdit(f)) \/ (\E e \in DaemonSets : Refresh(e)) => UNCHANGED hostId
  BY DEF UserEdit, Refresh
<1>6. QED
  BY <1>1, <1>2, <1>3, <1>4, <1>5 DEF Next

(* As long as a reconcile finds the DaemonSets the one before it applied,   *)
(* INSTANA_PERSIST_HOST_UNIQUE_ID never appears on, nor disappears from, a  *)
(* DaemonSet that exists, except that pod.env may add it: upgrades, changes *)
(* of zones, faults between two applies, restarts and manual deletions that *)
(* the informer has not shown yet included.                                 *)
THEOREM HostIdStableTheorem == OwnWritesSeen /\ Spec => HostIdStable
<1>1. OwnWritesSeen /\ Init => HostIdInv
  BY HostIdInit
<1>2. HostIdInv /\ [Next]_vars => HostIdInv'
  BY HostIdNext
<1>3. HostIdInv /\ [Next]_vars =>
        [\A o \in DaemonSets : Lives(o) /\ Lives(o)' =>
            /\ o \in hostId => o \in hostId'
            /\ o \in hostId' \ hostId => "podHostId" \in cur]_vars
  BY StepKeepsHostId
<1>4. QED
  BY <1>1, <1>2, <1>3, PTL DEF Spec, HostIdStable
-----------------------------------------------------------------------------
(* The inductive invariant behind RejectedAsAWhole: the running reconcile   *)
(* works on a CR whose dry run succeeded, and so did that of every CR an    *)
(* object was applied from.                                                 *)
DryRunInv ==
    /\ live = [o \in AnyObject |-> live[o]]
    /\ pc # "idle" => dryRunSucceeds(cur)
    /\ \A o \in AnyObject : Lives(o) => dryRunSucceeds(live[o])

LEMMA DryRunIsRejection ==
    ASSUME \A o \in AnyObject : Lives(o) => dryRunSucceeds(live[o])
    PROVE  RejectedAsAWhole
BY DEF RejectedAsAWhole, dryRunSucceeds, Lives

(* Which CRs the server accepts does not change: only the kind is looked at. *)
LEMMA DryRunConstant == ASSUME [Next]_vars, NEW s PROVE dryRunSucceeds(s)' = dryRunSucceeds(s)
<1>1. kind' = kind
  BY DEF Next, StartReconcile, FailDryRun, ApplyObject, ApplyDone, CleanupDependents, Restart,
         UserEdit, DeleteByHand, Refresh, vars
<1>2. QED
  BY <1>1 DEF dryRunSucceeds, Accepts, Wanted, EnvOf, VolumesOf, Elements

LEMMA DryRunInit == Init => DryRunInv
<1> SUFFICES ASSUME Init PROVE DryRunInv
  OBVIOUS
<1>1. CASE live = [o \in AnyObject |-> Absent]
  BY <1>1 DEF Init, DryRunInv, Lives
<1>2. CASE /\ live = [o \in AnyObject |-> IF o \in Elements(Wanted(spec)) THEN spec ELSE Absent]
           /\ \A o \in Elements(Wanted(spec)) : Accepts(spec, o)
  BY <1>2 DEF Init, DryRunInv, Lives, dryRunSucceeds
<1>3. QED
  BY <1>1, <1>2 DEF Init

LEMMA DryRunNext == DryRunInv /\ [Next]_vars => DryRunInv'
<1> SUFFICES ASSUME DryRunInv, [Next]_vars PROVE DryRunInv'
  OBVIOUS
<1> USE DEF DryRunInv, Lives
<1>a. \A s : dryRunSucceeds(s)' = dryRunSucceeds(s)
  BY DryRunConstant
<1>b. SUFFICES /\ live' = [o \in AnyObject |-> live'[o]]
               /\ pc' # "idle" => dryRunSucceeds(cur')
               /\ \A o \in AnyObject : live'[o] # Absent => dryRunSucceeds(live'[o])
  BY <1>a DEF dryRunSucceeds, Accepts, Wanted, EnvOf, VolumesOf, Elements
<1>1. CASE StartReconcile
  BY <1>1 DEF StartReconcile, clusterVars
<1>2. CASE ApplyObject
  <2>1. pc = "apply" /\ UNCHANGED <<pc, cur>>
    BY <1>2 DEF ApplyObject
  <2>2. \/ UNCHANGED live
        \/ live' = [live EXCEPT ![Head(todo)] = cur]
    BY <1>2 DEF ApplyObject
  <2>3. QED
    BY <2>1, <2>2
<1>3. CASE ApplyDone
  BY <1>3 DEF ApplyDone, Return, clusterVars
<1>4. CASE CleanupDependents
  <2>1. PICK D : live' = [o \in AnyObject |-> IF o \in D THEN Absent ELSE live[o]]
    BY <1>4 DEF CleanupDependents
  <2>2. pc' = "idle"
    BY <1>4 DEF CleanupDependents, Return
  <2>3. QED
    BY <2>1, <2>2
<1>5. CASE Restart
  BY <1>5 DEF Restart, Return
<1>6. CASE \E d \in DaemonSets : DeleteByHand(d)
  <2>1. PICK d \in DaemonSets : live' = [live EXCEPT ![d] = Absent] /\ UNCHANGED <<pc, cur>>
    BY <1>6 DEF DeleteByHand, localVars
  <2>2. QED
    BY <2>1
<1>7. FailDryRun \/ UNCHANGED vars => UNCHANGED <<live, pc, cur>>
  BY DEF FailDryRun, vars, clusterVars, localVars
<1>8. (\E f \in Edited : UserEdit(f)) \/ (\E e \in DaemonSets : Refresh(e))
        => UNCHANGED <<live, pc, cur>>
  BY DEF UserEdit, Refresh, localVars
<1>9. CASE UNCHANGED <<live, pc, cur>>
  BY <1>9
<1>10. QED
  BY <1>1, <1>2, <1>3, <1>4, <1>5, <1>6, <1>7, <1>8, <1>9 DEF Next

(* The dry run makes ApplyAll all or nothing as far as the server's checks  *)
(* go: whatever CRs follow each other and wherever a reconcile stops, no    *)
(* object of a CR is applied of which another object would be refused.      *)
THEOREM RejectedAsAWholeTheorem == Spec => []RejectedAsAWhole
<1>1. Init => DryRunInv
  BY DryRunInit
<1>2. DryRunInv /\ [Next]_vars => DryRunInv'
  BY DryRunNext
<1>3. DryRunInv => RejectedAsAWhole
  BY DryRunIsRejection DEF DryRunInv
<1>4. QED
  BY <1>1, <1>2, <1>3, PTL DEF Spec
-----------------------------------------------------------------------------
(* The elements of the lists the builders put together.                     *)
LEMMA ElementsConcat ==
    ASSUME NEW S, NEW a \in Seq(S), NEW b \in Seq(S)
    PROVE  a \o b \in Seq(S) /\ Elements(a \o b) = Elements(a) \cup Elements(b)
<1>1. Len(a \o b) = Len(a) + Len(b) /\ a \o b \in Seq(S)
  BY ConcatProperties
<1>2. /\ DOMAIN (a \o b) = 1..(Len(a) + Len(b))
      /\ DOMAIN a = 1..Len(a) /\ DOMAIN b = 1..Len(b)
      /\ Len(a) \in Nat /\ Len(b) \in Nat
  BY <1>1
<1>3. \A i \in 1..Len(a) : (a \o b)[i] = a[i]
  BY <1>2, ConcatProperties
<1>4. \A i \in 1..Len(b) : (a \o b)[Len(a) + i] = b[i] /\ Len(a) + i \in 1..(Len(a) + Len(b))
  BY <1>2, ConcatProperties
<1>5. \A i \in (Len(a) + 1)..(Len(a) + Len(b)) :
         (a \o b)[i] = b[i - Len(a)] /\ i - Len(a) \in 1..Len(b)
  BY <1>2, <1>4
<1>6. Elements(a \o b) \subseteq Elements(a) \cup Elements(b)
  BY <1>2, <1>3, <1>5 DEF Elements
<1>7. Elements(a) \subseteq Elements(a \o b)
  BY <1>2, <1>3 DEF Elements
<1>8. Elements(b) \subseteq Elements(a \o b)
  BY <1>2, <1>4 DEF Elements
<1>9. QED
  BY <1>1, <1>6, <1>7, <1>8

LEMMA ElementsUnit ==
    ASSUME NEW S, NEW x \in S
    PROVE  /\ <<x>> \in Seq(S) /\ Elements(<<x>>) = {x}
           /\ <<>> \in Seq(S) /\ Elements(<<>>) = {}
BY DEF Elements

LEMMA ElementsHead ==
    ASSUME NEW S, NEW q \in Seq(S), q # <<>>
    PROVE  /\ Head(q) \in S /\ Tail(q) \in Seq(S)
           /\ Elements(q) \subseteq {Head(q)} \cup Elements(Tail(q))
<1>1. Len(q) \in Nat /\ Len(q) > 0 /\ DOMAIN q = 1..Len(q) /\ Head(q) = q[1]
  OBVIOUS
<1>2. Tail(q) \in Seq(S) /\ DOMAIN Tail(q) = 1..(Len(q) - 1)
  BY <1>1, HeadTailProperties
<1>3. \A i \in 1..(Len(q) - 1) : Tail(q)[i] = q[i + 1]
  BY <1>1, HeadTailProperties
<1>4. \A i \in 2..Len(q) : q[i] = Tail(q)[i - 1] /\ i - 1 \in DOMAIN Tail(q)
  BY <1>1, <1>2, <1>3
<1>5. \A i \in DOMAIN q : i = 1 \/ i \in 2..Len(q)
  BY <1>1
<1>6. Elements(q) \subseteq {Head(q)} \cup Elements(Tail(q))
  BY Zenon, <1>1, <1>4, <1>5 DEF Elements
<1>7. QED
  BY <1>1, <1>2, <1>6

LEMMA BuiltElements ==
    ASSUME NEW s, NEW o \in AnyObject
    PROVE  /\ Built(s, o) \in Seq(AnyObject)
           /\ Elements(Built(s, o)) = IF Builds(s, o) THEN {o} ELSE {}
BY ElementsUnit DEF Built

LEMMA ElementsPair ==
    ASSUME NEW S, NEW x \in S, NEW y \in S
    PROVE  <<x, y>> \in Seq(S) /\ Elements(<<x, y>>) = {x, y}
<1>1. DOMAIN <<x, y>> = 1..2
  OBVIOUS
<1>2. \A i \in 1..2 : i = 1 \/ i = 2
  OBVIOUS
<1>3. {<<x, y>>[i] : i \in 1..2} = {x, y}
  BY <1>2
<1>4. QED
  BY <1>1, <1>3 DEF Elements

LEMMA ElementsTriple ==
    ASSUME NEW S, NEW x \in S, NEW y \in S, NEW z \in S
    PROVE  <<x, y, z>> \in Seq(S) /\ Elements(<<x, y, z>>) = {x, y, z}
<1>1. DOMAIN <<x, y, z>> = 1..3
  OBVIOUS
<1>2. \A i \in 1..3 : i = 1 \/ i = 2 \/ i = 3
  OBVIOUS
<1>3. {<<x, y, z>>[i] : i \in 1..3} = {x, y, z}
  BY <1>2
<1>4. QED
  BY <1>1, <1>3 DEF Elements

LEMMA BackendsValue ==
    ASSUME NEW s
    PROVE  /\ Backends(s) = IF "backend" \in s THEN {"none", "-1"} ELSE {"none"}
           /\ DOMAIN getK8SensorBackends(s) = IF "backend" \in s THEN 1..2 ELSE 1..1
<1>1. Backends(s) = Elements(getK8SensorBackends(s))
  BY DEF Backends, Elements
<1>2. Elements(<<"none", "-1">>) = {"none", "-1"} /\ Elements(<<"none">>) = {"none"}
  BY ZenonT(30), ElementsPair, ElementsUnit
<1>3. DOMAIN <<"none", "-1">> = 1..2
  OBVIOUS
<1>4. DOMAIN <<"none">> = 1..1
  OBVIOUS
<1>5. QED
  BY <1>1, <1>2, <1>3, <1>4 DEF getK8SensorBackends

LEMMA PairParts ==
    ASSUME NEW A, NEW B, NEW o \in A \X B
    PROVE  o = <<o[1], o[2]>> /\ o[1] \in A /\ o[2] \in B
OBVIOUS

LEMMA PairsWithin ==
    ASSUME NEW A, NEW B, NEW S, \A a \in A, b \in B : <<a, b>> \in S
    PROVE  A \X B \subseteq S
BY PairParts

(* The roles and suffixes of the objects.                                   *)
LEMMA ObjectPairs ==
    /\ \A z \in {"none", "a", "b"} : <<"daemonset", z>> \in AnyObject
    /\ \A b \in Suffixes : <<"sensor", b>> \in AnyObject
    /\ \A r \in {"serviceaccount", "clusterrole", "clusterrolebinding"}, a \in Accounts :
          <<r, a>> \in AnyObject
    /\ \A r \in {"headless", "config", "containers", "tls", "service", "pdb", "sensorrbac",
                 "sensoraccount", "sensorconfig", "keys", "namespaces"} : <<r, "none">> \in AnyObject
    /\ \A r \in {"remote", "remoteaccount", "config", "containers", "tls", "keys"} :
          <<r, "none">> \in AnyObject
<1>1. \A z \in {"none", "a", "b"} : <<"daemonset", z>> \in Object
  BY DEF Object
<1>2. \A b \in Suffixes : <<"sensor", b>> \in Object
  BY DEF Object
<1>3. \A r \in {"serviceaccount", "clusterrole", "clusterrolebinding"}, a \in Accounts :
         <<r, a>> \in Object
  BY DEF Object
<1>4. \A r \in {"headless", "config", "containers", "tls", "service", "pdb", "sensorrbac",
                "sensoraccount", "sensorconfig", "keys", "namespaces"} : <<r, "none">> \in Object
  BY DEF Object
<1>5. \A r \in {"remote", "remoteaccount", "config", "containers", "tls", "keys"} :
         <<r, "none">> \in RemoteObject
  BY DEF RemoteObject
<1>6. Object \subseteq AnyObject /\ RemoteObject \subseteq AnyObject
  BY DEF AnyObject
<1>7. QED
  BY <1>1, <1>2, <1>3, <1>4, <1>5, <1>6

(* What a CR asks for, as a set: of the objects that have a builder those   *)
(* whose Build method yields them.                                          *)
Zones(s) == IF "zones" \in s THEN {"a", "b"} ELSE {"none"}

AgentBuilders(s) ==
    {"daemonset"} \X Zones(s) \cup {"sensor"} \X Backends(s)
    \cup {"serviceaccount", "clusterrole", "clusterrolebinding"} \X {ServiceAccountName(s)}
    \cup {"headless", "config", "containers", "tls", "service", "pdb", "sensorrbac",
          "sensoraccount", "sensorconfig", "keys", "namespaces"} \X {"none"}

LEMMA AgentBuildersAreObjects == ASSUME NEW s PROVE AgentBuilders(s) \subseteq AnyObject
<1>1. Zones(s) \subseteq {"none", "a", "b"} /\ ServiceAccountName(s) \in Accounts
  BY DEF Zones, ServiceAccountName, Accounts
<1>2. Backends(s) \subseteq Suffixes
  BY BackendsValue DEF Suffixes
<1>3. /\ {"daemonset"} \X Zones(s) \subseteq AnyObject
      /\ {"sensor"} \X Backends(s) \subseteq AnyObject
  <2>1. /\ \A a \in {"daemonset"}, b \in Zones(s) : <<a, b>> \in AnyObject
        /\ \A a \in {"sensor"}, b \in Backends(s) : <<a, b>> \in AnyObject
    BY <1>1, <1>2, ObjectPairs
  <2>2. QED
    BY <2>1, PairsWithin
<1>4. {"serviceaccount", "clusterrole", "clusterrolebinding"} \X {ServiceAccountName(s)}
         \subseteq AnyObject
  BY <1>1, ObjectPairs, PairsWithin
<1>5. {"headless", "config", "containers", "tls", "service", "pdb", "sensorrbac",
       "sensoraccount", "sensorconfig", "keys", "namespaces"} \X {"none"} \subseteq AnyObject
  BY ObjectPairs, PairsWithin
<1>6. QED
  BY <1>3, <1>4, <1>5 DEF AgentBuilders

LEMMA DaemonSetElements ==
    ASSUME NEW s
    PROVE  /\ getDaemonSetBuilders(s) \in Seq(AnyObject)
           /\ Elements(getDaemonSetBuilders(s)) = {o \in {"daemonset"} \X Zones(s) : Builds(s, o)}
<1>1. {<<"daemonset", "none">>, <<"daemonset", "a">>, <<"daemonset", "b">>} \subseteq AnyObject
  BY ObjectPairs
<1>2. CASE "zones" \in s
  <2> DEFINE a == Built(s, <<"daemonset", "a">>)
             b == Built(s, <<"daemonset", "b">>)
  <2>a. a \in Seq(AnyObject) /\ b \in Seq(AnyObject)
    BY <1>1, BuiltElements
  <2>b. getDaemonSetBuilders(s) = a \o b
    BY <1>2 DEF getDaemonSetBuilders
  <2>1. /\ getDaemonSetBuilders(s) \in Seq(AnyObject)
        /\ Elements(getDaemonSetBuilders(s)) = Elements(a) \cup Elements(b)
    <3> HIDE DEF a, b
    <3> QED
      BY <2>a, <2>b, ElementsConcat
  <2>2. {"daemonset"} \X Zones(s) = {<<"daemonset", "a">>, <<"daemonset", "b">>}
    BY <1>2 DEF Zones
  <2>3. QED
    BY ZenonT(30), <1>1, <2>1, <2>2, BuiltElements
<1>3. CASE "zones" \notin s
  <2>1. {"daemonset"} \X Zones(s) = {<<"daemonset", "none">>}
    BY <1>3 DEF Zones
  <2>2. QED
    BY <1>1, <1>3, <2>1, BuiltElements DEF getDaemonSetBuilders
<1>4. QED
  BY <1>2, <1>3

LEMMA SensorElements ==
    ASSUME NEW s
    PROVE  /\ getK8sSensorDeployments(s) \in Seq(AnyObject)
           /\ Elements(getK8sSensorDeployments(s)) = {o \in {"sensor"} \X Backends(s) : Builds(s, o)}
<1>1. \A o \in {"sensor"} \X Backends(s) : Builds(s, o) = SensorBuild(s)
  BY Zenon DEF Builds
<1>2. {"sensor"} \X Backends(s) \subseteq AnyObject
  BY AgentBuildersAreObjects DEF AgentBuilders
<1>3. CASE SensorBuild(s)
  <2> DEFINE d == DOMAIN getK8SensorBackends(s)
             q == [i \in d |-> <<"sensor", getK8SensorBackends(s)[i]>>]
  <2>1. getK8sSensorDeployments(s) = q
    BY <1>3 DEF getK8sSensorDeployments
  <2>2. d = 1..2 \/ d = 1..1
    BY BackendsValue
  <2>3. \A i \in d : <<"sensor", getK8SensorBackends(s)[i]>> \in {"sensor"} \X Backends(s)
    BY DEF Backends
  <2>4. q \in Seq(AnyObject)
    <3>1. \A i \in d : q[i] \in AnyObject
      BY <1>2, <2>3
    <3>2. PICK n \in Nat : d = 1..n
      <4>1. 1 \in Nat /\ 2 \in Nat
        OBVIOUS
      <4>2. QED
        BY Zenon, <2>2, <4>1
    <3>3. q \in [1..n -> AnyObject]
      BY Zenon, <3>1, <3>2
    <3>4. QED
      BY <3>3, SeqDef
  <2>5. Elements(q) = {"sensor"} \X Backends(s)
    BY DEF Elements, Backends
  <2>6. QED
    BY Zenon, <1>1, <1>3, <2>1, <2>4, <2>5
<1>4. CASE ~SensorBuild(s)
  BY <1>1, <1>4, ElementsUnit DEF getK8sSensorDeployments, Elements
<1>5. QED
  BY <1>3, <1>4

(* The list of applyResources holds the objects with a builder that yields  *)
(* them, and no others.                                                     *)
LEMMA AgentElements ==
    ASSUME NEW s
    PROVE  /\ buildObjects(s) \in Seq(AnyObject)
           /\ Elements(buildObjects(s)) = {o \in AgentBuilders(s) : Builds(s, o)}
<1> DEFINE account == ServiceAccountName(s)
           W(A) == {o \in A : Builds(s, o)}
           p1 == << <<"headless", "none">>, <<"config", "none">> >>
           p2 == Built(s, <<"containers", "none">>)
           p3 == Built(s, <<"tls", "none">>)
           p4 == Built(s, <<"service", "none">>)
           p5 == << <<"clusterrole", account>>, <<"clusterrolebinding", account>> >>
           p6 == Built(s, <<"serviceaccount", account>>)
           p7 == Built(s, <<"pdb", "none">>)
           p8 == << <<"sensorrbac", "none">>, <<"sensoraccount", "none">>, <<"sensorconfig", "none">> >>
           p9 == Built(s, <<"keys", "none">>)
           p10 == << <<"namespaces", "none">> >>
           Within(p, A) == p \in Seq(AnyObject) /\ Elements(p) = W(A)
<1>1. /\ account \in Accounts
      /\ <<"serviceaccount", account>> \in AnyObject /\ <<"clusterrole", account>> \in AnyObject
      /\ <<"clusterrolebinding", account>> \in AnyObject
  BY ObjectPairs DEF ServiceAccountName, Accounts
<1>2. /\ \A r \in {"headless", "config", "sensorrbac", "sensoraccount", "sensorconfig", "namespaces"} :
            <<r, "none">> \in AnyObject /\ Builds(s, <<r, "none">>)
      /\ \A r \in {"containers", "tls", "service", "pdb", "keys"} : <<r, "none">> \in AnyObject
  <2>1. \A r \in {"headless", "config", "sensorrbac", "sensoraccount", "sensorconfig", "namespaces"} :
           Builds(s, <<r, "none">>)
    BY DEF Builds
  <2>2. QED
    BY <2>1, ObjectPairs
<1>3. Builds(s, <<"clusterrole", account>>) /\ Builds(s, <<"clusterrolebinding", account>>)
  BY DEF Builds
<1>4. /\ Within(p2, {<<"containers", "none">>}) /\ Within(p3, {<<"tls", "none">>})
      /\ Within(p4, {<<"service", "none">>}) /\ Within(p6, {<<"serviceaccount", account>>})
      /\ Within(p7, {<<"pdb", "none">>}) /\ Within(p9, {<<"keys", "none">>})
  <2>1. \A o \in AnyObject : Within(Built(s, o), {o})
    BY BuiltElements
  <2> HIDE DEF Within
  <2>2. QED
    BY <1>1, <1>2, <2>1
<1>a. \A x \in AnyObject : Builds(s, x) => Within(<<x>>, {x})
  <2> TAKE x \in AnyObject
  <2>1. <<x>> \in Seq(AnyObject) /\ Elements(<<x>>) = {x}
    BY ElementsUnit
  <2>2. QED
    BY <2>1
<1>b. \A x, y \in AnyObject : Builds(s, x) /\ Builds(s, y) => Within(<<x, y>>, {x, y})
  BY ElementsPair
<1>c. \A x, y, z \in AnyObject :
         Builds(s, x) /\ Builds(s, y) /\ Builds(s, z) => Within(<<x, y, z>>, {x, y, z})
  BY ElementsTriple
<1>5. Within(p1, {<<"headless", "none">>, <<"config", "none">>})
  <2> HIDE DEF Within
  <2>1. <<"headless", "none">> \in AnyObject /\ <<"config", "none">> \in AnyObject
    BY <1>2
  <2>2. Builds(s, <<"headless", "none">>) /\ Builds(s, <<"config", "none">>)
    BY <1>2
  <2>3. QED
    BY <2>1, <2>2, <1>b
<1>6. Within(p5, {<<"clusterrole", account>>, <<"clusterrolebinding", account>>})
  BY <1>1, <1>3, <1>b
<1>7. Within(p8, {<<"sensorrbac", "none">>, <<"sensoraccount", "none">>, <<"sensorconfig", "none">>})
  <2> HIDE DEF Within
  <2>1. /\ <<"sensorrbac", "none">> \in AnyObject /\ <<"sensoraccount", "none">> \in AnyObject
        /\ <<"sensorconfig", "none">> \in AnyObject
    BY <1>2
  <2>2. /\ Builds(s, <<"sensorrbac", "none">>) /\ Builds(s, <<"sensoraccount", "none">>)
        /\ Builds(s, <<"sensorconfig", "none">>)
    BY <1>2
  <2>3. QED
    BY <2>1, <2>2, <1>c
<1>8. Within(p10, {<<"namespaces", "none">>})
  <2> HIDE DEF Within
  <2>1. <<"namespaces", "none">> \in AnyObject /\ Builds(s, <<"namespaces", "none">>)
    BY <1>2
  <2>2. QED
    BY <2>1, <1>a
<1>9. Within(getDaemonSetBuilders(s), {"daemonset"} \X Zones(s))
  BY DaemonSetElements
<1>10. Within(getK8sSensorDeployments(s), {"sensor"} \X Backends(s))
  BY SensorElements
<1>11. \A p, q, A, B : Within(p, A) /\ Within(q, B) => Within(p \o q, A \cup B)
  BY ElementsConcat
<1>12. buildObjects(s) = getDaemonSetBuilders(s) \o p1 \o p2 \o p3 \o p4 \o p5 \o p6 \o p7 \o p8
                         \o p9 \o p10 \o getK8sSensorDeployments(s)
  BY DEF buildObjects
<1> DEFINE A1 == {"daemonset"} \X Zones(s) \cup {<<"headless", "none">>, <<"config", "none">>}
           A2 == A1 \cup {<<"containers", "none">>} \cup {<<"tls", "none">>}
                    \cup {<<"service", "none">>}
           A3 == A2 \cup {<<"clusterrole", account>>, <<"clusterrolebinding", account>>}
                    \cup {<<"serviceaccount", account>>} \cup {<<"pdb", "none">>}
           A4 == A3 \cup {<<"sensorrbac", "none">>, <<"sensoraccount", "none">>,
                           <<"sensorconfig", "none">>}
                    \cup {<<"keys", "none">>} \cup {<<"namespaces", "none">>}
           All == A4 \cup {"sensor"} \X Backends(s)
           q1 == getDaemonSetBuilders(s) \o p1
           q2 == q1 \o p2 \o p3 \o p4
           q3 == q2 \o p5 \o p6 \o p7
           q4 == q3 \o p8 \o p9 \o p10
<1>13. Within(buildObjects(s), All)
  <2> HIDE DEF Within, p1, p2, p3, p4, p5, p6, p7, p8, p9, p10
  <2>1. Within(q1, A1)
    BY <1>5, <1>9, <1>11
  <2>2. Within(q2, A2)
    <3> HIDE DEF q1, A1
    <3> QED BY Zenon, <1>4, <1>11, <2>1
  <2>3. Within(q3, A3)
    <3> HIDE DEF q2, A2
    <3> QED BY Zenon, <1>4, <1>6, <1>11, <2>2
  <2>4. Within(q4, A4)
    <3> HIDE DEF q3, A3
    <3> QED BY Zenon, <1>4, <1>7, <1>8, <1>11, <2>3
  <2>5. buildObjects(s) = q4 \o getK8sSensorDeployments(s)
    BY <1>12
  <2>6. QED
    <3> HIDE DEF q4, A4
    <3> QED BY <1>10, <1>11, <2>4, <2>5
<1>14. All = AgentBuilders(s)
  <2>1. {"serviceaccount", "clusterrole", "clusterrolebinding"} \X {account}
          = {<<"serviceaccount", account>>, <<"clusterrole", account>>,
             <<"clusterrolebinding", account>>}
    OBVIOUS
  <2> DEFINE R == {"headless", "config", "containers", "tls", "service", "pdb", "sensorrbac",
                   "sensoraccount", "sensorconfig", "keys", "namespaces"}
             P == {<<"headless", "none">>, <<"config", "none">>, <<"containers", "none">>,
                   <<"tls", "none">>, <<"service", "none">>, <<"pdb", "none">>,
                   <<"sensorrbac", "none">>, <<"sensoraccount", "none">>,
                   <<"sensorconfig", "none">>, <<"keys", "none">>, <<"namespaces", "none">>}
  <2>2. R \X {"none"} = P
    <3>1. \A a \in R, b \in {"none"} : <<a, b>> \in P
      OBVIOUS
    <3>2. R \X {"none"} \subseteq P
      <4> HIDE DEF R, P
      <4> QED BY <3>1, PairsWithin
    <3>3. P \subseteq R \X {"none"}
      <4>1. \A a \in R : <<a, "none">> \in R \X {"none"}
        OBVIOUS
      <4>2. \A x \in P : \E a \in R : x = <<a, "none">>
        OBVIOUS
      <4> HIDE DEF R, P
      <4>3. QED
        BY <4>1, <4>2
    <3>4. QED
      BY <3>2, <3>3
  <2>3. QED
    BY <2>1, <2>2 DEF AgentBuilders
<1>15. QED
  BY <1>13, <1>14

RemoteElementsOf(s) == {o \in RemoteObject : remoteBuilds(s, o)}

LEMMA RemoteElements ==
    ASSUME NEW s
    PROVE  /\ remoteBuildObjects(s) \in Seq(AnyObject)
           /\ Elements(remoteBuildObjects(s)) = RemoteElementsOf(s)
<1> DEFINE W(A) == {o \in A : remoteBuilds(s, o)}
           Within(p, A) == p \in Seq(AnyObject) /\ Elements(p) = W(A)
           built(o) == IF remoteBuilds(s, o) THEN <<o>> ELSE <<>>
           d == DOMAIN getK8SensorBackends(s)
           q == [i \in d |-> <<"remote", "none">>]
           p1 == IF remoteBuilds(s, <<"remote", "none">>) THEN q ELSE <<>>
           p2 == << <<"config", "none">> >>
           p3 == built(<<"containers", "none">>)
           p4 == built(<<"tls", "none">>)
           p5 == built(RemoteAccount)
           p6 == built(<<"keys", "none">>)
           All == {<<"remote", "none">>} \cup {<<"config", "none">>} \cup {<<"containers", "none">>}
                  \cup {<<"tls", "none">>} \cup {RemoteAccount} \cup {<<"keys", "none">>}
<1>1. \A r \in {"remote", "config", "containers", "tls", "keys"} : <<r, "none">> \in AnyObject
  BY ObjectPairs
<1>2. RemoteAccount \in AnyObject
  BY ObjectPairs DEF RemoteAccount
<1>3. \A o \in AnyObject : Within(built(o), {o})
  <2> TAKE o \in AnyObject
  <2>1. <<o>> \in Seq(AnyObject) /\ Elements(<<o>>) = {o}
    BY ElementsUnit
  <2>2. <<>> \in Seq(AnyObject) /\ Elements(<<>>) = {}
    BY Zenon, ElementsUnit
  <2>3. QED
    BY <2>1, <2>2
<1>4. Within(p3, {<<"containers", "none">>}) /\ Within(p4, {<<"tls", "none">>})
      /\ Within(p5, {RemoteAccount}) /\ Within(p6, {<<"keys", "none">>})
  <2> HIDE DEF Within, built
  <2> QED
    BY <1>1, <1>2, <1>3
<1>5. Within(p2, {<<"config", "none">>})
  <2>1. remoteBuilds(s, <<"config", "none">>)
    BY DEF remoteBuilds, Builds
  <2>2. p2 = built(<<"config", "none">>)
    BY <2>1
  <2> HIDE DEF Within, built, p2
  <2>3. QED
    BY <1>1, <1>3, <2>2
<1>6. Within(p1, {<<"remote", "none">>})
  <2> DEFINE r == <<"remote", "none">>
  <2>1. r \in AnyObject
    BY <1>1
  <2>2. d = 1..2 \/ d = 1..1
    BY BackendsValue
  <2>3. PICK n \in Nat : d = 1..n /\ n > 0
    <3>1. 1 \in Nat /\ 2 \in Nat /\ 1 > 0 /\ 2 > 0
      OBVIOUS
    <3>2. QED
      BY Zenon, <2>2, <3>1
  <2>4. q \in Seq(AnyObject)
    <3>1. q \in [1..n -> AnyObject]
      BY <2>1, <2>3
    <3> HIDE DEF q
    <3>2. QED
      BY <3>1, SeqDef
  <2>5. Elements(q) = {r}
    <3>1. 1 \in d
      BY <2>3
    <3>2. DOMAIN q = d /\ \A i \in d : q[i] = r
      OBVIOUS
    <3> HIDE DEF q, d, r
    <3>3. QED
      BY <3>1, <3>2 DEF Elements
  <2>6. <<>> \in Seq(AnyObject) /\ Elements(<<>>) = {}
    BY Zenon, <2>1, ElementsUnit
  <2> HIDE DEF q, r
  <2>7. QED
    BY <2>4, <2>5, <2>6 DEF r
<1>7. \A p, t, A, B : Within(p, A) /\ Within(t, B) => Within(p \o t, A \cup B)
  BY ElementsConcat
<1>8. remoteBuildObjects(s) = p1 \o p2 \o p3 \o p4 \o p5 \o p6
  BY DEF remoteBuildObjects
<1>9. Within(remoteBuildObjects(s), All)
  <2> HIDE DEF Within, p1, p2, p3, p4, p5, p6
  <2>1. Within(p1 \o p2, {<<"remote", "none">>} \cup {<<"config", "none">>})
    BY <1>5, <1>6, <1>7
  <2>2. Within(p1 \o p2 \o p3 \o p4, {<<"remote", "none">>} \cup {<<"config", "none">>}
                                     \cup {<<"containers", "none">>} \cup {<<"tls", "none">>})
    BY Zenon, <1>4, <1>7, <2>1
  <2>3. Within(p1 \o p2 \o p3 \o p4 \o p5, {<<"remote", "none">>} \cup {<<"config", "none">>}
                       \cup {<<"containers", "none">>} \cup {<<"tls", "none">>} \cup {RemoteAccount})
    BY <1>4, <1>7, <2>2
  <2>4. Within(p1 \o p2 \o p3 \o p4 \o p5 \o p6, All)
    BY <1>4, <1>7, <2>3
  <2> HIDE DEF All
  <2>5. QED
    BY <1>8, <2>4
<1>10. All = RemoteObject
  <2> DEFINE R == {"remote", "remoteaccount", "config", "containers", "tls", "keys"}
  <2>1. \A a \in R, b \in {"none"} : <<a, b>> \in All
    BY DEF RemoteAccount
  <2>2. R \X {"none"} \subseteq All
    <3> HIDE DEF R, All
    <3> QED BY <2>1, PairsWithin
  <2>3. \A a \in R : <<a, "none">> \in R \X {"none"}
    OBVIOUS
  <2>4. \A x \in All : \E a \in R : x = <<a, "none">>
    BY DEF RemoteAccount
  <2>5. RemoteObject = R \X {"none"}
    BY DEF RemoteObject
  <2> HIDE DEF R, All
  <2>6. QED
    BY <2>2, <2>3, <2>4, <2>5
<1>11. QED
  BY <1>9, <1>10 DEF RemoteElementsOf
-----------------------------------------------------------------------------
(* The roles of the objects: the Secrets and ConfigMaps of the user, and    *)
(* the copies other components make, are none of them.                      *)
Roles == {"daemonset", "sensor", "serviceaccount", "clusterrole", "clusterrolebinding", "headless",
          "config", "containers", "tls", "service", "pdb", "sensorrbac", "sensoraccount",
          "sensorconfig", "keys", "namespaces", "remote", "remoteaccount"}

LEMMA ObjectRoles == \A o \in AnyObject : o[1] \in Roles
<1> DEFINE R == {"headless", "config", "containers", "tls", "service", "pdb", "sensorrbac",
                 "sensoraccount", "sensorconfig", "keys", "namespaces"}
           T == {"remote", "remoteaccount", "config", "containers", "tls", "keys"}
           A == {"serviceaccount", "clusterrole", "clusterrolebinding"}
<1>1. R \subseteq Roles /\ T \subseteq Roles /\ A \subseteq Roles
      /\ "daemonset" \in Roles /\ "sensor" \in Roles
  BY DEF Roles
<1>2. AnyObject = {"daemonset"} \X {"none", "a", "b"} \cup {"sensor"} \X Suffixes \cup A \X Accounts
                  \cup R \X {"none"} \cup T \X {"none"}
  BY DEF AnyObject, Object, RemoteObject
<1> HIDE DEF R, T, A
<1>3. QED
  BY <1>1, <1>2, PairParts

LEMMA NotObjects ==
    \A r \in {"userKeys", "userTls", "userEtcdCA", "userRestCA", "copiedCA", "copiedCert",
              "discoveredCA"} : <<r, "none">> \notin AnyObject
<1> SUFFICES ASSUME NEW r \in {"userKeys", "userTls", "userEtcdCA", "userRestCA", "copiedCA",
                               "copiedCert", "discoveredCA"}
             PROVE  <<r, "none">> \notin AnyObject
  OBVIOUS
<1>1. <<r, "none">>[1] = r
  OBVIOUS
<1>2. r \notin Roles
  BY DEF Roles
<1>3. QED
  BY <1>1, <1>2, ObjectRoles

LEMMA DaemonSetRole == \A o \in DaemonSets : o[1] = "daemonset"
BY PairParts DEF DaemonSets

(* What a reconcile of CR s applies and nobody deletes by hand.             *)
Kept(s) == Elements(Wanted(s)) \ DaemonSets

(* The objects an InstanaAgent keeps.                                       *)
LEMMA AgentKeeps ==
    ASSUME kind = "agent", NEW s
    PROVE  /\ \A r \in {"config", "namespaces", "sensoraccount", "sensorconfig"} :
                 <<r, "none">> \in Kept(s)
           /\ TLSSecretBuild(s) => <<"tls", "none">> \in Kept(s)
           /\ KeysSecretBuild(s) => <<"keys", "none">> \in Kept(s)
           /\ ContainersSecretBuild(s) => <<"containers", "none">> \in Kept(s)
           /\ ServiceAccountBuild(s) => <<"serviceaccount", ServiceAccountName(s)>> \in Kept(s)
<1>1. Elements(Wanted(s)) = {o \in AgentBuilders(s) : Builds(s, o)}
  BY AgentElements DEF Wanted
<1>2. \A r \in {"config", "namespaces", "sensoraccount", "sensorconfig", "tls", "keys", "containers"} :
         <<r, "none">> \in AgentBuilders(s)
  BY DEF AgentBuilders
<1>3. <<"serviceaccount", ServiceAccountName(s)>> \in AgentBuilders(s)
  BY DEF AgentBuilders
<1>4. \A r, t : r # "daemonset" => <<r, t>> \notin DaemonSets
  BY DaemonSetRole
<1>5. \A r \in {"config", "namespaces", "sensoraccount", "sensorconfig"} : Builds(s, <<r, "none">>)
  BY DEF Builds
<1>6. /\ Builds(s, <<"tls", "none">>) = TLSSecretBuild(s)
      /\ Builds(s, <<"keys", "none">>) = KeysSecretBuild(s)
      /\ Builds(s, <<"containers", "none">>) = ContainersSecretBuild(s)
      /\ Builds(s, <<"serviceaccount", ServiceAccountName(s)>>) = ServiceAccountBuild(s)
  BY DEF Builds
<1>7. QED
  BY <1>1, <1>2, <1>3, <1>4, <1>5, <1>6 DEF Kept

LEMMA RemoteKeeps ==
    ASSUME kind = "remote", NEW s
    PROVE  /\ <<"config", "none">> \in Kept(s)
           /\ TLSSecretBuild(s) => <<"tls", "none">> \in Kept(s)
           /\ KeysSecretBuild(s) => <<"keys", "none">> \in Kept(s)
           /\ ContainersSecretBuild(s) => <<"containers", "none">> \in Kept(s)
           /\ "serviceAccount" \in s => RemoteAccount \in Kept(s)
<1>1. Elements(Wanted(s)) = {o \in RemoteObject : remoteBuilds(s, o)}
  BY RemoteElements DEF Wanted, RemoteElementsOf
<1>2. \A r \in {"config", "tls", "keys", "containers", "remoteaccount"} : <<r, "none">> \in RemoteObject
  BY DEF RemoteObject
<1>3. \A r, t : r # "daemonset" => <<r, t>> \notin DaemonSets
  BY DaemonSetRole
<1>4. /\ remoteBuilds(s, <<"config", "none">>)
      /\ remoteBuilds(s, <<"tls", "none">>) = TLSSecretBuild(s)
      /\ remoteBuilds(s, <<"keys", "none">>) = KeysSecretBuild(s)
      /\ remoteBuilds(s, <<"containers", "none">>) = ContainersSecretBuild(s)
      /\ remoteBuilds(s, <<"remoteaccount", "none">>) = ("serviceAccount" \in s)
  BY DEF remoteBuilds, Builds
<1>5. QED
  BY Zenon, <1>1, <1>2, <1>3, <1>4 DEF Kept, RemoteAccount

(* A pod is built only with a key to give it.                               *)
LEMMA AgentPods ==
    ASSUME kind = "agent", NEW s, NEW o \in Elements(Wanted(s)),
           o[1] \in {"daemonset", "sensor", "remote"}
    PROVE  hasKey(s) /\ (o[1] = "daemonset" \/ (o[1] = "sensor" /\ o[2] \in Backends(s)))
<1> DEFINE R == {"headless", "config", "containers", "tls", "service", "pdb", "sensorrbac",
                 "sensoraccount", "sensorconfig", "keys", "namespaces"}
           A == {"serviceaccount", "clusterrole", "clusterrolebinding"}
<1>1. o \in AgentBuilders(s) /\ Builds(s, o)
  BY AgentElements DEF Wanted
<1>2. "daemonset" \notin R \cup A /\ "sensor" \notin R \cup A /\ "remote" \notin R \cup A
  OBVIOUS
<1>3. AgentBuilders(s) = {"daemonset"} \X Zones(s) \cup {"sensor"} \X Backends(s)
                         \cup A \X {ServiceAccountName(s)} \cup R \X {"none"}
  BY DEF AgentBuilders
<1>4. o[1] = "daemonset" \/ (o[1] = "sensor" /\ o[2] \in Backends(s))
  <2> HIDE DEF R, A
  <2>1. CASE o \in {"daemonset"} \X Zones(s)
    BY <2>1, PairParts
  <2>2. CASE o \in {"sensor"} \X Backends(s)
    BY <2>2
  <2>3. CASE o \in A \X {ServiceAccountName(s)} \cup R \X {"none"}
    BY <1>2, <2>3
  <2>4. QED
    BY <1>1, <1>3, <2>1, <2>2, <2>3
<1>5. hasKey(s)
  BY <1>1, <1>4 DEF Builds, DaemonSetBuild, SensorBuild
<1>6. QED
  BY <1>4, <1>5

LEMMA RemotePods ==
    ASSUME kind = "remote", NEW s, NEW o \in Elements(Wanted(s)),
           o[1] \in {"daemonset", "sensor", "remote"}
    PROVE  hasKey(s) /\ o[1] = "remote"
<1>1. o \in RemoteObject /\ remoteBuilds(s, o)
  BY RemoteElements DEF Wanted, RemoteElementsOf
<1>2. o[1] = "remote"
  BY <1>1, PairParts DEF RemoteObject
<1>3. QED
  BY <1>1, <1>2 DEF remoteBuilds

(* The entries the three kinds of pods mount as files.                      *)
AgentItems(s) == When("keysSecret" \in s, {<< <<"key", "none">>, <<"INSTANA_AGENT_KEY", "none">> >>})

SensorItems(s, b) ==
    {<< <<IF "keysSecret" \in s THEN "key" ELSE "INSTANA_AGENT_KEY", b>>, <<"INSTANA_AGENT_KEY", b>> >>}
    \cup When("proxyHost" \in s,
           {<< <<IF "keysSecret" \in s THEN "httpsProxy" ELSE "HTTPS_PROXY", "none">>,
               <<"HTTPS_PROXY", "none">> >>})

RemoteMounted(s) ==
    ({"downloadKey", "mirror"} \cap s)
    \cup When("proxyHost" \in s, {"proxyUser", "proxyPassword"} \cap s)

RemoteItems(s) ==
    {<< <<"key", "none">>, <<"INSTANA_AGENT_KEY", "none">> >>}
    \cup {<< <<c, "none">>, <<File[c], "none">> >> : c \in RemoteMounted(s)}
    \cup When("proxyHost" \in s, {<< <<"httpsProxy", "none">>, <<"HTTPS_PROXY", "none">> >>})

SecretsOf(s, items) == When("mounts" \in s, Volume("instana-secrets", "secrets", keysObject(s), items))

LEMMA SecretsVolumes ==
    ASSUME NEW s
    PROVE  /\ secretsVolume(s) = SecretsOf(s, AgentItems(s))
           /\ \A b : k8sensorSecretsVolume(s, b) = SecretsOf(s, SensorItems(s, b))
           /\ remoteSecretsVolume(s) = SecretsOf(s, RemoteItems(s))
BY DEF secretsVolume, k8sensorSecretsVolume, remoteSecretsVolume, SecretsOf, AgentItems, SensorItems,
       RemoteItems, RemoteMounted

(* The volumes of the three kinds of pods.                                  *)
LEMMA VolumeFields ==
    ASSUME NEW n, NEW d, NEW o, NEW i
    PROVE  /\ \A v \in Volume(n, d, o, i) : v.name = n /\ v.dir = d /\ v.object = o /\ v.items = i
           /\ \E v \in Volume(n, d, o, i) : TRUE
BY DEF Volume

LEMMA SecretsFields ==
    ASSUME NEW s, NEW items
    PROVE  /\ \A v \in SecretsOf(s, items) :
                 "mounts" \in s /\ v.dir = "secrets" /\ v.object = keysObject(s) /\ v.items = items
           /\ "mounts" \in s => \E v \in SecretsOf(s, items) : TRUE
BY VolumeFields DEF SecretsOf, When

LEMMA DaemonSetVolumes ==
    ASSUME NEW s, NEW v \in getDaemonSetVolumes(s)
    PROVE  \/ /\ v.object \in {<<"config", "none">>, <<"namespaces", "none">>}
              /\ v.items = {} /\ v.dir # "secrets"
           \/ /\ TLSIsEnabled(s) /\ v.items = {} /\ v.dir # "secrets"
              /\ v.object = IF "tlsSecret" \in s THEN <<"userTls", "none">> ELSE <<"tls", "none">>
           \/ v \in SecretsOf(s, AgentItems(s))
<1>1. CASE v \in configVolume \cup namespacesDetailsVolume
  BY <1>1, VolumeFields DEF configVolume, namespacesDetailsVolume
<1>2. CASE v \in tlsVolume(s)
  BY <1>2, VolumeFields DEF tlsVolume, When
<1>3. QED
  BY <1>1, <1>2, SecretsVolumes DEF getDaemonSetVolumes

LEMMA SensorVolumes ==
    ASSUME NEW s, NEW b, NEW v \in getSensorVolumes(s, b)
    PROVE  \/ /\ v.object \in {<<"config", "none">>, <<"userRestCA", "none">>, <<"userEtcdCA", "none">>,
                               <<"copiedCA", "none">>, <<"copiedCert", "none">>,
                               <<"discoveredCA", "none">>}
              /\ v.items = {} /\ v.dir # "secrets"
           \/ v \in SecretsOf(s, SensorItems(s, b))
<1>1. CASE v \in configVolume \cup controlPlaneCAVolume(s)
  BY <1>1, VolumeFields DEF configVolume, controlPlaneCAVolume, restMountPath, When
<1>2. CASE v \in When(copiedEtcd(s) \/ "etcdCA" \in s, etcdCAVolume(s))
  BY <1>2, VolumeFields DEF etcdCAVolume, etcdMountPath, TokenDirectory, When
<1>3. CASE v \in When(copiedEtcd(s), etcdClientCertVolume(s))
  BY <1>3, VolumeFields DEF etcdClientCertVolume, When
<1>4. CASE v \in When(discoveredEtcd(s), Volume("etcd-ca", "etcd", <<"discoveredCA", "none">>, {}))
  BY <1>4, VolumeFields DEF When
<1>5. QED
  BY <1>1, <1>2, <1>3, <1>4, SecretsVolumes DEF getSensorVolumes

LEMMA RemoteVolumes ==
    ASSUME NEW s, NEW o, o[1] = "remote", NEW v \in remoteVolumes(s, o)
    PROVE  \/ v.object = <<"config", "none">> /\ v.items = {} /\ v.dir # "secrets"
           \/ /\ TLSIsEnabled(s) /\ v.items = {} /\ v.dir # "secrets"
              /\ v.object = IF "tlsSecret" \in s THEN <<"userTls", "none">> ELSE <<"tls", "none">>
           \/ v \in SecretsOf(s, RemoteItems(s))
<1>1. CASE v \in configVolume
  BY <1>1, VolumeFields DEF configVolume
<1>2. CASE v \in tlsVolume(s)
  BY <1>2, VolumeFields DEF tlsVolume, When
<1>3. QED
  BY <1>1, <1>2, SecretsVolumes DEF remoteVolumes, When
-----------------------------------------------------------------------------
(* The Secret of the operator holds what the pods read from it: the key of  *)
(* every backend, and with useSecretMounts the files.                       *)
LEMMA KeysData ==
    ASSUME NEW s, hasKey(s), "keysSecret" \notin s
    PROVE  /\ "none" \in Backends(s)
           /\ \A b \in Backends(s) : <<"key", b>> \in keysData(s)
           /\ "mounts" \in s => /\ \A b \in Backends(s) : <<"INSTANA_AGENT_KEY", b>> \in keysData(s)
                                /\ \A c \in Credential \cap s : <<File[c], "none">> \in keysData(s)
                                /\ "proxyHost" \in s => <<"HTTPS_PROXY", "none">> \in keysData(s)
<1>1. "none" \in Backends(s)
  BY BackendsValue
<1>2. \A b \in Backends(s) : b # "none" \/ "key" \in s
  BY DEF hasKey
<1>3. \A b \in Backends(s) : <<"key", b>> \in keysData(s)
  BY <1>2 DEF keysData
<1>4. ASSUME "mounts" \in s
      PROVE  /\ \A b \in Backends(s) : <<"INSTANA_AGENT_KEY", b>> \in keysData(s)
             /\ \A c \in Credential \cap s : <<File[c], "none">> \in keysData(s)
             /\ "proxyHost" \in s => <<"HTTPS_PROXY", "none">> \in keysData(s)
  BY <1>2, <1>4 DEF keysData, When
<1>5. QED
  BY <1>1, <1>3, <1>4

LEMMA RemoteKeysData ==
    ASSUME NEW s, hasKey(s), "keysSecret" \notin s
    PROVE  /\ <<"key", "none">> \in remoteKeysData(s)
           /\ "mounts" \in s => /\ \A c \in Credential \cap s : <<c, "none">> \in remoteKeysData(s)
                                /\ "proxyHost" \in s => <<"httpsProxy", "none">> \in remoteKeysData(s)
<1>1. "none" \in Backends(s) /\ "key" \in s
  BY BackendsValue DEF hasKey
<1>2. <<"key", "none">> \in remoteKeysData(s)
  BY <1>1 DEF remoteKeysData
<1>3. ASSUME "mounts" \in s
      PROVE  /\ \A c \in Credential \cap s : <<c, "none">> \in remoteKeysData(s)
             /\ "proxyHost" \in s => <<"httpsProxy", "none">> \in remoteKeysData(s)
  BY <1>3 DEF remoteKeysData, When
<1>4. QED
  BY <1>2, <1>3

(* What the containers secret is needed for is there: a pod has a key.      *)
LEMMA PullSecretBuilt ==
    ASSUME NEW s, hasKey(s), NEW r \in ImagePullSecrets(s)
    PROVE  r = <<"containers", "none">> /\ ContainersSecretBuild(s)
BY DEF ImagePullSecrets, When, ContainersSecretBuild

LEMMA KeysObjectKept ==
    ASSUME NEW s, keysObject(s) \in AnyObject
    PROVE  "keysSecret" \notin s /\ keysObject(s) = <<"keys", "none">> /\ KeysSecretBuild(s)
BY NotObjects DEF keysObject, KeysSecretBuild

LEMMA TlsObjectKept ==
    ASSUME NEW s, TLSIsEnabled(s), NEW r \in AnyObject,
           r = IF "tlsSecret" \in s THEN <<"userTls", "none">> ELSE <<"tls", "none">>
    PROVE  r = <<"tls", "none">> /\ TLSSecretBuild(s)
BY NotObjects DEF TLSIsEnabled, TLSSecretBuild

(* A DaemonSet refers to objects of its own CR, to entries they have, or to *)
(* what the user provides.                                                  *)
LEMMA DaemonSetClosed ==
    ASSUME kind = "agent", NEW s, hasKey(s)
    PROVE  /\ DaemonSetReferences(s).objects \cap AnyObject \subseteq Kept(s)
           /\ \A e \in DaemonSetReferences(s).entries :
                 e[1] \in AnyObject => e[1] \in Kept(s) /\ e[2] \in DataOf(s, e[1])
<1> DEFINE vs == getDaemonSetVolumes(s)
<1>1. ASSUME NEW r \in DaemonSetReferences(s).objects, r \in AnyObject
      PROVE  r \in Kept(s)
  <2>1. \/ r \in {v.object : v \in vs}
        \/ r \in ImagePullSecrets(s)
        \/ r \in When("serviceAccount" \in s, {<<"serviceaccount", ServiceAccountName(s)>>})
    BY <1>1 DEF DaemonSetReferences
  <2>2. CASE r \in {v.object : v \in vs}
    <3>1. PICK v \in vs : r = v.object
      BY <2>2
    <3>2. \/ v.object \in {<<"config", "none">>, <<"namespaces", "none">>}
          \/ /\ TLSIsEnabled(s)
             /\ v.object = IF "tlsSecret" \in s THEN <<"userTls", "none">> ELSE <<"tls", "none">>
          \/ v.object = keysObject(s)
      BY DaemonSetVolumes, SecretsFields
    <3>3. CASE v.object \in {<<"config", "none">>, <<"namespaces", "none">>}
      BY Zenon, <3>1, <3>3, AgentKeeps
    <3>4. CASE /\ TLSIsEnabled(s)
               /\ v.object = IF "tlsSecret" \in s THEN <<"userTls", "none">> ELSE <<"tls", "none">>
      BY Zenon, <1>1, <3>1, <3>4, AgentKeeps, TlsObjectKept
    <3>5. CASE v.object = keysObject(s)
      BY Zenon, <1>1, <3>1, <3>5, AgentKeeps, KeysObjectKept
    <3>6. QED
      BY <3>2, <3>3, <3>4, <3>5
  <2>3. CASE r \in ImagePullSecrets(s)
    <3>1. r = <<"containers", "none">> /\ ContainersSecretBuild(s)
      BY <2>3, PullSecretBuilt
    <3>2. QED
      BY Zenon, <3>1, AgentKeeps
  <2>4. CASE r \in When("serviceAccount" \in s, {<<"serviceaccount", ServiceAccountName(s)>>})
    BY <2>4, AgentKeeps DEF When, ServiceAccountBuild
  <2>5. QED
    BY <2>1, <2>2, <2>3, <2>4
<1>2. ASSUME NEW e \in DaemonSetReferences(s).entries, e[1] \in AnyObject
      PROVE  e[1] \in Kept(s) /\ e[2] \in DataOf(s, e[1])
  <2>1. e \in Mounted(vs) \/ e = <<keysObject(s), <<"key", "none">> >>
    BY <1>2 DEF DaemonSetReferences, When
  <2>2. e \notin Mounted(vs)
    <3>1. SUFFICES ASSUME NEW v \in vs, NEW i \in v.items, e = <<v.object, i[1]>> PROVE FALSE
      BY DEF Mounted
    <3>2. v.object = keysObject(s) /\ "keysSecret" \in s
      BY <3>1, DaemonSetVolumes, SecretsFields DEF AgentItems, When
    <3>3. QED
      BY <1>2, <3>1, <3>2, KeysObjectKept
  <2>3. e = <<keysObject(s), <<"key", "none">> >> /\ e[1] = keysObject(s) /\ e[2] = <<"key", "none">>
    BY <2>1, <2>2
  <2>4. e[1] = <<"keys", "none">> /\ "keysSecret" \notin s /\ KeysSecretBuild(s)
    BY <1>2, <2>3, KeysObjectKept
  <2>5. <<"key", "none">> \in keysData(s)
    BY <2>4, KeysData
  <2>6. DataOf(s, <<"keys", "none">>) = keysData(s)
    BY DEF DataOf, data
  <2>7. QED
    BY Zenon, <2>3, <2>4, <2>5, <2>6, AgentKeeps
<1>3. QED
  BY <1>1, <1>2

LEMMA SensorClosed ==
    ASSUME kind = "agent", NEW s, hasKey(s), NEW b \in Backends(s)
    PROVE  /\ SensorReferences(s, b).objects \cap AnyObject \subseteq Kept(s)
           /\ \A e \in SensorReferences(s, b).entries :
                 e[1] \in AnyObject => e[1] \in Kept(s) /\ e[2] \in DataOf(s, e[1])
<1> DEFINE vs == getSensorVolumes(s, b)
<1>1. ASSUME NEW r \in SensorReferences(s, b).objects, r \in AnyObject
      PROVE  r \in Kept(s)
  <2>1. \/ r \in {v.object : v \in vs}
        \/ r \in ImagePullSecrets(s)
        \/ r \in {<<"sensoraccount", "none">>, <<"sensorconfig", "none">>}
    BY <1>1 DEF SensorReferences
  <2>2. CASE r \in {v.object : v \in vs}
    <3>1. PICK v \in vs : r = v.object
      BY <2>2
    <3>2. v.object = <<"config", "none">> \/ v.object = keysObject(s)
      BY <1>1, <3>1, SensorVolumes, SecretsFields, NotObjects
    <3>3. QED
      BY Zenon, <1>1, <3>1, <3>2, AgentKeeps, KeysObjectKept
  <2>3. CASE r \in ImagePullSecrets(s)
    <3>1. r = <<"containers", "none">> /\ ContainersSecretBuild(s)
      BY <2>3, PullSecretBuilt
    <3>2. QED
      BY Zenon, <3>1, AgentKeeps
  <2>4. CASE r \in {<<"sensoraccount", "none">>, <<"sensorconfig", "none">>}
    BY Zenon, <2>4, AgentKeeps
  <2>5. QED
    BY <2>1, <2>2, <2>3, <2>4
<1>2. ASSUME NEW e \in SensorReferences(s, b).entries, e[1] \in AnyObject
      PROVE  e[1] \in Kept(s) /\ e[2] \in DataOf(s, e[1])
  <2>1. \/ e \in Mounted(vs)
        \/ e = << <<"sensorconfig", "none">>, <<"backend", b>> >>
        \/ e = <<keysObject(s), <<"key", b>> >>
    BY <1>2 DEF SensorReferences, When
  <2>2. DataOf(s, <<"keys", "none">>) = keysData(s)
    BY DEF DataOf, data
  <2>3. DataOf(s, <<"sensorconfig", "none">>) = {<<"backend", c>> : c \in Backends(s)}
    BY DEF DataOf, data
  <2>4. CASE e \in Mounted(vs)
    <3>a. PICK v \in vs : e \in {<<v.object, i[1]>> : i \in v.items}
      BY <2>4 DEF Mounted
    <3>1. PICK i \in v.items : e = <<v.object, i[1]>>
      BY <3>a
    <3>2. v \in SecretsOf(s, SensorItems(s, b))
      BY <3>1, SensorVolumes
    <3>3. "mounts" \in s /\ v.object = keysObject(s) /\ v.items = SensorItems(s, b)
      BY <3>2, SecretsFields
    <3>4. e[1] = <<"keys", "none">> /\ "keysSecret" \notin s /\ KeysSecretBuild(s)
      BY <1>2, <3>1, <3>3, KeysObjectKept
    <3>5. \/ e[2] = <<"INSTANA_AGENT_KEY", b>>
          \/ "proxyHost" \in s /\ e[2] = <<"HTTPS_PROXY", "none">>
      <4>1. \/ i = << <<"INSTANA_AGENT_KEY", b>>, <<"INSTANA_AGENT_KEY", b>> >>
            \/ /\ "proxyHost" \in s
               /\ i = << <<"HTTPS_PROXY", "none">>, <<"HTTPS_PROXY", "none">> >>
        BY <3>1, <3>3, <3>4 DEF SensorItems, When
      <4>2. e[2] = i[1]
        BY <3>1
      <4>3. QED
        BY <4>1, <4>2
    <3>6. e[2] \in keysData(s)
      BY <3>3, <3>4, <3>5, KeysData
    <3>7. QED
      BY Zenon, <2>2, <3>4, <3>6, AgentKeeps
  <2>5. CASE e = << <<"sensorconfig", "none">>, <<"backend", b>> >>
    BY Zenon, <2>3, <2>5, AgentKeeps
  <2>6. CASE e = <<keysObject(s), <<"key", b>> >>
    <3>1. e[1] = keysObject(s) /\ e[2] = <<"key", b>>
      BY <2>6
    <3>2. e[1] = <<"keys", "none">> /\ "keysSecret" \notin s /\ KeysSecretBuild(s)
      BY <1>2, <3>1, KeysObjectKept
    <3>3. e[2] \in keysData(s)
      BY <3>1, <3>2, KeysData
    <3>4. QED
      BY Zenon, <2>2, <3>2, <3>3, AgentKeeps
  <2>7. QED
    BY <2>1, <2>4, <2>5, <2>6
<1>3. QED
  BY <1>1, <1>2

LEMMA RemoteClosed ==
    ASSUME kind = "remote", NEW s, hasKey(s), NEW o, o[1] = "remote"
    PROVE  /\ \A r \in remoteReferences(s, o).objects \cap AnyObject :
                 r \in Kept(s) \/ (r = RemoteAccount /\ "serviceAccount" \notin s)
           /\ \A e \in remoteReferences(s, o).entries :
                 e[1] \in AnyObject => e[1] \in Kept(s) /\ e[2] \in DataOf(s, e[1])
<1> DEFINE vs == remoteVolumes(s, o)
<1>1. ASSUME NEW r \in remoteReferences(s, o).objects, r \in AnyObject
      PROVE  r \in Kept(s) \/ (r = RemoteAccount /\ "serviceAccount" \notin s)
  <2>1. r \in {v.object : v \in vs} \/ r \in ImagePullSecrets(s) \/ r = RemoteAccount
    BY <1>1 DEF remoteReferences
  <2>2. CASE r \in {v.object : v \in vs}
    <3>1. PICK v \in vs : r = v.object
      BY <2>2
    <3>2. \/ v.object = <<"config", "none">>
          \/ /\ TLSIsEnabled(s)
             /\ v.object = IF "tlsSecret" \in s THEN <<"userTls", "none">> ELSE <<"tls", "none">>
          \/ v.object = keysObject(s)
      BY RemoteVolumes, SecretsFields
    <3>3. CASE v.object = <<"config", "none">>
      BY <3>1, <3>3, RemoteKeeps
    <3>4. CASE /\ TLSIsEnabled(s)
               /\ v.object = IF "tlsSecret" \in s THEN <<"userTls", "none">> ELSE <<"tls", "none">>
      BY <1>1, <3>1, <3>4, RemoteKeeps, TlsObjectKept
    <3>5. CASE v.object = keysObject(s)
      BY <1>1, <3>1, <3>5, RemoteKeeps, KeysObjectKept
    <3>6. QED
      BY <3>2, <3>3, <3>4, <3>5
  <2>3. CASE r \in ImagePullSecrets(s)
    <3>1. r = <<"containers", "none">> /\ ContainersSecretBuild(s)
      BY <2>3, PullSecretBuilt
    <3>2. QED
      BY <3>1, RemoteKeeps
  <2>4. CASE r = RemoteAccount
    BY <2>4, RemoteKeeps
  <2>5. QED
    BY SMTT(30), <2>1, <2>2, <2>3, <2>4
<1>2. ASSUME NEW e \in remoteReferences(s, o).entries, e[1] \in AnyObject
      PROVE  e[1] \in Kept(s) /\ e[2] \in DataOf(s, e[1])
  <2>1. e \in Mounted(vs) \/ e = <<keysObject(s), <<"key", "none">> >>
    BY <1>2 DEF remoteReferences, When
  <2>2. DataOf(s, <<"keys", "none">>) = remoteKeysData(s)
    BY DEF DataOf, remoteData
  <2>3. CASE e \in Mounted(vs)
    <3>1. PICK v \in vs : e \in {<<v.object, i[1]>> : i \in v.items}
      BY <2>3 DEF Mounted
    <3>2. PICK i \in v.items : e = <<v.object, i[1]>>
      BY <3>1
    <3>3. "mounts" \in s /\ v.object = keysObject(s) /\ v.items = RemoteItems(s)
      BY <3>2, RemoteVolumes, SecretsFields
    <3>4. e[1] = <<"keys", "none">> /\ "keysSecret" \notin s /\ KeysSecretBuild(s)
      BY <1>2, <3>2, <3>3, KeysObjectKept
    <3>5. \/ i[1] = <<"key", "none">>
          \/ \E c \in RemoteMounted(s) : i[1] = <<c, "none">>
          \/ "proxyHost" \in s /\ i[1] = <<"httpsProxy", "none">>
      BY <3>2, <3>3 DEF RemoteItems, When
    <3>6. RemoteMounted(s) \subseteq Credential \cap s
      BY DEF RemoteMounted, Credential, When
    <3>7. i[1] \in remoteKeysData(s)
      BY <3>3, <3>4, <3>5, <3>6, RemoteKeysData
    <3>8. QED
      BY <2>2, <3>2, <3>4, <3>7, RemoteKeeps
  <2>4. CASE e = <<keysObject(s), <<"key", "none">> >>
    <3>1. e[1] = keysObject(s) /\ e[2] = <<"key", "none">>
      BY <2>4
    <3>2. e[1] = <<"keys", "none">> /\ "keysSecret" \notin s /\ KeysSecretBuild(s)
      BY <1>2, <3>1, KeysObjectKept
    <3>3. e[2] \in remoteKeysData(s)
      BY <3>1, <3>2, RemoteKeysData
    <3>4. QED
      BY <2>2, <3>2, <3>3, RemoteKeeps
  <2>5. QED
    BY <2>1, <2>3, <2>4
<1>3. QED
  BY <1>1, <1>2
-----------------------------------------------------------------------------
(* The names of the variables of the pods.                                  *)
LEMMA NamesUnit == ASSUME NEW A PROVE Names(<<A>>) = A
BY DEF Names

SensorVariables(s) ==
    {"BACKEND", "ETCD_CA_FILE"} \cup When("mounts" \notin s, {"AGENT_KEY"})
    \cup When(copiedEtcd(s), {"ETCD_CERT_FILE"})
    \cup EnvBuild(s, {"NO_PROXY", "CONFIG_PATH", "CONTROL_PLANE_CA_FILE"})
    \cup When("mounts" \notin s, EnvBuild(s, {"HTTPS_PROXY"}))

LEMMA SensorNames == ASSUME NEW s PROVE Names(getSensorEnv(s)) = SensorVariables(s)
<1>1. \A A, B, C, D, E : Names(<<A, B, C, D, E>>) = A \cup B \cup C \cup D \cup E
  <2> TAKE A, B, C, D, E
  <2> DEFINE e == <<A, B, C, D, E>>
  <2>1. /\ DOMAIN e = 1..5
        /\ e[1] = A /\ e[2] = B /\ e[3] = C /\ e[4] = D /\ e[5] = E
    OBVIOUS
  <2>2. \A i \in 1..5 : i = 1 \/ i = 2 \/ i = 3 \/ i = 4 \/ i = 5
    OBVIOUS
  <2> HIDE DEF e
  <2>3. QED
    BY <2>1, <2>2 DEF Names
<1>2. QED
  BY <1>1 DEF getSensorEnv, SensorVariables, When

(* A volume is mounted behind every path a variable of an agent holds, and  *)
(* behind every one of a k8sensor that is not left unmounted.               *)
LEMMA DaemonSetPaths ==
    ASSUME NEW s, NEW v \in Names(getDaemonSetEnv(s))
    PROVE  Paths(s, v) \subseteq {w.dir : w \in getDaemonSetVolumes(s)}
<1>1. v \in {"USER", "MIRROR_CREDENTIALS", "INSTANA_AGENT_PROXY_USER", "INSTANA_AGENT_PROXY_PASSWORD",
             "CONFIG_PATH", "INSTANA_AGENT_KEY", "INSTANA_DOWNLOAD_KEY", "NAMESPACES_DETAILS_PATH"}
  BY NamesUnit DEF getDaemonSetEnv, EnvBuild, When
<1>2. Paths(s, v) \subseteq {"config", "namespaces"}
  BY <1>1 DEF Paths
<1>3. PICK x \in configVolume : x.dir = "config"
  BY VolumeFields DEF configVolume
<1>4. PICK y \in namespacesDetailsVolume : y.dir = "namespaces"
  BY VolumeFields DEF namespacesDetailsVolume
<1>5. QED
  BY <1>2, <1>3, <1>4 DEF getDaemonSetVolumes

LEMMA RemotePaths ==
    ASSUME NEW s, NEW o, o[1] = "remote", NEW v \in Names(remoteEnv(s, o))
    PROVE  Paths(s, v) \subseteq {w.dir : w \in remoteVolumes(s, o)}
<1>1. v \in {"USER", "MIRROR_CREDENTIALS", "INSTANA_AGENT_PROXY_USER", "INSTANA_AGENT_PROXY_PASSWORD",
             "CONFIG_PATH", "INSTANA_AGENT_KEY", "INSTANA_DOWNLOAD_KEY"}
  BY NamesUnit DEF remoteEnv, remoteEnvBuild, EnvBuild, When
<1>2. Paths(s, v) \subseteq {"config"}
  BY <1>1 DEF Paths
<1>3. PICK x \in configVolume : x.dir = "config"
  BY VolumeFields DEF configVolume
<1>4. QED
  BY <1>2, <1>3 DEF remoteVolumes, When

LEMMA SensorPaths ==
    ASSUME NEW s, NEW b, NEW v \in Names(getSensorEnv(s))
    PROVE  Paths(s, v) \subseteq {TokenDirectory} \cup {w.dir : w \in getSensorVolumes(s, b)}
                                \cup LeftUnmounted(s)
<1> DEFINE dirs == {w.dir : w \in getSensorVolumes(s, b)}
<1>1. v \in SensorVariables(s)
  BY SensorNames
<1>2. CASE v = "CONFIG_PATH"
  <2>1. PICK x \in configVolume : x.dir = "config"
    BY VolumeFields DEF configVolume
  <2>2. "config" \in dirs
    BY <2>1 DEF getSensorVolumes
  <2>3. QED
    BY <1>2, <2>2 DEF Paths
<1>3. CASE v = "CONTROL_PLANE_CA_FILE"
  <2>1. isSet(s, "CONTROL_PLANE_CA_FILE")
    BY <1>1, <1>3 DEF SensorVariables, EnvBuild, When
  <2>2. restMountPath(s) = "restMountPath"
    <3>1. "CONTROL_PLANE_CA_FILE" \notin {File[c] : c \in Credential \ {"downloadKey"}}
      BY DEF File, Credential
    <3>2. QED
      BY <2>1, <3>1 DEF isSet, restMountPath
  <2>3. CASE "restCA" \in s
    <3>1. PICK x \in controlPlaneCAVolume(s) : x.dir = "restMountPath"
      BY <2>2, <2>3, VolumeFields DEF controlPlaneCAVolume, When
    <3>2. "restMountPath" \in dirs
      BY <3>1 DEF getSensorVolumes
    <3>3. QED
      BY <1>3, <2>2, <3>2 DEF Paths
  <2>4. CASE "restCA" \notin s
    BY <1>3, <2>2, <2>4 DEF Paths, LeftUnmounted, When
  <2>5. QED
    BY <2>3, <2>4
<1>4. CASE v = "ETCD_CERT_FILE"
  <2>1. copiedEtcd(s)
    BY <1>1, <1>4 DEF SensorVariables, EnvBuild, When
  <2>2. PICK x \in When(copiedEtcd(s), etcdClientCertVolume(s)) : x.dir = "etcd-client"
    BY <2>1, VolumeFields DEF etcdClientCertVolume, When, copiedEtcd
  <2>3. "etcd-client" \in dirs
    BY <2>2 DEF getSensorVolumes
  <2>4. QED
    BY <1>4, <2>3 DEF Paths
<1>5. CASE v = "ETCD_CA_FILE"
  <2>1. CASE copiedEtcd(s) /\ "etcdCA" \in s
    BY <1>5, <2>1 DEF Paths, LeftUnmounted, When
  <2>2. CASE copiedEtcd(s) /\ "etcdCA" \notin s
    <3>1. PICK x \in When(copiedEtcd(s) \/ "etcdCA" \in s, etcdCAVolume(s)) : x.dir = "etcd-metrics-ca"
      BY <2>2, VolumeFields DEF etcdCAVolume, When, copiedEtcd
    <3>2. "etcd-metrics-ca" \in dirs
      BY <3>1 DEF getSensorVolumes
    <3>3. QED
      BY <1>5, <2>2, <3>2 DEF Paths
  <2>3. ASSUME ~copiedEtcd(s) PROVE etcdMountPath(s) \in {TokenDirectory} \cup dirs \cup LeftUnmounted(s)
    <3>1. CASE "etcdPath" \notin s
      BY <3>1 DEF etcdMountPath
    <3>2. CASE "etcdCA" \notin s
      BY <3>2 DEF etcdMountPath, LeftUnmounted, When
    <3>3. CASE "etcdCA" \in s
      <4>1. PICK x \in When(copiedEtcd(s) \/ "etcdCA" \in s, etcdCAVolume(s)) : x.dir = etcdMountPath(s)
        BY <3>3, VolumeFields DEF etcdCAVolume, When
      <4>2. QED
        BY <4>1 DEF getSensorVolumes
    <3>4. QED
      BY <3>1, <3>2, <3>3
  <2>4. ASSUME discoveredEtcd(s) PROVE "etcd" \in dirs
    <3>1. PICK x \in When(discoveredEtcd(s), Volume("etcd-ca", "etcd", <<"discoveredCA", "none">>, {})) :
                 x.dir = "etcd"
      BY <2>4, VolumeFields DEF When
    <3>2. QED
      BY <3>1 DEF getSensorVolumes
  <2>5. CASE ~copiedEtcd(s)
    BY <1>5, <2>3, <2>4, <2>5 DEF Paths, When
  <2>6. QED
    BY <2>1, <2>2, <2>5
<1>6. CASE v \notin {"CONFIG_PATH", "CONTROL_PLANE_CA_FILE", "ETCD_CERT_FILE", "ETCD_CA_FILE"}
  <2>1. v # "NAMESPACES_DETAILS_PATH"
    BY <1>1 DEF SensorVariables, EnvBuild, When
  <2>2. QED
    BY <1>6, <2>1 DEF Paths
<1>7. QED
  BY <1>2, <1>3, <1>4, <1>5, <1>6
-----------------------------------------------------------------------------
(* The inductive invariant behind the references: an object of the CR that  *)
(* is worked on is still to be applied, or has been, as long as no apply    *)
(* has failed, and all have been when the cleanup starts.  DaemonSets may   *)
(* be deleted by hand meanwhile; no pod refers to one.                      *)
ApplyInv ==
    /\ todo \in Seq(AnyObject)
    /\ pc = "apply" /\ ~failed => \A o \in Kept(cur) : o \in Elements(todo) \/ live[o] = cur
    /\ pc = "cleanup" => \A o \in Kept(cur) : live[o] = cur

WorkInv == TypeOK /\ ApplyInv

LEMMA WantedObjects ==
    ASSUME NEW s PROVE Wanted(s) \in Seq(AnyObject) /\ Elements(Wanted(s)) \subseteq AnyObject
<1>1. Wanted(s) \in Seq(AnyObject)
  BY AgentElements, RemoteElements DEF Wanted
<1>2. \A q \in Seq(AnyObject) : Elements(q) \subseteq AnyObject
  BY DEF Elements
<1>3. QED
  BY <1>1, <1>2

(* A CR is a set of features, so none is taken for the absence of one.      *)
LEMMA CRsAreNotAbsent == \A s \in SUBSET Feature : s # Absent
<1>1. "absent" \notin Feature
  BY DEF Feature
<1>2. QED
  BY <1>1 DEF Absent

LEMMA TypeInit == Init => TypeOK
<1> SUFFICES ASSUME Init PROVE TypeOK
  OBVIOUS
<1>1. Elements(Wanted(spec)) \subseteq AnyObject
  BY WantedObjects
<1>2. spec \in SUBSET Feature
  BY WorkloadsAssumption DEF Init
<1>3. live \in [AnyObject -> (SUBSET Feature) \cup {Absent}] /\ recorded \subseteq AnyObject
  BY <1>1, <1>2 DEF Init
<1>4. seen \in [DaemonSets -> {"absent", "with", "without"}]
  BY DEF Init, Observed
<1>5. /\ kind \in {"agent", "remote"} /\ pc \in {"idle", "apply", "cleanup"} /\ failed \in BOOLEAN
      /\ cur \in SUBSET Feature /\ hostId \subseteq DaemonSets /\ unseen \subseteq DaemonSets
      /\ read \subseteq DaemonSets
  BY Zenon DEF Init
<1>6. edits \in 0..MaxEdits /\ events \in 0..MaxEvents
  BY WorkloadsAssumption DEF Init
<1>7. QED
  BY <1>2, <1>3, <1>4, <1>5, <1>6 DEF TypeOK

LEMMA TypeNext == TypeOK /\ [Next]_vars => TypeOK'
<1> SUFFICES ASSUME TypeOK, [Next]_vars PROVE TypeOK'
  OBVIOUS
<1>a. Elements(Wanted(spec)) \subseteq AnyObject /\ Elements(Wanted(cur)) \subseteq AnyObject
  BY WantedObjects
<1>b. Event => events' \in 0..MaxEvents
  BY WorkloadsAssumption DEF Event, TypeOK
<1>c. \A o : Observed(o) \in {"absent", "with", "without"}
  BY DEF Observed
<1>d. Return => /\ pc' \in {"idle", "apply", "cleanup"} /\ failed' \in BOOLEAN
                /\ cur' \in SUBSET Feature /\ read' \subseteq DaemonSets
  BY Zenon DEF Return
<1> USE DEF TypeOK
<1>1. CASE StartReconcile
  BY <1>1, <1>a DEF StartReconcile, clusterVars
<1>2. CASE FailDryRun
  BY <1>2 DEF FailDryRun, vars, clusterVars, localVars
<1>3. CASE ApplyObject
  <2>1. live' \in [AnyObject -> (SUBSET Feature) \cup {Absent}]
    BY <1>3 DEF ApplyObject
  <2>2. hostId' \subseteq DaemonSets /\ unseen' \subseteq DaemonSets
    BY <1>3 DEF ApplyObject, GetsVariable
  <2>3. failed' \in BOOLEAN /\ events' \in 0..MaxEvents
    BY Zenon, <1>3, <1>b DEF ApplyObject
  <2>4. UNCHANGED <<kind, spec, seen, recorded, pc, cur, read, edits>>
    BY <1>3 DEF ApplyObject
  <2>5. QED
    BY <2>1, <2>2, <2>3, <2>4
<1>4. CASE ApplyDone
  <2>1. UNCHANGED <<kind, clusterVars, recorded, edits, events>>
    BY <1>4 DEF ApplyDone
  <2>2. CASE Return
    BY <1>d, <2>1, <2>2 DEF clusterVars
  <2>3. CASE pc' = "cleanup" /\ UNCHANGED <<cur, read, todo, failed>>
    BY <2>1, <2>3 DEF clusterVars
  <2>4. QED
    BY <1>4, <2>2, <2>3 DEF ApplyDone
<1>5. CASE CleanupDependents
  <2>1. live' \in [AnyObject -> (SUBSET Feature) \cup {Absent}] /\ hostId' \subseteq DaemonSets
    BY <1>5 DEF CleanupDependents
  <2>2. recorded' \subseteq AnyObject /\ events' \in 0..MaxEvents
    BY <1>5, <1>a, <1>b DEF CleanupDependents
  <2>3. Return /\ UNCHANGED <<kind, spec, seen, unseen, edits>>
    BY <1>5 DEF CleanupDependents
  <2>4. QED
    BY <1>d, <2>1, <2>2, <2>3
<1>6. CASE Restart
  BY <1>6, <1>b, <1>c, <1>d DEF Restart
<1>7. ASSUME NEW f \in Edited, UserEdit(f) PROVE TypeOK'
  BY <1>7, WorkloadsAssumption DEF UserEdit, localVars
<1>8. ASSUME NEW d \in DaemonSets, DeleteByHand(d) PROVE TypeOK'
  BY Zenon, <1>8, <1>b DEF DeleteByHand, localVars
<1>9. ASSUME NEW d \in DaemonSets, Refresh(d) PROVE TypeOK'
  BY <1>9, <1>c DEF Refresh, localVars
<1>10. CASE UNCHANGED vars
  BY <1>10 DEF vars, clusterVars, localVars
<1>11. QED
  BY <1>1, <1>2, <1>3, <1>4, <1>5, <1>6, <1>7, <1>8, <1>9, <1>10 DEF Next

LEMMA KeptConstant == ASSUME [Next]_vars, NEW s PROVE Kept(s)' = Kept(s)
<1>1. kind' = kind
  BY DEF Next, StartReconcile, FailDryRun, ApplyObject, ApplyDone, CleanupDependents, Restart,
         UserEdit, DeleteByHand, Refresh, vars
<1>2. QED
  BY <1>1 DEF Kept, Wanted, Elements

LEMMA WorkInit == Init => WorkInv
<1> SUFFICES ASSUME Init PROVE WorkInv
  OBVIOUS
<1>1. todo \in Seq(AnyObject) /\ pc = "idle"
  BY DEF Init
<1>2. QED
  BY <1>1, TypeInit DEF WorkInv, ApplyInv

LEMMA WorkNext == WorkInv /\ [Next]_vars => WorkInv'
<1> SUFFICES ASSUME WorkInv, [Next]_vars PROVE WorkInv'
  OBVIOUS
<1>a. TypeOK'
  BY SMTT(30), TypeNext DEF WorkInv
<1> DEFINE Goal == /\ todo' \in Seq(AnyObject)
                   /\ pc' = "apply" /\ ~failed' =>
                        \A o \in Kept(cur') : o \in Elements(todo') \/ live'[o] = cur'
                   /\ pc' = "cleanup" => \A o \in Kept(cur') : live'[o] = cur'
<1>b. SUFFICES Goal
  <2>1. \A s : Kept(s)' = Kept(s)
    BY KeptConstant
  <2>2. Kept(cur)' = Kept(cur')
    BY <2>1 DEF Kept, Wanted, Elements
  <2>3. Elements(todo)' = Elements(todo')
    BY DEF Elements
  <2>4. QED
    BY <1>a, <1>b, <2>2, <2>3 DEF WorkInv, ApplyInv
<1>c. Kept(cur) \subseteq AnyObject /\ Kept(cur) \cap DaemonSets = {}
  BY WantedObjects DEF Kept
<1>d. live \in [AnyObject -> (SUBSET Feature) \cup {Absent}]
  BY DEF WorkInv, TypeOK
<1>e. Return => pc' = "idle" /\ todo' \in Seq(AnyObject)
  BY DEF Return
<1>1. CASE StartReconcile
  <2>1. pc' = "apply" /\ cur' = spec /\ todo' = Wanted(spec)
    BY <1>1 DEF StartReconcile
  <2>2. QED
    BY <2>1, WantedObjects DEF Kept
<1>2. CASE ApplyObject
  <2> DEFINE h == Head(todo)
  <2>1. pc = "apply" /\ todo # <<>> /\ todo' = Tail(todo) /\ UNCHANGED <<pc, cur>>
    BY <1>2 DEF ApplyObject
  <2>2. /\ todo' \in Seq(AnyObject) /\ h \in AnyObject
        /\ Elements(todo) \subseteq {h} \cup Elements(todo')
    BY <2>1, ElementsHead DEF WorkInv, ApplyInv
  <2>3. \/ live' = [live EXCEPT ![h] = cur] /\ UNCHANGED failed
        \/ failed' = TRUE
    BY <1>2 DEF ApplyObject
  <2>4. CASE failed' = TRUE
    BY <2>1, <2>2, <2>4
  <2>5. CASE live' = [live EXCEPT ![h] = cur] /\ UNCHANGED failed
    <3>1. ASSUME ~failed, NEW o \in Kept(cur) PROVE o \in Elements(todo') \/ live'[o] = cur
      <4>1. o \in Elements(todo) \/ live[o] = cur
        BY <2>1, <3>1 DEF WorkInv, ApplyInv
      <4>2. live'[o] = IF o = h THEN cur ELSE live[o]
        BY <1>c, <1>d, <2>5
      <4>3. QED
        BY <2>2, <4>1, <4>2
    <3>2. QED
      BY <2>1, <2>2, <2>5, <3>1
  <2>6. QED
    BY Zenon, <2>3, <2>4, <2>5
<1>3. CASE ApplyDone
  <2>1. pc = "apply" /\ todo = <<>> /\ UNCHANGED live
    BY <1>3 DEF ApplyDone, clusterVars
  <2>2. CASE failed
    BY <1>3, <1>e, <2>2 DEF ApplyDone, applyFailed
  <2>3. CASE ~failed
    <3>1. pc' = "cleanup" /\ UNCHANGED <<cur, todo>>
      BY <1>3, <2>3 DEF ApplyDone, applyFailed
    <3>2. Elements(todo) = {}
      BY <2>1 DEF Elements
    <3>3. \A o \in Kept(cur) : live[o] = cur
      BY <2>1, <2>3, <3>2 DEF WorkInv, ApplyInv
    <3>4. QED
      BY <2>1, <3>1, <3>3 DEF WorkInv, ApplyInv
  <2>4. QED
    BY <2>2, <2>3
<1>4. CASE CleanupDependents
  BY <1>4, <1>e DEF CleanupDependents
<1>5. CASE Restart
  BY <1>5, <1>e DEF Restart
<1>6. ASSUME NEW d \in DaemonSets, DeleteByHand(d) PROVE Goal
  <2>1. live' = [live EXCEPT ![d] = Absent] /\ UNCHANGED <<pc, cur, todo, failed>>
    BY <1>6 DEF DeleteByHand, localVars
  <2>2. \A o \in Kept(cur) : live'[o] = live[o]
    BY <1>c, <1>d, <2>1
  <2>3. QED
    BY <2>1, <2>2 DEF WorkInv, ApplyInv
<1>7. FailDryRun \/ UNCHANGED vars => UNCHANGED <<live, pc, cur, todo, failed>>
  BY DEF FailDryRun, vars, clusterVars, localVars
<1>8. (\E f \in Edited : UserEdit(f)) \/ (\E e \in DaemonSets : Refresh(e))
        => UNCHANGED <<live, pc, cur, todo, failed>>
  BY DEF UserEdit, Refresh, localVars
<1>9. CASE UNCHANGED <<live, pc, cur, todo, failed>>
  BY SMTT(30), <1>9 DEF WorkInv, ApplyInv
<1>10. QED
  BY <1>1, <1>2, <1>3, <1>4, <1>5, <1>6, <1>7, <1>8, <1>9 DEF Next

(* What a pod of the CR refers to is kept by it: all there is to know of    *)
(* the builders for the references to resolve.                              *)
LEMMA PodsClosed ==
    ASSUME kind \in {"agent", "remote"}, NEW s, NEW o \in Elements(Wanted(s)),
           o[1] \in {"daemonset", "sensor", "remote"}
    PROVE  /\ \A r \in ReferencesOf(s, o).objects \cap AnyObject :
                 r \in Kept(s) \/ (r = RemoteAccount /\ "serviceAccount" \notin s)
           /\ \A e \in ReferencesOf(s, o).entries :
                 e[1] \in AnyObject => e[1] \in Kept(s) /\ e[2] \in DataOf(s, e[1])
           /\ \A v \in Names(EnvOf(s, o)) : Paths(s, v) \subseteq MountedPaths(s, o) \cup LeftUnmounted(s)
<1>1. CASE kind = "remote"
  <2>1. hasKey(s) /\ o[1] = "remote"
    BY <1>1, RemotePods
  <2>2. /\ ReferencesOf(s, o) = remoteReferences(s, o)
        /\ EnvOf(s, o) = remoteEnv(s, o) /\ VolumesOf(s, o) = remoteVolumes(s, o)
    BY SMTT(30), <1>1 DEF ReferencesOf, EnvOf, VolumesOf
  <2>3. QED
    BY Zenon, <1>1, <2>1, <2>2, RemoteClosed, RemotePaths DEF MountedPaths
<1>2. CASE kind = "agent" /\ o[1] = "daemonset"
  <2>1. hasKey(s)
    BY <1>2, AgentPods
  <2>2. /\ ReferencesOf(s, o) = DaemonSetReferences(s)
        /\ EnvOf(s, o) = getDaemonSetEnv(s) /\ VolumesOf(s, o) = getDaemonSetVolumes(s)
    BY SMTT(30), <1>2 DEF ReferencesOf, References, EnvOf, env, VolumesOf, volumes
  <2>3. QED
    BY <1>2, <2>1, <2>2, DaemonSetClosed, DaemonSetPaths DEF MountedPaths
<1>3. CASE kind = "agent" /\ o[1] = "sensor"
  <2>1. hasKey(s) /\ o[2] \in Backends(s)
    BY <1>3, AgentPods
  <2>2. /\ ReferencesOf(s, o) = SensorReferences(s, o[2])
        /\ EnvOf(s, o) = getSensorEnv(s) /\ VolumesOf(s, o) = getSensorVolumes(s, o[2])
    BY SMTT(30), <1>3 DEF ReferencesOf, References, EnvOf, env, VolumesOf, volumes
  <2>3. QED
    BY <1>3, <2>1, <2>2, SensorClosed, SensorPaths DEF MountedPaths
<1>4. kind = "agent" => o[1] = "daemonset" \/ o[1] = "sensor"
  BY AgentPods
<1>5. QED
  BY Zenon, <1>1, <1>2, <1>3, <1>4

LEMMA AppliedResolve == WorkInv => ReferencesResolve
<1> SUFFICES ASSUME WorkInv, AllApplied, NEW o \in Pods
             PROVE  /\ \A r \in ReferencesOf(cur, o).objects \cap AnyObject :
                          Lives(r) \/ LeftToUser(r)
                    /\ \A e \in ReferencesOf(cur, o).entries :
                          e[1] \in AnyObject => e[2] \in DataOf(live[e[1]], e[1])
                    /\ \A v \in Names(EnvOf(cur, o)) :
                          Paths(cur, v) \subseteq MountedPaths(cur, o) \cup LeftUnmounted(cur)
  BY DEF ReferencesResolve
<1>1. /\ kind \in {"agent", "remote"} /\ o \in Elements(Wanted(cur))
      /\ o[1] \in {"daemonset", "sensor", "remote"}
  BY DEF WorkInv, TypeOK, Pods
<1>2. \A r \in Kept(cur) : live[r] = cur /\ Lives(r)
  BY CRsAreNotAbsent DEF WorkInv, ApplyInv, TypeOK, AllApplied, Lives
<1>3. \A r \in ReferencesOf(cur, o).objects \cap AnyObject : Lives(r) \/ LeftToUser(r)
  BY <1>1, <1>2, PodsClosed DEF LeftToUser
<1>4. \A e \in ReferencesOf(cur, o).entries :
         e[1] \in AnyObject => e[2] \in DataOf(live[e[1]], e[1])
  BY <1>1, <1>2, PodsClosed
<1>5. \A v \in Names(EnvOf(cur, o)) : Paths(cur, v) \subseteq MountedPaths(cur, o) \cup LeftUnmounted(cur)
  BY Zenon, <1>1, PodsClosed
<1>6. QED
  BY Zenon, <1>3, <1>4, <1>5

(* The reconcile keeps its variables in their types, for every CR.          *)
THEOREM WorkloadsTypeCorrect == Spec => []TypeOK
<1>1. Init => TypeOK
  BY TypeInit
<1>2. TypeOK /\ [Next]_vars => TypeOK'
  BY TypeNext
<1>3. QED
  BY <1>1, <1>2, PTL DEF Spec

(* Whatever CRs come one after another, and wherever earlier reconciles     *)
(* were cut off: when all objects of a CR have been applied, its pods find  *)
(* the objects and the entries they refer to, and the directories their     *)
(* variables name but for those of LeftUnmounted: a mount path without a    *)
(* Secret, or the copied ETCD CA where the CR names another.                *)
THEOREM ReferencesResolveTheorem == Spec => []ReferencesResolve
<1>1. Init => WorkInv
  BY WorkInit
<1>2. WorkInv /\ [Next]_vars => WorkInv'
  BY WorkNext
<1>3. WorkInv => ReferencesResolve
  BY AppliedResolve
<1>4. QED
  BY <1>1, <1>2, <1>3, PTL DEF Spec

(* What disappears while or after a CR is applied is not among the objects  *)
(* it keeps.                                                                *)
LEMMA KeptStay ==
    ASSUME WorkInv, [Next]_vars, pc = "cleanup", NEW o \in AnyObject, Lives(o), ~Lives(o)'
    PROVE  o \notin Kept(cur)
<1>a. live \in [AnyObject -> (SUBSET Feature) \cup {Absent}] /\ live'[o] # live[o]
  BY DEF WorkInv, TypeOK, Lives
<1>1. CASE CleanupDependents
  <2>1. PICK D \in SUBSET deprecatedDependents :
           live' = [p \in AnyObject |-> IF p \in D THEN Absent ELSE live[p]]
    BY <1>1 DEF CleanupDependents
  <2>2. o \in D
    BY <1>a, <2>1
  <2>3. QED
    BY <2>2 DEF deprecatedDependents, Kept
<1>2. ASSUME NEW d \in DaemonSets, DeleteByHand(d) PROVE o \notin Kept(cur)
  <2>1. live' = [live EXCEPT ![d] = Absent]
    BY <1>2 DEF DeleteByHand
  <2>2. o = d
    BY <1>a, <2>1
  <2>3. QED
    BY <2>2 DEF Kept
<1>3. StartReconcile \/ FailDryRun \/ ApplyObject \/ ApplyDone \/ Restart \/ UNCHANGED vars
        => UNCHANGED live
  BY DEF StartReconcile, FailDryRun, ApplyObject, ApplyDone, Restart, vars, clusterVars
<1>4. (\E f \in Edited : UserEdit(f)) \/ (\E e \in DaemonSets : Refresh(e)) => UNCHANGED live
  BY DEF UserEdit, Refresh
<1>5. QED
  BY <1>a, <1>1, <1>2, <1>3, <1>4 DEF Next

(* Objects that earlier CRs asked for can be deleted safely, whatever the   *)
(* record lists: no pod of the present CR refers to one of them.            *)
THEOREM CleanupKeepsReferencedTheorem == Spec => CleanupKeepsReferenced
<1>1. Init => WorkInv
  BY WorkInit
<1>2. WorkInv /\ [Next]_vars => WorkInv'
  BY WorkNext
<1>3. WorkInv /\ [Next]_vars =>
        [pc = "cleanup" => \A w \in Pods, o \in AnyObject :
            Lives(o) /\ ~Lives(o)' => o \notin ReferencesOf(cur, w).objects \/ LeftToUser(o)]_vars
  <2> SUFFICES ASSUME WorkInv, [Next]_vars, pc = "cleanup", NEW w \in Pods, NEW o \in AnyObject,
                      Lives(o), ~Lives(o)', o \in ReferencesOf(cur, w).objects
               PROVE  LeftToUser(o)
    BY ZenonT(30)
  <2>1. o \notin Kept(cur)
    BY ZenonT(30), KeptStay
  <2>2. /\ kind \in {"agent", "remote"} /\ w \in Elements(Wanted(cur))
        /\ w[1] \in {"daemonset", "sensor", "remote"}
    BY DEF WorkInv, TypeOK, Pods
  <2>3. QED
    BY ZenonT(30), <2>1, <2>2, PodsClosed DEF LeftToUser
<1>4. QED
  BY <1>1, <1>2, <1>3, PTL DEF Spec, CleanupKeepsReferenced
-----------------------------------------------------------------------------
(* Secrets and the variables: a name is a secret of CredentialsDelivered    *)
(* just when the EnvBuilder takes it for one.                               *)
LEMMA SecretNames == SecretVariables = {v \in SecretVariables : isSecret(v)}
BY DEF SecretVariables, isSecret

LEMMA PlainNames ==
    /\ SecretVariables = {"INSTANA_AGENT_KEY", "AGENT_KEY", "HTTPS_PROXY", "INSTANA_DOWNLOAD_KEY",
                          "INSTANA_AGENT_PROXY_USER", "INSTANA_AGENT_PROXY_PASSWORD",
                          "MIRROR_CREDENTIALS"}
    /\ \A c \in Credential : File[c] \in {"INSTANA_DOWNLOAD_KEY", "INSTANA_AGENT_PROXY_USER",
                                          "INSTANA_AGENT_PROXY_PASSWORD", "MIRROR_CREDENTIALS"}
BY DEF SecretVariables, File, Credential

LEMMA EnvHidesSecrets ==
    ASSUME NEW s, NEW vs, "mounts" \in s
    PROVE  EnvBuild(s, vs) \cap SecretVariables = {}
<1>1. "USER" \notin SecretVariables
  BY PlainNames
<1>2. QED
  BY <1>1, SecretNames DEF EnvBuild, When

(* Without useSecretMounts every credential that is set becomes a variable. *)
LEMMA EnvHasSecrets ==
    ASSUME NEW s, NEW vs, "mounts" \notin s
    PROVE  /\ "INSTANA_AGENT_KEY" \in vs => "INSTANA_AGENT_KEY" \in EnvBuild(s, vs)
           /\ \A c \in Credential \cap s : File[c] \in vs => File[c] \in EnvBuild(s, vs)
           /\ "proxyHost" \in s /\ "HTTPS_PROXY" \in vs => "HTTPS_PROXY" \in EnvBuild(s, vs)
<1>1. \A v \in vs : isSet(s, v) => v \in EnvBuild(s, vs)
  BY DEF EnvBuild
<1>2. isSet(s, "INSTANA_AGENT_KEY") /\ ("proxyHost" \in s => isSet(s, "HTTPS_PROXY"))
  <2>1. {"INSTANA_AGENT_KEY", "HTTPS_PROXY"} \cap {File[c] : c \in Credential \ {"downloadKey"}} = {}
    BY PlainNames
  <2>2. QED
    BY <2>1 DEF isSet
<1>3. \A c \in Credential \cap s : isSet(s, File[c])
  <2> TAKE c \in Credential \cap s
  <2>1. File[c] \notin {"HTTPS_PROXY", "NO_PROXY", "CONTROL_PLANE_CA_FILE"}
    BY PlainNames
  <2>2. QED
    BY <2>1 DEF isSet
<1>4. QED
  BY <1>1, <1>2, <1>3

LEMMA FileMounted ==
    ASSUME NEW o, NEW v \in VolumesOf(cur, o), v.dir = "secrets",
           NEW f, f \in IF v.items = {} THEN DataOf(live[v.object], v.object) ELSE {i[2] : i \in v.items}
    PROVE  f \in SecretFiles(o)
BY DEF SecretFiles

(* The pods are given the name of the agent key and of each credential that *)
(* matters, as a file or as a variable.                                     *)
LEMMA AgentFiles ==
    ASSUME kind = "agent", hasKey(cur), "mounts" \in cur, \A r \in Kept(cur) : live[r] = cur,
           NEW o, o[1] = "daemonset"
    PROVE  /\ <<"INSTANA_AGENT_KEY", "none">> \in SecretFiles(o)
           /\ \A c \in Relevant : <<File[c], "none">> \in SecretFiles(o)
<1>1. PICK v \in SecretsOf(cur, AgentItems(cur)) : TRUE
  BY SecretsFields
<1>2. v.dir = "secrets" /\ v.object = keysObject(cur) /\ v.items = AgentItems(cur)
  BY <1>1, SecretsFields
<1>3. v \in VolumesOf(cur, o)
  BY <1>1, SecretsVolumes DEF VolumesOf, volumes, getDaemonSetVolumes
<1>4. CASE "keysSecret" \in cur
  <2>1. v.items = {<< <<"key", "none">>, <<"INSTANA_AGENT_KEY", "none">> >>} /\ v.items # {}
    BY Zenon, <1>2, <1>4 DEF AgentItems, When
  <2>2. <<"INSTANA_AGENT_KEY", "none">> \in {i[2] : i \in v.items}
    BY <2>1
  <2>3. Relevant = {}
    BY <1>4 DEF Relevant
  <2>4. QED
    BY <1>2, <1>3, <2>1, <2>2, <2>3, FileMounted
<1>5. CASE "keysSecret" \notin cur
  <2>1. v.items = {} /\ v.object = <<"keys", "none">>
    BY <1>2, <1>5 DEF AgentItems, When, keysObject
  <2>2. live[v.object] = cur
    BY ZenonT(30), <1>5, <2>1, AgentKeeps DEF KeysSecretBuild
  <2>3. DataOf(live[v.object], v.object) = keysData(cur)
    BY <2>1, <2>2 DEF DataOf, data
  <2>4. \A f \in keysData(cur) : f \in SecretFiles(o)
    BY <1>2, <1>3, <2>1, <2>3, FileMounted
  <2>5. Relevant \subseteq Credential \cap cur
    BY DEF Relevant
  <2>6. /\ <<"INSTANA_AGENT_KEY", "none">> \in keysData(cur)
        /\ \A c \in Credential \cap cur : <<File[c], "none">> \in keysData(cur)
    BY <1>5, KeysData
  <2>7. QED
    BY <2>4, <2>5, <2>6
<1>6. QED
  BY <1>4, <1>5

LEMMA SensorFiles ==
    ASSUME kind = "agent", "mounts" \in cur, NEW o, o[1] = "sensor"
    PROVE  /\ <<"INSTANA_AGENT_KEY", o[2]>> \in SecretFiles(o)
           /\ "proxyHost" \in cur => <<"HTTPS_PROXY", "none">> \in SecretFiles(o)
<1> DEFINE b == o[2]
<1>1. PICK v \in SecretsOf(cur, SensorItems(cur, b)) : TRUE
  BY SecretsFields
<1>2. v.dir = "secrets" /\ v.items = SensorItems(cur, b)
  BY <1>1, SecretsFields
<1>3. v \in VolumesOf(cur, o)
  BY <1>1, SecretsVolumes DEF VolumesOf, volumes, getSensorVolumes
<1>4. PICK i \in v.items : i[2] = <<"INSTANA_AGENT_KEY", b>>
  <2> DEFINE e == << <<IF "keysSecret" \in cur THEN "key" ELSE "INSTANA_AGENT_KEY", b>>,
                     <<"INSTANA_AGENT_KEY", b>> >>
  <2>1. e \in v.items /\ e[2] = <<"INSTANA_AGENT_KEY", b>>
    BY <1>2 DEF SensorItems
  <2> HIDE DEF e
  <2>2. QED
    BY <2>1
<1>5. "proxyHost" \in cur => \E j \in v.items : j[2] = <<"HTTPS_PROXY", "none">>
  <2> DEFINE e == << <<IF "keysSecret" \in cur THEN "httpsProxy" ELSE "HTTPS_PROXY", "none">>,
                     <<"HTTPS_PROXY", "none">> >>
  <2>1. "proxyHost" \in cur => e \in v.items /\ e[2] = <<"HTTPS_PROXY", "none">>
    BY <1>2 DEF SensorItems, When
  <2> HIDE DEF e
  <2>2. QED
    BY <2>1
<1>6. v.items # {}
  BY <1>4
<1>7. QED
  BY <1>2, <1>3, <1>4, <1>5, <1>6, FileMounted

LEMMA RemoteFiles ==
    ASSUME kind = "remote", "mounts" \in cur, NEW o, o[1] = "remote"
    PROVE  /\ <<"INSTANA_AGENT_KEY", "none">> \in SecretFiles(o)
           /\ \A c \in Relevant : <<File[c], "none">> \in SecretFiles(o)
<1>1. PICK v \in SecretsOf(cur, RemoteItems(cur)) : TRUE
  BY SecretsFields
<1>2. v.dir = "secrets" /\ v.items = RemoteItems(cur)
  BY <1>1, SecretsFields
<1>3. v \in VolumesOf(cur, o)
  BY <1>1, SecretsVolumes DEF VolumesOf, remoteVolumes, When
<1>4. PICK i \in v.items : i[2] = <<"INSTANA_AGENT_KEY", "none">>
  <2> DEFINE e == << <<"key", "none">>, <<"INSTANA_AGENT_KEY", "none">> >>
  <2>1. e \in v.items /\ e[2] = <<"INSTANA_AGENT_KEY", "none">>
    BY <1>2 DEF RemoteItems
  <2> HIDE DEF e
  <2>2. QED
    BY <2>1
<1>5. \A c \in RemoteMounted(cur) : \E j \in v.items : j[2] = <<File[c], "none">>
  <2> TAKE c \in RemoteMounted(cur)
  <2>1. << <<c, "none">>, <<File[c], "none">> >> \in v.items
    BY <1>2 DEF RemoteItems
  <2>2. QED
    BY <2>1
<1>6. Relevant \subseteq RemoteMounted(cur)
  BY DEF Relevant, RemoteMounted, Credential, When
<1>7. v.items # {}
  BY <1>4
<1>8. QED
  BY <1>2, <1>3, <1>4, <1>5, <1>6, <1>7, FileMounted

LEMMA AgentVariables ==
    ASSUME "mounts" \notin cur, NEW vs,
           {"MIRROR_CREDENTIALS", "INSTANA_AGENT_PROXY_USER", "INSTANA_AGENT_PROXY_PASSWORD",
            "INSTANA_AGENT_KEY", "INSTANA_DOWNLOAD_KEY"} \subseteq vs
    PROVE  /\ "INSTANA_AGENT_KEY" \in EnvBuild(cur, vs)
           /\ \A c \in Relevant : File[c] \in EnvBuild(cur, vs)
<1>1. \A c \in Relevant : c \in Credential \cap cur /\ File[c] \in vs
  BY PlainNames DEF Relevant
<1>2. QED
  BY <1>1, EnvHasSecrets

LEMMA SensorEnvSecrets ==
    ASSUME NEW s
    PROVE  /\ "mounts" \in s => SensorVariables(s) \cap SecretVariables = {}
           /\ "mounts" \notin s => "AGENT_KEY" \in SensorVariables(s)
           /\ "mounts" \notin s /\ "proxyHost" \in s => "HTTPS_PROXY" \in SensorVariables(s)
<1>1. ASSUME "mounts" \in s PROVE SensorVariables(s) \cap SecretVariables = {}
  <2> DEFINE E == EnvBuild(s, {"NO_PROXY", "CONFIG_PATH", "CONTROL_PLANE_CA_FILE"})
  <2>1. E \cap SecretVariables = {}
    BY <1>1, EnvHidesSecrets
  <2>2. {"BACKEND", "ETCD_CA_FILE", "ETCD_CERT_FILE"} \cap SecretVariables = {}
    BY PlainNames
  <2> HIDE DEF E
  <2>3. SensorVariables(s) \subseteq {"BACKEND", "ETCD_CA_FILE", "ETCD_CERT_FILE"} \cup E
    BY <1>1 DEF SensorVariables, When, E
  <2>4. QED
    BY <2>1, <2>2, <2>3
<1>2. ASSUME "mounts" \notin s, "proxyHost" \in s PROVE "HTTPS_PROXY" \in SensorVariables(s)
  <2>1. "HTTPS_PROXY" \in EnvBuild(s, {"HTTPS_PROXY"})
    BY <1>2, EnvHasSecrets
  <2>2. QED
    BY <1>2, <2>1 DEF SensorVariables, When
<1>3. "mounts" \notin s => "AGENT_KEY" \in SensorVariables(s)
  BY DEF SensorVariables, When
<1>4. QED
  BY <1>1, <1>2, <1>3

LEMMA ConfigDelivered ==
    ASSUME kind \in {"agent", "remote"}, hasKey(cur), live[<<"config", "none">>] = cur
    PROVE  {<<"Backend.cfg", b>> : b \in Backends(cur)}
             \subseteq DataOf(live[<<"config", "none">>], <<"config", "none">>)
<1>1. DataOf(cur, <<"config", "none">>) = backendConfig(cur)
  BY SMTT(30) DEF DataOf, remoteData, data
<1>2. QED
  BY <1>1 DEF backendConfig

LEMMA AppliedDelivered == WorkInv => CredentialsDelivered
<1> SUFFICES ASSUME WorkInv, AllApplied, NEW o \in Pods
             PROVE  /\ o[1] \in {"daemonset", "remote"} =>
                         /\ Delivered(o, <<"INSTANA_AGENT_KEY", "none">>, "INSTANA_AGENT_KEY")
                         /\ \A c \in Relevant : Delivered(o, <<File[c], "none">>, File[c])
                    /\ o[1] = "sensor" =>
                         /\ Delivered(o, <<"INSTANA_AGENT_KEY", o[2]>>, "AGENT_KEY")
                         /\ "proxyHost" \in cur =>
                              Delivered(o, <<"HTTPS_PROXY", "none">>, "HTTPS_PROXY")
                         /\ getK8SensorArgs(cur, o[2]) \subseteq SecretFiles(o)
                    /\ "mounts" \in cur => Names(EnvOf(cur, o)) \cap SecretVariables = {}
                    /\ o[1] \in {"daemonset", "remote"} =>
                         {<<"Backend.cfg", b>> : b \in Backends(cur)}
                            \subseteq DataOf(live[<<"config", "none">>], <<"config", "none">>)
  BY Zenon DEF CredentialsDelivered
<1>1. /\ kind \in {"agent", "remote"} /\ o \in Elements(Wanted(cur))
      /\ o[1] \in {"daemonset", "sensor", "remote"}
  BY DEF WorkInv, TypeOK, Pods
<1>2. \A r \in Kept(cur) : live[r] = cur
  BY DEF WorkInv, ApplyInv, AllApplied
<1>3. live[<<"config", "none">>] = cur
  BY Zenon, <1>1, <1>2, AgentKeeps, RemoteKeeps
<1>4. CASE kind = "agent" /\ o[1] = "daemonset"
  <2> DEFINE vs == {"MIRROR_CREDENTIALS", "INSTANA_AGENT_PROXY_USER", "INSTANA_AGENT_PROXY_PASSWORD",
                    "CONFIG_PATH", "INSTANA_AGENT_KEY", "INSTANA_DOWNLOAD_KEY",
                    "NAMESPACES_DETAILS_PATH"}
  <2>1. hasKey(cur)
    BY <1>1, <1>4, AgentPods
  <2>2. Names(EnvOf(cur, o)) = EnvBuild(cur, vs)
    BY <1>4, NamesUnit DEF EnvOf, env, getDaemonSetEnv
  <2>3. {"MIRROR_CREDENTIALS", "INSTANA_AGENT_PROXY_USER", "INSTANA_AGENT_PROXY_PASSWORD",
         "INSTANA_AGENT_KEY", "INSTANA_DOWNLOAD_KEY"} \subseteq vs
    OBVIOUS
  <2> HIDE DEF vs
  <2>4. CASE "mounts" \in cur
    BY SMTT(30), <1>2, <1>3, <1>4, <2>1, <2>2, <2>4, AgentFiles, EnvHidesSecrets, ConfigDelivered
    DEF Delivered
  <2>5. CASE "mounts" \notin cur
    BY ZenonT(30), <1>3, <1>4, <2>1, <2>2, <2>3, <2>5, AgentVariables, ConfigDelivered DEF Delivered
  <2>6. QED
    BY Zenon, <2>4, <2>5
<1>5. CASE kind = "agent" /\ o[1] = "sensor"
  <2>1. Names(EnvOf(cur, o)) = SensorVariables(cur)
    BY <1>5, SensorNames DEF EnvOf, env
  <2>2. CASE "mounts" \in cur
    <3>1. getK8SensorArgs(cur, o[2]) \subseteq SecretFiles(o)
      BY Zenon, <1>5, <2>2, SensorFiles DEF getK8SensorArgs, When
    <3>2. QED
      BY <1>5, <2>1, <2>2, <3>1, SensorFiles, SensorEnvSecrets DEF Delivered
  <2>3. CASE "mounts" \notin cur
    <3>1. getK8SensorArgs(cur, o[2]) = {}
      BY <2>3 DEF getK8SensorArgs, When
    <3>2. QED
      BY <1>5, <2>1, <2>3, <3>1, SensorEnvSecrets DEF Delivered
  <2>4. QED
    BY <2>2, <2>3
<1>6. CASE kind = "remote"
  <2> DEFINE vs == {"MIRROR_CREDENTIALS", "INSTANA_AGENT_PROXY_USER", "INSTANA_AGENT_PROXY_PASSWORD",
                    "CONFIG_PATH", "INSTANA_AGENT_KEY", "INSTANA_DOWNLOAD_KEY"}
  <2>1. hasKey(cur) /\ o[1] = "remote"
    BY <1>1, <1>6, RemotePods
  <2>2. Names(EnvOf(cur, o)) = EnvBuild(cur, vs)
    BY <1>6, <2>1, NamesUnit DEF EnvOf, remoteEnv, remoteEnvBuild
  <2>3. {"MIRROR_CREDENTIALS", "INSTANA_AGENT_PROXY_USER", "INSTANA_AGENT_PROXY_PASSWORD",
         "INSTANA_AGENT_KEY", "INSTANA_DOWNLOAD_KEY"} \subseteq vs
    BY SMTT(30)
  <2> HIDE DEF vs
  <2>4. CASE "mounts" \in cur
    BY SMTT(30), <1>3, <1>6, <2>1, <2>2, <2>4, RemoteFiles, EnvHidesSecrets, ConfigDelivered
    DEF Delivered
  <2>5. CASE "mounts" \notin cur
    BY <1>3, <1>6, <2>1, <2>2, <2>3, <2>5, AgentVariables, ConfigDelivered DEF Delivered
  <2>6. QED
    BY <2>4, <2>5
<1>7. QED
  BY ZenonT(30), <1>1, <1>4, <1>5, <1>6, AgentPods

(* Whatever useSecretMounts was before and whatever the Secret held: when   *)
(* all objects of a CR have been applied, its credentials reach the pods,   *)
(* as files or as variables, and never as variables when as files.          *)
THEOREM CredentialsDeliveredTheorem == Spec => []CredentialsDelivered
<1>1. Init => WorkInv
  BY WorkInit
<1>2. WorkInv /\ [Next]_vars => WorkInv'
  BY WorkNext
<1>3. WorkInv => CredentialsDelivered
  BY AppliedDelivered
<1>4. QED
  BY <1>1, <1>2, <1>3, PTL DEF Spec
=============================================================================
