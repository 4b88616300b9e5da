------------------------- MODULE OperatorStartProofs --------------------------
(***************************************************************************)
(* The operator deletes an unmarked object only in the gap between a check *)
(* and its Delete, and leads only once the old operator's Deployments are  *)
(* gone, whatever the namespaces and however often it is started.          *)
(***************************************************************************)
EXTENDS OperatorStart, TLAPS

LEMMA Names ==
    /\ Namespaces \subseteq Name /\ "role" \in Name /\ "binding" \in Name
    /\ "role" \notin Namespaces /\ "binding" \notin Namespaces
BY OperatorStartAssumption DEF Name

LEMMA TypeNext == TypeOK /\ [Next]_vars => TypeOK'
<1> SUFFICES ASSUME TypeOK, [Next]_vars PROVE TypeOK'
  OBVIOUS
<1> USE DEF TypeOK, Origin
<1>1. Event => events' \in 0..MaxEvents
  BY OperatorStartAssumption DEF Event
<1>2. CASE ListDeployments
  BY <1>1, <1>2 DEF ListDeployments
<1>3. CASE DeleteDeployment
  BY <1>1, <1>3 DEF DeleteDeployment, Delete
<1>4. CASE DeploymentsDone \/ Elect
  BY <1>4, OperatorStartAssumption DEF DeploymentsDone, Elect
<1>5. CASE GetRole \/ DeleteRole
  BY <1>1, <1>5 DEF GetRole, DeleteRole, Delete
<1>6. CASE GetBinding \/ DeleteBinding
  BY <1>1, <1>6 DEF GetBinding, DeleteBinding, Delete
<1>7. CASE Crash \/ ClientFails
  BY <1>1, <1>7 DEF Crash, ClientFails
<1>8. CASE ClusterStep
  BY <1>8 DEF ClusterStep, OldStops, LockExpires, OldAcquires
<1>9. ASSUME NEW x \in Name, OtherWrites(x) PROVE TypeOK'
  BY <1>1, <1>9 DEF OtherWrites
<1>10. CASE UNCHANGED vars
  BY <1>10 DEF vars
<1>11. QED
  BY <1>2, <1>3, <1>4, <1>5, <1>6, <1>7, <1>8, <1>9, <1>10 DEF Next, cleanupOldOperator

(* Every variable keeps its type: the process is at one of its calls, and   *)
(* each lease has one holder.                                               *)
THEOREM TypeCorrect == Spec => []TypeOK
<1>1. Init => TypeOK
  <2> SUFFICES ASSUME Init PROVE TypeOK
    OBVIOUS
  <2>1. 0 \in 0..MaxEvents
    BY OperatorStartAssumption
  <2>2. lock \in [Namespaces -> {"free", "old", "new"}]
    BY DEF Init
  <2>3. QED
    BY <2>1, <2>2 DEF Init, TypeOK
<1>2. QED
  BY <1>1, TypeNext, PTL DEF Spec
-----------------------------------------------------------------------------
(* What the process is about to delete carries the marks, or somebody else  *)
(* has written the name since this start read it.                           *)
Found ==
    /\ \A n \in listed : matches(n) \/ n \in changed
    /\ pc = "deleteRole" => hasInstanaApiGroup \/ "role" \in changed
    /\ pc = "deleteBinding" => hasInstanaAgentOperatorSA \/ "binding" \in changed

LEMMA FoundInit == Init => Found
BY DEF Init, Found

LEMMA FoundNext == TypeOK /\ Found /\ [Next]_vars => Found'
<1> SUFFICES ASSUME TypeOK, Found, [Next]_vars PROVE Found'
  OBVIOUS
<1> USE DEF Found, matches, hasInstanaApiGroup, hasInstanaAgentOperatorSA
<1>1. CASE ListDeployments
  BY <1>1 DEF ListDeployments
<1>2. CASE DeleteDeployment
  <2>1. PICK n \in listed : /\ listed' = listed \ {n}
                            /\ Delete(n) \/ UNCHANGED holder
    BY <1>2 DEF DeleteDeployment
  <2>2. pc = "delete" /\ UNCHANGED <<pc, changed>>
    BY <1>2 DEF DeleteDeployment
  <2>3. \A m \in listed' : m \in listed /\ holder'[m] = holder[m]
    BY <2>1, Names DEF Delete, TypeOK
  <2>4. QED
    BY <2>2, <2>3
<1>3. CASE DeploymentsDone \/ Elect \/ ClientFails
  BY <1>3 DEF DeploymentsDone, Elect, ClientFails
<1>4. CASE GetRole
  BY <1>4, Names DEF GetRole, TypeOK
<1>5. CASE DeleteRole \/ DeleteBinding
  <2>1. PICK x \in {"role", "binding"} : Delete(x) \/ UNCHANGED holder
    BY <1>5 DEF DeleteRole, DeleteBinding
  <2>2. pc' \notin {"deleteRole", "deleteBinding"} /\ UNCHANGED <<listed, changed>>
    BY <1>5 DEF DeleteRole, DeleteBinding
  <2>3. \A m \in listed : holder'[m] = holder[m]
    BY <2>1, Names DEF Delete, TypeOK
  <2>4. QED
    BY <2>2, <2>3
<1>6. CASE GetBinding
  BY <1>6, Names DEF GetBinding, TypeOK
<1>7. CASE Crash
  BY <1>7 DEF Crash
<1>8. CASE ClusterStep
  BY <1>8 DEF ClusterStep, OldStops, LockExpires, OldAcquires
<1>9. ASSUME NEW x \in Name, OtherWrites(x) PROVE Found'
  <2>1. changed' = changed \cup {x} /\ UNCHANGED <<pc, listed>>
    BY <1>9 DEF OtherWrites
  <2>2. \A y \in Name : y # x => holder'[y] = holder[y]
    BY <1>9 DEF OtherWrites, TypeOK
  <2>3. QED
    BY <2>1, <2>2, Names DEF TypeOK
<1>10. CASE UNCHANGED vars
  BY <1>10 DEF vars
<1>11. QED
  BY <1>1, <1>2, <1>3, <1>4, <1>5, <1>6, <1>7, <1>8, <1>9, <1>10 DEF Next, cleanupOldOperator

(* From a state that satisfies Found, the cleanup takes an unmarked object  *)
(* only if the name has changed hands since it was read.                    *)
LEMMA StepKeepsOthers ==
    ASSUME TypeOK, Found, cleanupOldOperator,
           NEW x \in Name, holder[x] = "other", holder'[x] # "other"
    PROVE  x \in changed
<1> USE DEF Found, Marked, matches, hasInstanaApiGroup, hasInstanaAgentOperatorSA
<1>1. ASSUME NEW y \in Name, Delete(y) PROVE x = y
  BY <1>1 DEF Delete, TypeOK
<1>2. CASE DeleteDeployment
  BY <1>1, <1>2, Names DEF DeleteDeployment, TypeOK
<1>3. CASE DeleteRole
  BY <1>1, <1>3, Names DEF DeleteRole
<1>4. CASE DeleteBinding
  BY <1>1, <1>4, Names DEF DeleteBinding
<1>5. ListDeployments \/ DeploymentsDone \/ GetRole \/ GetBinding => UNCHANGED holder
  BY DEF ListDeployments, DeploymentsDone, GetRole, GetBinding
<1>6. QED
  BY <1>2, <1>3, <1>4, <1>5 DEF cleanupOldOperator

(* cleanupOldOperator deletes an object without its marks only if that      *)
(* object has taken the name since this start read it: in any number of     *)
(* namespaces, over any number of starts and whatever others write.         *)
THEOREM OthersKeptTheorem == Spec => OthersKept
<1>1. TypeOK /\ Found /\ [Next]_vars =>
        [cleanupOldOperator =>
            \A x \in Name : holder[x] = "other" /\ holder'[x] # "other" => x \in changed]_vars
  BY StepKeepsOthers
<1>2. QED
  BY <1>1, FoundInit, FoundNext, TypeCorrect, PTL DEF Spec, OthersKept
-----------------------------------------------------------------------------
(* The cleanup of this start: while it deletes, every Deployment of the old *)
(* operator is still on its list, and none is left afterwards.  Nothing     *)
(* creates one again.                                                       *)
CleanupInv ==
    ~missed => /\ pc = "delete" => \A n \in Namespaces : holder[n] = "instana" => n \in listed
               /\ pc \notin {"list", "delete"} => \A n \in Namespaces : holder[n] # "instana"

LEMMA CleanupNext == TypeOK /\ CleanupInv /\ [Next]_vars => CleanupInv'
<1> SUFFICES ASSUME TypeOK, CleanupInv, [Next]_vars PROVE CleanupInv'
  OBVIOUS
<1> USE DEF CleanupInv
<1>1. CASE ListDeployments
  BY <1>1 DEF ListDeployments, matches, Marked
<1>2. CASE DeleteDeployment
  <2>1. PICK n \in listed :
          /\ listed' = listed \ {n}
          /\ missed' \/ (holder' = [holder EXCEPT ![n] = "none"] /\ UNCHANGED missed)
    BY <1>2 DEF DeleteDeployment, Delete
  <2>2. pc = "delete" /\ UNCHANGED pc
    BY <1>2 DEF DeleteDeployment
  <2>3. QED
    BY <2>1, <2>2, Names DEF TypeOK
<1>3. CASE DeploymentsDone
  BY <1>3 DEF DeploymentsDone
<1>4. CASE GetRole \/ DeleteRole \/ GetBinding \/ DeleteBinding \/ Elect
  <2>1. pc \notin {"list", "delete"} /\ UNCHANGED missed /\ pc' # "delete"
    BY <1>4 DEF GetRole, DeleteRole, GetBinding, DeleteBinding, Elect
  <2>2. UNCHANGED holder \/ Delete("role") \/ Delete("binding")
    BY <1>4 DEF GetRole, DeleteRole, GetBinding, DeleteBinding, Elect
  <2>3. \A n \in Namespaces : holder'[n] = holder[n]
    BY <2>2, Names DEF Delete, TypeOK
  <2>4. QED
    BY <2>1, <2>3
<1>5. CASE Crash \/ ClientFails
  BY <1>5 DEF Crash, ClientFails
<1>6. ASSUME NEW x \in Name, OtherWrites(x) PROVE CleanupInv'
  <2>1. UNCHANGED <<pc, listed, missed>>
    BY <1>6 DEF OtherWrites
  <2>2. \A n \in Namespaces : holder'[n] = "instana" => holder[n] = "instana"
    BY <1>6, Names DEF OtherWrites, TypeOK
  <2>3. QED
    BY <2>1, <2>2
<1>7. CASE UNCHANGED <<holder, pc, listed, missed>>
  BY <1>7
<1>8. ClusterStep \/ UNCHANGED vars => UNCHANGED <<holder, pc, listed, missed>>
  BY DEF ClusterStep, OldStops, LockExpires, OldAcquires, vars
<1>9. QED
  BY <1>1, <1>2, <1>3, <1>4, <1>5, <1>6, <1>7, <1>8 DEF Next, cleanupOldOperator

LEMMA LockNext ==
    TypeOK /\ (pc = "leading" => lock[Home] = "new") /\ [Next]_vars
      => (pc = "leading" => lock[Home] = "new")'
<1> SUFFICES ASSUME TypeOK, pc = "leading" => lock[Home] = "new", [Next]_vars
             PROVE  (pc = "leading" => lock[Home] = "new")'
  OBVIOUS
<1>1. CASE Elect
  BY <1>1, OperatorStartAssumption DEF Elect, TypeOK
<1>2. CASE ClusterStep
  <2>1. PICK n \in Namespaces : OldStops(n) \/ LockExpires(n) \/ OldAcquires(n)
    BY <1>2 DEF ClusterStep
  <2>2. UNCHANGED pc
    BY <2>1 DEF OldStops, LockExpires, OldAcquires
  <2>3. pc = "leading" => lock'[Home] = lock[Home]
    BY <2>1, OperatorStartAssumption DEF OldStops, LockExpires, OldAcquires, TypeOK
  <2>4. QED
    BY <2>2, <2>3
<1>3. CASE UNCHANGED lock /\ (pc' # "leading" \/ UNCHANGED pc)
  BY <1>3
<1>4. cleanupOldOperator \/ ClientFails \/ Crash \/ (\E x \in Name : OtherWrites(x)) \/ UNCHANGED vars
        => UNCHANGED lock /\ (pc' # "leading" \/ UNCHANGED pc)
  BY DEF cleanupOldOperator, ListDeployments, DeleteDeployment, DeploymentsDone, GetRole,
         DeleteRole, GetBinding, DeleteBinding, ClientFails, Crash, OtherWrites, vars
<1>5. QED
  BY <1>1, <1>2, <1>3, <1>4 DEF Next

(* "we do the cleanup beforehand so our new deployment gets the lock": when *)
(* the manager leads it holds the lock, and no old Deployment is left that  *)
(* would start an operator competing for it, over any number of starts.     *)
THEOREM LeadsAloneTheorem == Spec => []LeadsAlone
<1>1. Init => CleanupInv /\ (pc = "leading" => lock[Home] = "new")
  BY DEF Init, CleanupInv
<1>2. CleanupInv /\ (pc = "leading" => lock[Home] = "new") => LeadsAlone
  BY DEF CleanupInv, LeadsAlone
<1>3. QED
  BY <1>1, <1>2, TypeCorrect, CleanupNext, LockNext, PTL DEF Spec
=============================================================================
