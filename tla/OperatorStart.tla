---------------------------- MODULE OperatorStart ----------------------------
(***************************************************************************)
(* main: the operator removes the Deployment and the RBAC of the operator  *)
(* it replaces, then starts its manager, whose controllers run only while  *)
(* it holds the leader lock of its namespace.  The old operator competes   *)
(* for that lock.  Others may use the same, common, names at any time.     *)
(***************************************************************************)
EXTENDS Naturals

CONSTANTS
    Namespaces,
    Home,        \* the namespace the operator runs in and takes the lock of
    MaxEvents    \* bound: failing calls, crashes, objects others write

VARIABLES
    holder,      \* whose object has each of the names
    running,     \* the namespaces an old operator's pod runs in
    lock,        \* the holder of the lease of each namespace
    pc,
    listed,      \* the Deployments the loop has still to delete
    missed,      \* this start has failed to list or to delete a Deployment
    changed,     \* history: names others have written since this start read them
    events

vars == <<holder, running, lock, pc, listed, missed, changed, events>>

ASSUME OperatorStartAssumption ==
    Home \in Namespaces /\ {"role", "binding"} \cap Namespaces = {} /\ MaxEvents \in Nat

(* The Deployment controller-manager of each namespace, the ClusterRole     *)
(* manager-role and the ClusterRoleBinding manager-rolebinding.             *)
Name == Namespaces \cup {"role", "binding"}

(* The old operator's object, or one of somebody else with or without the   *)
(* marks the operator looks for: the label of a Deployment, the API group   *)
(* instana.io in a rule of a role, an account instana-agent-operator, of    *)
(* any namespace, among the subjects of a binding.                          *)
Origin == {"none", "instana", "lookalike", "other"}
Marked == {"instana", "lookalike"}

TypeOK ==
    /\ holder \in [Name -> Origin]
    /\ running \subseteq Namespaces /\ lock \in [Namespaces -> {"free", "old", "new"}]
    /\ pc \in {"list", "delete", "role", "deleteRole", "binding", "deleteBinding", "elect", "leading"}
    /\ listed \subseteq Namespaces /\ missed \in BOOLEAN /\ changed \subseteq Name
    /\ events \in 0..MaxEvents

(* Old operators are running; OldAcquires gives them their leases, before   *)
(* the new one starts or later.                                             *)
Init ==
    /\ holder \in [Name -> Origin]
    /\ running = {n \in Namespaces : holder[n] = "instana"}
    /\ lock = [n \in Namespaces |-> "free"]
    /\ pc = "list" /\ listed = {} /\ missed = FALSE /\ changed = {} /\ events = 0

Event == events < MaxEvents /\ events' = events + 1
-----------------------------------------------------------------------------
(* The cluster: the pod of a deleted Deployment is collected, the lease of  *)
(* a pod that is gone expires, and an old operator takes a free lease.      *)
OldStops(n) ==
    /\ n \in running /\ holder[n] # "instana"
    /\ running' = running \ {n}
    /\ UNCHANGED <<holder, lock, pc, listed, missed, changed, events>>

LockExpires(n) ==
    /\ \/ lock[n] = "old" /\ n \notin running
       \/ lock[n] = "new" /\ pc # "leading"
    /\ lock' = [lock EXCEPT ![n] = "free"]
    /\ UNCHANGED <<holder, running, pc, listed, missed, changed, events>>

OldAcquires(n) ==
    /\ n \in running /\ lock[n] = "free"
    /\ lock' = [lock EXCEPT ![n] = "old"]
    /\ UNCHANGED <<holder, running, pc, listed, missed, changed, events>>

(* Somebody else deletes the object with a name, replaces it or creates one *)
(* under a free name.  Nobody installs the old operator again.              *)
OtherWrites(x) ==
    /\ Event
    /\ \E o \in Origin \ {"instana", holder[x]} : holder' = [holder EXCEPT ![x] = o]
    /\ changed' = changed \cup {x}
    /\ UNCHANGED <<running, lock, pc, listed, missed>>
-----------------------------------------------------------------------------
(* The client for the cleanup cannot be created: there is no cleanup.       *)
ClientFails ==
    /\ pc = "list"
    /\ Event
    /\ missed' = TRUE /\ pc' = "elect"
    /\ UNCHANGED <<holder, running, lock, listed, changed>>

(* The field selector on the name and the label selector, all namespaces.   *)
matches(n) == holder[n] \in Marked

(* Mutant: the cleanup waits for the lock like any runnable of the manager. *)
ListWhenElected ==
    /\ pc = "list" /\ lock[Home] = "new"
    /\ listed' = {n \in Namespaces : matches(n)} /\ pc' = "delete"
    /\ changed' = changed \ Namespaces
    /\ UNCHANGED <<holder, running, lock, missed, events>>

(* An error is logged and the Deployments are left alone.                   *)
ListDeployments ==
    /\ pc = "list"
    /\ \/ /\ listed' = {n \in Namespaces : matches(n)} /\ pc' = "delete"
          /\ changed' = changed \ Namespaces
          /\ UNCHANGED <<missed, events>>
       \/ /\ Event
          /\ missed' = TRUE /\ pc' = "role"
          /\ UNCHANGED <<listed, changed>>
    /\ UNCHANGED <<holder, running, lock>>

(* Delete goes by the name and without a precondition: it removes whatever  *)
(* has the name by now.  NotFound and other errors are logged alike.        *)
Delete(x) == holder' = [holder EXCEPT ![x] = "none"]

(* Mutant: "there should be only one deployment".                           *)
DeleteFirst ==
    /\ pc = "delete"
    /\ \E n \in listed : Delete(n)
    /\ listed' = {}
    /\ UNCHANGED <<running, lock, pc, missed, changed, events>>

DeleteDeployment ==
    /\ pc = "delete"
    /\ \E n \in listed :
         /\ listed' = listed \ {n}
         /\ \/ Delete(n) /\ UNCHANGED <<missed, events>>
            \/ Event /\ missed' = TRUE /\ UNCHANGED holder
    /\ UNCHANGED <<running, lock, pc, changed>>

DeploymentsDone ==
    /\ pc = "delete" /\ listed = {}
    /\ pc' = "role"
    /\ UNCHANGED <<holder, running, lock, listed, missed, changed, events>>

(* Mutant: whatever has the name is taken for the old role.                 *)
anyRole == holder["role"] # "none"

(* A rule of the role has the API group instana.io.                         *)
hasInstanaApiGroup == holder["role"] \in Marked

GetRole ==
    /\ pc = "role"
    /\ \/ pc' = (IF hasInstanaApiGroup THEN "deleteRole" ELSE "binding") /\ UNCHANGED events
       \/ Event /\ pc' = "binding"
    /\ changed' = changed \ {"role"}
    /\ UNCHANGED <<holder, running, lock, listed, missed>>

DeleteRole ==
    /\ pc = "deleteRole"
    /\ pc' = "binding"
    /\ \/ Delete("role") /\ UNCHANGED events
       \/ Event /\ UNCHANGED holder
    /\ UNCHANGED <<running, lock, listed, missed, changed>>

(* A subject of the binding is an account with the operator's name.         *)
hasInstanaAgentOperatorSA == holder["binding"] \in Marked

GetBinding ==
    /\ pc = "binding"
    /\ \/ pc' = (IF hasInstanaAgentOperatorSA THEN "deleteBinding" ELSE "elect") /\ UNCHANGED events
       \/ Event /\ pc' = "elect"
    /\ changed' = changed \ {"binding"}
    /\ UNCHANGED <<holder, running, lock, listed, missed>>

DeleteBinding ==
    /\ pc = "deleteBinding"
    /\ pc' = "elect"
    /\ \/ Delete("binding") /\ UNCHANGED events
       \/ Event /\ UNCHANGED holder
    /\ UNCHANGED <<running, lock, listed, missed, changed>>

(* mgr.Start waits for the lock, then runs the controllers.                 *)
Elect ==
    /\ pc = "elect"
    /\ lock[Home] = "free"
    /\ lock' = [lock EXCEPT ![Home] = "new"]
    /\ pc' = "leading"
    /\ UNCHANGED <<holder, running, listed, missed, changed, events>>

(* The process dies or exits with an error anywhere and is started again.   *)
Crash ==
    /\ Event
    /\ pc' = "list" /\ listed' = {} /\ missed' = FALSE /\ changed' = {}
    /\ UNCHANGED <<holder, running, lock>>

cleanupOldOperator ==
    \/ ListDeployments \/ DeleteDeployment \/ DeploymentsDone
    \/ GetRole \/ DeleteRole \/ GetBinding \/ DeleteBinding

ClusterStep == \E n \in Namespaces : OldStops(n) \/ LockExpires(n) \/ OldAcquires(n)

Next ==
    \/ cleanupOldOperator \/ ClientFails \/ Elect \/ Crash
    \/ ClusterStep \/ \E x \in Name : OtherWrites(x)

Spec == Init /\ [][Next]_vars

(* The process runs, pods of deleted Deployments stop, leases of dead pods  *)
(* expire, and a manager that waits takes a lease that stays free.          *)
FairSpec ==
    /\ Spec
    /\ WF_vars(cleanupOldOperator) /\ WF_vars(Elect)
    /\ \A n \in Namespaces : WF_vars(OldStops(n)) /\ WF_vars(LockExpires(n))
-----------------------------------------------------------------------------
(* The names controller-manager, manager-role and manager-rolebinding are   *)
(* common, and others may write them at any time.  An object without the    *)
(* marks falls to the cleanup only in the gap between the check and the     *)
(* Delete of one start: it took the name after this start had read a marked *)
(* one under it.  No earlier start, no failing call and no check of another *)
(* name can cost it.                                                        *)
OthersKept ==
    [][cleanupOldOperator =>
          \A x \in Name : holder[x] = "other" /\ holder'[x] # "other" => x \in changed]_vars

(* The controllers run only while the operator holds the lock of its        *)
(* namespace and with every Deployment of the old operator gone, unless one *)
(* could not be listed or deleted at this start.                            *)
LeadsAlone ==
    pc = "leading" =>
        /\ lock[Home] = "new"
        /\ ~missed => \A n \in Namespaces : holder[n] # "instana"

(* "we do the cleanup beforehand so our new deployment gets the lock": it   *)
(* does for good, unless a Deployment could not be listed or deleted at the *)
(* last start.                                                              *)
GetsTheLock == <>[]~missed => <>[](pc = "leading")
=============================================================================
