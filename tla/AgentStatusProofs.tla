-------------------------- MODULE AgentStatusProofs ---------------------------
(***************************************************************************)
(* What UpdateAgentStatus promises for every set of workloads, statuses    *)
(* and versions and every bound: the status never goes back, and it tells  *)
(* how the last reconcile ended.                                           *)
(***************************************************************************)
EXTENDS AgentStatus, TLAPS

LEMMA GenFacts == 1 \in Gen /\ 0 \in 0..MaxGen /\ Gen \subseteq 0..MaxGen /\ Gen \subseteq Nat
BY StatusAssumption DEF Gen

LEMMA ConstantValues ==
    /\ NoStatus \in Status /\ NoCR \in CR
    /\ \A o : Absent(o) \in Object
<1>1. NoStatus \in Status
  BY GenFacts DEF NoStatus, Status, NoCondition
<1>2. NoCR \in CR
  BY <1>1, GenFacts DEF NoCR, CR
<1>3. ASSUME NEW o PROVE Absent(o) \in Object
  BY GenFacts DEF Absent, Object, ZeroStatus, ZeroDs, ZeroDep, DsStatus, DepStatus
<1>4. QED
  BY <1>1, <1>2, <1>3

LEMMA EventType == events \in 0..MaxEvents /\ Event => events' \in 0..MaxEvents
BY StatusAssumption DEF Event

LEMMA AppliedType ==
    ASSUME TypeOK, NEW o \in Workload
    PROVE  Applied(o) \in Object
<1>1. objs[o] \in Object /\ old.gen \in 0..MaxGen
  BY GenFacts DEF TypeOK, CR
<1>2. [objs[o].status EXCEPT !.observed = FALSE] \in DsStatus \cup DepStatus
  <2>1. CASE objs[o].status \in DsStatus
    BY <2>1 DEF DsStatus
  <2>2. CASE objs[o].status \in DepStatus
    BY <2>2 DEF DepStatus
  <2>3. QED
    BY <1>1, <2>1, <2>2 DEF Object
<1>3. [exists |-> TRUE, gen |-> old.gen, foreign |-> FALSE,
       status |-> [objs[o].status EXCEPT !.observed = FALSE]] \in Object
  BY <1>1, <1>2 DEF Object
<1>4. QED
  BY <1>1, <1>3, ConstantValues DEF Applied

(* What is computed is a status; the generation and the outcome are those   *)
(* of this reconcile, and the flag is kept.                                 *)
LEMMA UpdatedFacts ==
    ASSUME TypeOK, NEW F
    PROVE  /\ UpdatedStatus(F) \in Status
           /\ UpdatedStatus(F).observed = old.gen
           /\ old.status.oldUpdated => UpdatedStatus(F).oldUpdated
           /\ UpdatedStatus(F).phase = getAgentPhase
           /\ UpdatedStatus(F).conditions["ReconcileSucceeded"] = getReconcileSucceededCondition
<1>1. old.status \in Status /\ old.gen \in 0..MaxGen
  BY GenFacts DEF TypeOK, CR
<1>2. \A s \in {"True", "False", "Unknown"} :
         Cond(s) \in [status: {"none", "True", "False", "Unknown"}, gen: 0..MaxGen]
  BY <1>1 DEF Cond
<1>3. \A b : Truth(b) \in [status: {"none", "True", "False", "Unknown"}, gen: 0..MaxGen]
  BY <1>2 DEF Truth
<1>4. UpdatedConditions(F) \in [Condition -> [status: {"none", "True", "False", "Unknown"}, gen: 0..MaxGen]]
  <2>1. \A c \in Condition : old.status.conditions[c] \in [status: {"none", "True", "False", "Unknown"}, gen: 0..MaxGen]
    BY <1>1 DEF Status
  <2>2. getReconcileSucceededCondition \in [status: {"none", "True", "False", "Unknown"}, gen: 0..MaxGen]
    BY <1>3 DEF getReconcileSucceededCondition
  <2>3. getAllAgentsAvailableCondition(F) \in [status: {"none", "True", "False", "Unknown"}, gen: 0..MaxGen]
    BY <1>2, <1>3 DEF getAllAgentsAvailableCondition
  <2>4. getAllK8sSensorsAvailableCondition \in [status: {"none", "True", "False", "Unknown"}, gen: 0..MaxGen]
    BY <1>2, <1>3 DEF getAllK8sSensorsAvailableCondition
  <2>5. QED
    BY <2>1, <2>2, <2>3, <2>4 DEF UpdatedConditions, Condition
<1>5. getAgentPhase \in {"none", "Running", "Failed"}
  BY DEF getAgentPhase
<1>6. infoKeys \subseteq {"workload", "config", "namespaces"}
  BY DEF infoKeys
<1>7. (old.status.oldUpdated \/ (kind = "agent" /\ updateWasPerformed(old))) \in BOOLEAN
  OBVIOUS
<1>8. UpdatedStatus(F) \in Status
  <2>1. (IF ver \in SemVer THEN ver ELSE old.status.version) \in Version \cup {"none"}
    BY <1>1 DEF TypeOK, Status
  <2>2. (IF infoFails(F) THEN old.status.info ELSE infoKeys) \in SUBSET {"workload", "config", "namespaces"}
    BY <1>1, <1>6 DEF Status
  <2>3. QED
    BY <1>1, <1>4, <1>5, <1>7, <2>1, <2>2 DEF UpdatedStatus, Status
<1>9. UpdatedConditions(F)["ReconcileSucceeded"] = getReconcileSucceededCondition
  BY DEF UpdatedConditions, Condition
<1>10. old.status.oldUpdated => UpdatedStatus(F).oldUpdated
  BY DEF UpdatedStatus
<1>11. QED
  BY <1>8, <1>9, <1>10 DEF UpdatedStatus

LEMMA MergedType ==
    ASSUME NEW s \in Status, NEW a \in Status, NEW b \in Status
    PROVE  /\ Merged(s, a, b) \in Status
           /\ Merged(s, a, b).observed = IF b.observed = a.observed THEN s.observed ELSE b.observed
           /\ Merged(s, a, b).oldUpdated = IF b.oldUpdated = a.oldUpdated THEN s.oldUpdated ELSE b.oldUpdated
           /\ a = s => Merged(s, a, b).phase = b.phase /\ Merged(s, a, b).conditions = b.conditions
BY DEF Merged, Status
-----------------------------------------------------------------------------
LEMMA InitType == Init => TypeOK
<1> SUFFICES ASSUME Init PROVE TypeOK
  OBVIOUS
<1>1. cr \in CR
  BY ConstantValues DEF Init, CR, NoCR
<1>2. objs \in [Workload -> Object]
  BY ConstantValues DEF Init
<1>3. kind \in {"agent", "remote"} /\ ver \in Version /\ events \in 0..MaxEvents
  <2>1. kind \in {"agent", "remote"} /\ ver \in Installed /\ events = 0
    BY DEF Init
  <2>2. QED
    BY <2>1, StatusAssumption
<1>4. QED
  BY <1>1, <1>2, <1>3, ConstantValues DEF Init, TypeOK

(* A patch of the finalizer, failed or not, ends the body of the reconcile. *)
LEMMA PatchFinalizerType ==
    ASSUME TypeOK, NEW c \in CR, PatchFinalizer(c)
    PROVE  /\ cr' \in {cr, c} /\ pc' = "status" /\ events' \in 0..MaxEvents
           /\ outcome' \in {"none", "ok", "failed", "panic"} /\ requeue' \in BOOLEAN
BY EventType DEF PatchFinalizer, EndsBadly, Ends, TypeOK

LEMMA NextType == TypeOK /\ [Next]_vars => TypeOK'
<1> SUFFICES ASSUME TypeOK, [Next]_vars PROVE TypeOK'
  OBVIOUS
<1> USE DEF TypeOK, cacheVars, localVars
<1>1. CASE StartReconcile
  BY <1>1 DEF StartReconcile
<1>2. CASE AddFinalizer
  <2>1. [cr EXCEPT !.finalizer = TRUE] \in CR
    BY DEF CR
  <2>2. QED
    BY <1>2, <2>1, PatchFinalizerType DEF AddFinalizer
<1>3. CASE HandleDeletion
  <2>1. [cr EXCEPT !.exists = FALSE] \in CR
    BY DEF CR
  <2>2. [o \in Workload |-> Absent(o)] \in [Workload -> Object]
    BY ConstantValues
  <2>3. CASE /\ objs' = [o \in Workload |-> Absent(o)]
             /\ PatchFinalizer([cr EXCEPT !.exists = FALSE])
    BY <1>3, <2>1, <2>2, <2>3, PatchFinalizerType DEF HandleDeletion
  <2>4. CASE EndsBadly /\ UNCHANGED <<cr, objs>>
    BY <1>3, <2>4, EventType DEF HandleDeletion, EndsBadly, Ends
  <2>5. QED
    BY <1>3, <2>3, <2>4 DEF HandleDeletion
<1>4. CASE ReconcileApply
  <2>1. UNCHANGED <<kind, ver, cr, cacheVars, queued, old, new, statusErr, patched>>
    BY <1>4 DEF ReconcileApply
  <2>2. /\ pc' = "status" /\ events' \in 0..MaxEvents /\ built' \in BOOLEAN
        /\ outcome' \in {"none", "ok", "failed", "panic"} /\ requeue' \in BOOLEAN
    BY <1>4, EventType DEF ReconcileApply, EndsBadly, Ends
  <2>3. \/ objs' = [o \in Workload |-> Applied(o)] \/ UNCHANGED objs
        \/ \E S \in SUBSET Desired :
              objs' = [o \in Workload |-> IF o \in S THEN Applied(o) ELSE objs[o]]
    BY <1>4 DEF ReconcileApply
  <2>4. objs' \in [Workload -> Object]
    BY <2>3, AppliedType
  <2>5. QED
    BY <2>1, <2>2, <2>4
<1>5. CASE ComputeStatus
  <2>1. PICK F \in SUBSET {"agents", "sensor", "info"} :
          /\ IF F = {} THEN UNCHANGED events ELSE Event
          /\ new' = UpdatedStatus(F)
          /\ statusErr' = (\/ agentKeys # {} /\ agentInfoMissing(F)
                           \/ sensorFails(F)
                           \/ infoFails(F))
    BY <1>5 DEF ComputeStatus
  <2>2. statusErr' \in BOOLEAN
    BY <2>1, Zenon
  <2>3. new' \in Status /\ events' \in 0..MaxEvents
    BY <2>1, UpdatedFacts, EventType
  <2>4. QED
    BY <1>5, <2>2, <2>3 DEF ComputeStatus
<1>6. CASE PatchStatus
  <2>1. \E b : Finish(b)
    BY <1>6 DEF PatchStatus
  <2>2. queued' \in BOOLEAN
    BY <2>1, Zenon DEF Finish
  <2>3. cr' \in CR
    <3>1. cr.status \in Status /\ old.status \in Status
      BY DEF CR
    <3>2. Merged(cr.status, old.status, new) \in Status
      BY <3>1, MergedType
    <3>3. QED
      BY <1>6, <3>2 DEF PatchStatus, CR
  <2>4. patched' \in BOOLEAN /\ events' \in 0..MaxEvents
    BY <1>6, EventType DEF PatchStatus
  <2>5. QED
    BY <2>1, <2>2, <2>3, <2>4, ConstantValues DEF Finish
<1>7. CASE RefreshCR
  <2>1. queued' \in BOOLEAN
    BY <1>7, Zenon DEF RefreshCR
  <2>2. QED
    BY <1>7, <2>1 DEF RefreshCR
<1>8. ASSUME NEW K, RefreshObjects(K) PROVE TypeOK'
  <2>1. queued' \in BOOLEAN
    BY <1>8, Zenon DEF RefreshObjects
  <2>2. seen' \in [Workload -> Object]
    BY <1>8 DEF RefreshObjects
  <2>3. QED
    BY <1>8, <2>1, <2>2 DEF RefreshObjects
<1>9. CASE UserEdit
  <2>1. cr.gen + 1 \in Gen
    BY <1>9, StatusAssumption DEF UserEdit, CR, Gen
  <2>2. cr' \in CR
    BY <1>9, <2>1 DEF UserEdit, CR
  <2>3. QED
    BY <1>9, <2>2 DEF UserEdit
<1>10. CASE UserDelete
  <2>1. cr.gen + 1 \in Gen
    BY <1>10, StatusAssumption DEF UserDelete, CR, Gen
  <2>2. cr' \in CR
    BY <1>10, <2>1 DEF UserDelete, CR
  <2>3. QED
    BY <1>10, <2>2 DEF UserDelete
<1>11. ASSUME NEW o \in Workload, KubeStatus(o) PROVE TypeOK'
  <2>1. PICK s \in DsStatus \cup DepStatus, later \in BOOLEAN :
          objs' = [objs EXCEPT ![o].status = s, ![o].foreign = @ \/ later]
    BY <1>11, StatusAssumption DEF KubeStatus
  <2>2. objs[o] \in Object
    OBVIOUS
  <2>3. (objs[o].foreign \/ later) \in BOOLEAN
    OBVIOUS
  <2>4. objs'[o] = [exists |-> objs[o].exists, gen |-> objs[o].gen, status |-> s,
                    foreign |-> objs[o].foreign \/ later]
    BY <2>1, <2>2 DEF Object
  <2>5. objs'[o] \in Object
    BY <2>1, <2>2, <2>3, <2>4 DEF Object
  <2>6. objs' \in [Workload -> Object]
    BY <2>1, <2>5
  <2>7. QED
    BY <1>11, <2>6, EventType DEF KubeStatus
<1>12. ASSUME NEW v \in Version, Restart(v) PROVE TypeOK'
  <2>1. queued' \in BOOLEAN
    BY <1>12 DEF Restart, CR
  <2>2. QED
    BY <1>12, <2>1, EventType, ConstantValues DEF Restart
<1>13. CASE UNCHANGED vars
  BY <1>13 DEF vars
<1>14. QED
  BY <1>1, <1>2, <1>3, <1>4, <1>5, <1>6, <1>7, <1>8, <1>9, <1>10, <1>11, <1>12, <1>13
  DEF Next, Reconcile, Refresh

(* The status stays well formed: conditions never name a generation that    *)
(* does not exist, the version is one that has run.                         *)
THEOREM TypeCorrect == Spec => []TypeOK
BY InitType, NextType, PTL DEF Spec
-----------------------------------------------------------------------------
(* The copies lag behind the server but never behind what a status has      *)
(* reported, and a computed status reports on the copy it was made from.    *)
Copies ==
    /\ cr.status.observed <= crSeen.gen /\ crSeen.gen <= cr.gen
    /\ pc # "idle" => cr.status.observed <= old.gen /\ old.gen <= crSeen.gen
    /\ pc = "patch" => new.observed = old.gen /\ (old.status.oldUpdated => new.oldUpdated)

LEMMA CRFacts ==
    ASSUME NEW c \in CR
    PROVE  /\ c.gen \in Nat /\ c.status \in Status
           /\ c.status.observed \in Nat /\ c.status.oldUpdated \in BOOLEAN
<1>1. c.gen \in Gen /\ c.status \in Status
  BY DEF CR
<1>2. c.status.observed \in 0..MaxGen /\ c.status.oldUpdated \in BOOLEAN
  BY <1>1 DEF Status
<1>3. QED
  <2>1. MaxGen \in Nat
    BY StatusAssumption
  <2>2. QED
    BY <1>1, <1>2, <2>1 DEF Gen

(* What the actions other than PatchStatus leave alone.                     *)
LEMMA StatusKept ==
    ASSUME TypeOK, [Next]_vars, ~PatchStatus
    PROVE  cr'.status = cr.status /\ cr'.gen >= cr.gen
<1> USE DEF TypeOK
<1>1. cr.gen \in Nat
  BY CRFacts
<1>2. ASSUME NEW c \in CR, PatchFinalizer(c), c.status = cr.status, c.gen = cr.gen
      PROVE  cr'.status = cr.status /\ cr'.gen >= cr.gen
  BY <1>1, <1>2, PatchFinalizerType
<1>3. CASE AddFinalizer
  BY <1>2, <1>3 DEF AddFinalizer, CR
<1>4. CASE HandleDeletion
  <2>1. CASE PatchFinalizer([cr EXCEPT !.exists = FALSE])
    BY <1>2, <2>1 DEF CR
  <2>2. QED
    BY <1>1, <1>4, <2>1 DEF HandleDeletion
<1>5. CASE UserEdit
  BY <1>1, <1>5 DEF UserEdit, CR
<1>6. CASE UserDelete
  BY <1>1, <1>6 DEF UserDelete, CR
<1>7. CASE UNCHANGED cr
  BY <1>1, <1>7
<1>8. QED
  BY <1>3, <1>4, <1>5, <1>6, <1>7
  DEF Next, Reconcile, Refresh, StartReconcile, ReconcileApply, ComputeStatus, RefreshCR,
      RefreshObjects, KubeStatus, Restart, vars

(* The merge of a patch made from any copy Copies allows.                   *)
LEMMA PatchAdvances ==
    ASSUME TypeOK, Copies, PatchStatus
    PROVE  /\ cr'.status.observed >= cr.status.observed
           /\ cr.status.oldUpdated => cr'.status.oldUpdated
           /\ cr'.status.observed <= crSeen.gen /\ cr'.gen = cr.gen
<1>1. /\ cr.status \in Status /\ old.status \in Status /\ new \in Status
      /\ cr.status.observed \in Nat /\ old.gen \in Nat /\ crSeen.gen \in Nat
      /\ cr.status.oldUpdated \in BOOLEAN /\ old.status.oldUpdated \in BOOLEAN /\ new.oldUpdated \in BOOLEAN
  <2>1. cr \in CR /\ old \in CR /\ crSeen \in CR /\ new \in Status
    BY DEF TypeOK
  <2>2. new.oldUpdated \in BOOLEAN
    BY <2>1 DEF Status
  <2>3. QED
    BY <2>1, <2>2, CRFacts
<1>2. pc = "patch"
  BY DEF PatchStatus
<1>3. CASE UNCHANGED cr
  BY <1>1, <1>3 DEF Copies
<1>4. CASE cr' = [cr EXCEPT !.status = Merged(cr.status, old.status, new)]
  <2> DEFINE M == Merged(cr.status, old.status, new)
  <2>1. cr'.status = M /\ cr'.gen = cr.gen
    BY <1>4 DEF TypeOK, CR
  <2>2. M.observed = cr.status.observed \/ M.observed = old.gen
    BY <1>1, <1>2, MergedType DEF Copies
  <2>3. cr.status.oldUpdated => M.oldUpdated
    BY <1>1, <1>2, MergedType DEF Copies
  <2> HIDE DEF M
  <2>4. M.observed >= cr.status.observed /\ M.observed <= crSeen.gen
    BY <1>1, <1>2, <2>2 DEF Copies
  <2>5. QED
    BY <2>1, <2>3, <2>4
<1>5. QED
  BY <1>3, <1>4 DEF PatchStatus

(* How the copies move: into the informer, from there into a reconcile, and *)
(* from there into a computed status.                                       *)
Moves ==
    /\ crSeen' = crSeen \/ (crSeen' = cr /\ cr' = cr)
    /\ \/ pc' = "idle"
       \/ pc = "idle" /\ pc' = "reconcile" /\ old' = crSeen /\ crSeen' = crSeen
       \/ pc # "idle" /\ pc' # "patch" /\ old' = old
       \/ pc = "patch" /\ pc' = "patch" /\ old' = old /\ new' = new
       \/ pc = "status" /\ pc' = "patch" /\ old' = old /\ \E F : new' = UpdatedStatus(F)

LEMMA CopiesMove == ASSUME TypeOK, [Next]_vars, ~PatchStatus PROVE Moves
<1> USE DEF Moves, cacheVars, localVars
<1>1. CASE UNCHANGED <<crSeen, pc, old, new>>
  BY <1>1
<1>2. CASE StartReconcile
  BY <1>2 DEF StartReconcile
<1>3. CASE AddFinalizer \/ HandleDeletion \/ ReconcileApply
  <2>1. pc = "reconcile" /\ pc' = "status" /\ old' = old /\ crSeen' = crSeen
    BY <1>3 DEF AddFinalizer, HandleDeletion, ReconcileApply, PatchFinalizer, EndsBadly, Ends
  <2>2. QED
    BY <2>1
<1>4. CASE ComputeStatus
  BY <1>4 DEF ComputeStatus
<1>5. CASE RefreshCR
  BY <1>5 DEF RefreshCR
<1>6. ASSUME NEW v \in Version, Restart(v) PROVE Moves
  BY <1>6 DEF Restart
<1>7. ASSUME NEW K, RefreshObjects(K) PROVE Moves
  BY <1>1, <1>7 DEF RefreshObjects
<1>8. ASSUME NEW o \in Workload, KubeStatus(o) PROVE Moves
  BY <1>1, <1>8 DEF KubeStatus
<1>9. CASE UserEdit \/ UserDelete \/ UNCHANGED vars
  BY <1>1, <1>9 DEF UserEdit, UserDelete, vars
<1>10. QED
  BY <1>2, <1>3, <1>4, <1>5, <1>6, <1>7, <1>8, <1>9 DEF Next, Reconcile, Refresh

LEMMA InitCopies == Init => Copies
<1> SUFFICES ASSUME Init PROVE Copies
  OBVIOUS
<1>1. cr.status = NoStatus /\ cr.gen = 1 /\ crSeen = cr /\ pc = "idle"
  BY DEF Init, NoCR
<1>2. QED
  BY <1>1 DEF Copies, NoStatus

LEMMA NextCopies == TypeOK /\ Copies /\ [Next]_vars => Copies'
<1> SUFFICES ASSUME TypeOK, Copies, [Next]_vars PROVE Copies'
  OBVIOUS
<1>1. TypeOK'
  BY NextType
<1>2. /\ cr.status.observed \in Nat /\ cr.gen \in Nat /\ crSeen.gen \in Nat /\ old.gen \in Nat
      /\ cr'.status.observed \in Nat /\ cr'.gen \in Nat /\ crSeen'.gen \in Nat /\ old'.gen \in Nat
  <2>1. cr \in CR /\ crSeen \in CR /\ old \in CR /\ cr' \in CR /\ crSeen' \in CR /\ old' \in CR
    BY <1>1 DEF TypeOK
  <2>2. QED
    BY <2>1, CRFacts
<1>3. CASE PatchStatus
  <2>1. crSeen' = crSeen /\ pc' = "idle"
    BY <1>3 DEF PatchStatus, Finish, cacheVars
  <2>2. QED
    BY <1>2, <1>3, <2>1, PatchAdvances DEF Copies
<1>4. CASE ~PatchStatus
  <2>1. cr'.status = cr.status /\ cr'.gen >= cr.gen
    BY <1>4, StatusKept
  <2>2. crSeen' = crSeen \/ (crSeen' = cr /\ cr' = cr)
    BY <1>4, CopiesMove DEF Moves
  <2>3. crSeen'.gen >= crSeen.gen /\ crSeen'.gen <= cr'.gen /\ cr'.status.observed <= crSeen'.gen
    BY <1>2, <2>1, <2>2 DEF Copies
  <2>4. \/ pc' = "idle"
        \/ pc = "idle" /\ pc' = "reconcile" /\ old' = crSeen /\ crSeen' = crSeen
        \/ pc # "idle" /\ pc' # "patch" /\ old' = old
        \/ pc = "patch" /\ pc' = "patch" /\ old' = old /\ new' = new
        \/ pc = "status" /\ pc' = "patch" /\ old' = old /\ \E F : new' = UpdatedStatus(F)
    BY <1>4, CopiesMove DEF Moves
  <2>5. pc' # "idle" => cr'.status.observed <= old'.gen /\ old'.gen <= crSeen'.gen
    BY <1>2, <2>1, <2>3, <2>4 DEF Copies
  <2>6. pc' = "patch" => new'.observed = old'.gen /\ (old'.status.oldUpdated => new'.oldUpdated)
    BY <2>4, UpdatedFacts DEF Copies
  <2>7. QED
    BY <2>3, <2>5, <2>6 DEF Copies
<1>5. QED
  BY <1>3, <1>4

(* Nothing is assumed of the cache: observedGeneration never decreases and  *)
(* oldVersionsUpdated is never taken back, whichever copy of the CR the     *)
(* patch was computed from.                                                 *)
THEOREM StatusAdvancesTheorem == Spec => StatusAdvances
<1>1. TypeOK /\ Copies /\ [Next]_vars
        => [/\ cr'.status.observed >= cr.status.observed
            /\ cr.status.oldUpdated => cr'.status.oldUpdated]_vars
  <2> SUFFICES ASSUME TypeOK, Copies, [Next]_vars
               PROVE  /\ cr'.status.observed >= cr.status.observed
                      /\ cr.status.oldUpdated => cr'.status.oldUpdated
    OBVIOUS
  <2>1. cr.status.observed \in Nat
    BY CRFacts DEF TypeOK
  <2>2. QED
    BY <2>1, PatchAdvances, StatusKept
<1>2. QED
  BY <1>1, InitType, NextType, InitCopies, NextCopies, PTL DEF Spec, StatusAdvances
-----------------------------------------------------------------------------
(* Behind OutcomeReported: where a reconcile starts from the status its     *)
(* predecessor wrote, nothing else writes one until its own patch, so the   *)
(* fields the patch leaves out are right on the server too.  The queue is   *)
(* emptied only by a reconcile, or for a CR the informer knows to be gone.  *)
Carried ==
    /\ StatusSeen
    /\ ~crSeen.exists => ~cr.exists
    /\ pc # "idle" => old.status = cr.status
    /\ pc \in {"status", "patch"} => outcome \in {"ok", "failed", "panic"}
    /\ pc = "patch" => /\ new.phase = getAgentPhase
                       /\ new.conditions["ReconcileSucceeded"] = getReconcileSucceededCondition
    /\ OutcomeReported

LEMMA InitCarried == StatusSeen /\ Init => Carried
BY DEF Init, Carried, OutcomeReported, NoCR

(* Once the body of a reconcile has ended, its outcome stands until the     *)
(* next one ends or the operator restarts, and so does the flag patched.    *)
LEMMA OutcomeStands ==
    ASSUME [Next]_vars, ~PatchStatus
    PROVE  /\ kind' = kind
           /\ pc \in {"idle", "status", "patch"} =>
                (outcome' = outcome /\ patched' = patched) \/ (pc' = "idle" /\ ~patched')
           /\ pc' = "idle" => pc = "idle" \/ ~patched'
<1> USE DEF localVars
<1>1. CASE UNCHANGED <<kind, pc, outcome, patched>>
  BY <1>1
<1>2. CASE StartReconcile
  BY <1>2 DEF StartReconcile
<1>3. CASE AddFinalizer \/ HandleDeletion \/ ReconcileApply
  <2>1. pc = "reconcile" /\ pc' = "status" /\ kind' = kind
    BY <1>3 DEF AddFinalizer, HandleDeletion, ReconcileApply, PatchFinalizer, EndsBadly, Ends
  <2>2. QED
    BY <2>1
<1>4. CASE ComputeStatus
  BY <1>4 DEF ComputeStatus
<1>5. ASSUME NEW v \in Version, Restart(v)
      PROVE  kind' = kind /\ pc' = "idle" /\ ~patched'
  BY <1>5 DEF Restart
<1>6. ASSUME NEW K, RefreshObjects(K) PROVE UNCHANGED <<kind, pc, outcome, patched>>
  BY <1>6 DEF RefreshObjects
<1>7. ASSUME NEW o \in Workload, KubeStatus(o) PROVE UNCHANGED <<kind, pc, outcome, patched>>
  BY <1>7 DEF KubeStatus
<1>8. CASE RefreshCR \/ UserEdit \/ UserDelete \/ UNCHANGED vars
  BY <1>1, <1>8 DEF RefreshCR, UserEdit, UserDelete, vars
<1>9. QED
  BY <1>1, <1>2, <1>3, <1>4, <1>5, <1>6, <1>7, <1>8 DEF Next, Reconcile, Refresh

(* A CR that is gone stays gone.                                            *)
LEMMA GoneStaysGone == ASSUME TypeOK, [Next]_vars, ~cr.exists PROVE ~cr'.exists
<1> USE DEF TypeOK, CR
<1>1. CASE UNCHANGED cr
  BY <1>1
<1>2. CASE AddFinalizer
  BY <1>2 DEF AddFinalizer, PatchFinalizer
<1>3. CASE HandleDeletion
  BY <1>3 DEF HandleDeletion, PatchFinalizer
<1>4. CASE PatchStatus
  BY <1>4 DEF PatchStatus
<1>5. QED
  BY <1>1, <1>2, <1>3, <1>4
  DEF Next, Reconcile, Refresh, StartReconcile, ReconcileApply, ComputeStatus, RefreshCR,
      RefreshObjects, KubeStatus, Restart, UserEdit, UserDelete, vars

(* The copy a reconcile starts with carries the status on the server.       *)
LEMMA StartsFromOwnWrite ==
    ASSUME StatusSeen, [Next]_vars, ~PatchStatus, pc = "idle", pc' # "idle"
    PROVE  old'.status = cr.status
<1>1. CASE StartReconcile
  BY <1>1 DEF StartReconcile, OwnWriteVisible
<1>2. CASE ~StartReconcile
  <2>1. CASE UNCHANGED pc
    BY <2>1
  <2>2. ASSUME NEW v \in Version, Restart(v) PROVE pc' = "idle"
    BY <2>2 DEF Restart
  <2>3. QED
    BY <1>2, <2>1, <2>2
    DEF Next, Reconcile, Refresh, AddFinalizer, HandleDeletion, ReconcileApply, ComputeStatus,
        RefreshCR, RefreshObjects, KubeStatus, UserEdit, UserDelete, vars
<1>3. QED
  BY <1>1, <1>2

(* The body of a reconcile ends in one of three ways.                       *)
LEMMA BodyEnds ==
    ASSUME [Next]_vars, ~PatchStatus, pc' \in {"status", "patch"}
    PROVE  \/ outcome' \in {"ok", "failed", "panic"}
           \/ pc \in {"status", "patch"} /\ outcome' = outcome
<1> USE DEF localVars
<1>1. CASE UNCHANGED <<pc, outcome>>
  BY <1>1
<1>2. CASE AddFinalizer \/ HandleDeletion \/ ReconcileApply
  BY <1>2 DEF AddFinalizer, HandleDeletion, ReconcileApply, PatchFinalizer, EndsBadly, Ends
<1>3. CASE ComputeStatus
  BY <1>3 DEF ComputeStatus
<1>4. CASE StartReconcile
  BY <1>1, <1>4 DEF StartReconcile
<1>5. ASSUME NEW v \in Version, Restart(v) PROVE pc' = "idle"
  BY <1>5 DEF Restart
<1>6. ASSUME NEW K, RefreshObjects(K) PROVE UNCHANGED <<pc, outcome>>
  BY <1>6 DEF RefreshObjects
<1>7. ASSUME NEW o \in Workload, KubeStatus(o) PROVE UNCHANGED <<pc, outcome>>
  BY <1>7 DEF KubeStatus
<1>8. CASE RefreshCR \/ UserEdit \/ UserDelete \/ UNCHANGED vars
  BY <1>1, <1>8 DEF RefreshCR, UserEdit, UserDelete, vars
<1>9. QED
  BY <1>1, <1>2, <1>3, <1>4, <1>5, <1>6, <1>7, <1>8 DEF Next, Reconcile, Refresh

(* A queued CR stays queued between reconciles, except that a restart finds *)
(* its queue anew and that a CR known to be gone is dropped.                *)
LEMMA QueueStands ==
    ASSUME [Next]_vars, pc = "idle", pc' = "idle", queued
    PROVE  queued' \/ ~patched' \/ ~crSeen.exists
<1>1. CASE UNCHANGED queued
  BY <1>1
<1>2. CASE StartReconcile
  BY <1>2 DEF StartReconcile
<1>3. CASE RefreshCR
  BY <1>3 DEF RefreshCR
<1>4. ASSUME NEW K, RefreshObjects(K) PROVE queued'
  BY <1>4 DEF RefreshObjects
<1>5. ASSUME NEW v \in Version, Restart(v) PROVE ~patched'
  BY <1>5 DEF Restart
<1>6. ASSUME NEW o \in Workload, KubeStatus(o) PROVE UNCHANGED queued
  BY <1>6 DEF KubeStatus
<1>7. CASE UserEdit \/ UserDelete \/ UNCHANGED vars
  BY <1>1, <1>7 DEF UserEdit, UserDelete, vars
<1>8. QED
  BY <1>1, <1>2, <1>3, <1>4, <1>5, <1>6, <1>7
  DEF Next, Reconcile, Refresh, AddFinalizer, HandleDeletion, ReconcileApply, ComputeStatus, PatchStatus

LEMMA PatchReports == ASSUME TypeOK, Carried, PatchStatus PROVE Carried'
<1>1. pc = "patch" /\ pc' = "idle" /\ outcome' = outcome /\ kind' = kind /\ crSeen' = crSeen
  BY DEF PatchStatus, Finish, cacheVars
<1>0. ~crSeen'.exists => ~cr'.exists
  BY <1>1, GoneStaysGone DEF Carried, Next, Reconcile
<1>2. CASE patched'
  <2>1. cr' = [cr EXCEPT !.status = Merged(cr.status, old.status, new)]
    BY <1>2 DEF PatchStatus
  <2>2. cr.status \in Status /\ old.status = cr.status /\ new \in Status
    BY <1>1 DEF TypeOK, CR, Carried
  <2>3. cr'.status.phase = new.phase /\ cr'.status.conditions = new.conditions
    <3>1. cr'.status = Merged(cr.status, old.status, new)
      BY <2>1 DEF TypeOK, CR
    <3>2. QED
      BY <3>1, <2>2, MergedType
  <2>4. /\ cr'.status.phase = getAgentPhase
        /\ cr'.status.conditions["ReconcileSucceeded"].status = IF outcome = "failed" THEN "False" ELSE "True"
    BY <1>1, <2>3 DEF Carried, getReconcileSucceededCondition, Truth, Cond, Reported
  <2>5. outcome \in {"ok", "failed", "panic"} /\ (outcome # "ok" => queued')
    BY <1>1 DEF Carried, PatchStatus, Finish
  <2>6. OutcomeReported'
    BY <1>1, <2>4, <2>5 DEF OutcomeReported, Is, getAgentPhase, Reported
  <2>7. QED
    BY <1>0, <1>1, <2>6 DEF Carried
<1>3. CASE ~patched'
  BY <1>0, <1>1, <1>3 DEF Carried, OutcomeReported
<1>4. QED
  BY <1>2, <1>3

LEMMA NextCarried == TypeOK /\ Carried /\ [Next]_vars => Carried'
<1> SUFFICES ASSUME TypeOK, Carried, [Next]_vars, ~PatchStatus PROVE Carried'
  BY PatchReports
<1>1. cr'.status = cr.status
  BY StatusKept
<1>2. pc' # "idle" => old'.status = cr'.status
  <2>1. CASE pc = "idle"
    BY <1>1, <2>1, StartsFromOwnWrite DEF Carried
  <2>2. CASE pc # "idle"
    BY <1>1, <2>2, CopiesMove DEF Moves, Carried
  <2>3. QED
    BY <2>1, <2>2
<1>3. ASSUME pc' = "patch"
      PROVE  /\ new'.phase = getAgentPhase'
             /\ new'.conditions["ReconcileSucceeded"] = getReconcileSucceededCondition'
  <2>1. /\ pc \in {"status", "patch"} /\ old' = old
        /\ (pc = "patch" /\ new' = new) \/ \E F : new' = UpdatedStatus(F)
    BY <1>3, CopiesMove DEF Moves
  <2>2. outcome' = outcome /\ kind' = kind
    BY <1>3, <2>1, OutcomeStands
  <2>3. getAgentPhase' = getAgentPhase /\ getReconcileSucceededCondition' = getReconcileSucceededCondition
    BY <2>1, <2>2 DEF getAgentPhase, getReconcileSucceededCondition, Truth, Cond, Reported
  <2>4. QED
    BY <2>1, <2>3, UpdatedFacts DEF Carried
<1>4. OutcomeReported'
  <2> SUFFICES ASSUME pc' = "idle", patched', cr'.exists PROVE OutcomeReported'
    BY DEF OutcomeReported
  <2>1. pc = "idle" /\ outcome' = outcome /\ patched /\ kind' = kind
    BY OutcomeStands
  <2>2. cr.exists /\ crSeen.exists
    BY GoneStaysGone DEF Carried
  <2>3. queued => queued'
    BY <2>1, <2>2, QueueStands
  <2>4. QED
    BY <1>1, <2>1, <2>2, <2>3 DEF Carried, OutcomeReported, Is
<1>5. ~crSeen'.exists => ~cr'.exists
  BY CopiesMove, GoneStaysGone DEF Moves, Carried
<1>6. pc' \in {"status", "patch"} => outcome' \in {"ok", "failed", "panic"}
  BY BodyEnds DEF Carried
<1>7. QED
  BY <1>2, <1>3, <1>4, <1>5, <1>6 DEF Carried

(* Where a reconcile sees the status its predecessor wrote, a status that   *)
(* arrived tells whether that reconcile failed, and one that was written in *)
(* a panic is followed by another reconcile, for every number of workloads, *)
(* versions and failures.                                                   *)
THEOREM OutcomeReportedTheorem == StatusSeen /\ Spec => []OutcomeReported
<1>1. Carried => OutcomeReported
  BY DEF Carried
<1>2. QED
  BY <1>1, InitType, NextType, InitCarried, NextCarried, PTL DEF Spec
=============================================================================
