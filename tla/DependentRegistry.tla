-------------------------- MODULE DependentRegistry --------------------------
(***************************************************************************)
(* What the controller and its lifecycle manager promise together, without *)
(* informers, retries, keys or crashes: a registry of dependents under a   *)
(* guard.  Dependents are recorded before they exist, exist only while the *)
(* guard is held, are forgotten only when they are gone, and the guard is  *)
(* released only when none is left.                                        *)
(***************************************************************************)
CONSTANT Object

VARIABLES
    present,    \* dependents that exist
    recorded,   \* dependents the registry lists
    guarded     \* the CR is held back by the finalizer

vars == <<present, recorded, guarded>>

TypeOK == present \subseteq Object /\ recorded \subseteq Object /\ guarded \in BOOLEAN

Init == present = {} /\ recorded = {} /\ guarded = FALSE

Guard   == ~guarded /\ guarded' = TRUE /\ UNCHANGED <<present, recorded>>
Release == guarded /\ present = {} /\ guarded' = FALSE /\ UNCHANGED <<present, recorded>>

(* UpdateDependentLifecycleInfo *)
Record(S) == guarded /\ recorded' = recorded \cup S /\ UNCHANGED <<present, guarded>>

(* ApplyAll *)
Create(o) ==
    /\ guarded /\ o \in recorded
    /\ present' = present \cup {o}
    /\ UNCHANGED <<recorded, guarded>>

Vanish(o) == present' = present \ {o} /\ UNCHANGED <<recorded, guarded>>

(* CleanupDependents, and the garbage collector once the guard is gone *)
Forget(S) ==
    /\ S \cap present = {}
    /\ recorded' = recorded \ S
    /\ UNCHANGED <<present, guarded>>

Next ==
    \/ Guard \/ Release
    \/ \E S \in SUBSET Object : Record(S) \/ Forget(S)
    \/ \E o \in Object : Create(o) \/ Vanish(o)

Spec == Init /\ [][Next]_vars
=============================================================================
