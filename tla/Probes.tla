-------------------------------- MODULE Probes ---------------------------------
(***************************************************************************)
(* What the checks of the preflight have in common.  A check makes one API *)
(* call after the other; each sees the system as it is at that moment and  *)
(* may fail, and the system may change in between.  The system is the set  *)
(* of facts the calls ask for: a right, an object, a property of one.      *)
(***************************************************************************)
EXTENDS Naturals

CONSTANT
    MaxIncidents    \* bound: changes of the system and failing calls

ASSUME ProbesConstants == MaxIncidents \in Nat

VARIABLES
    facts,      \* what is true now
    incidents,  \* changes and failures so far
    errors,     \* failed calls so far
    ever,       \* facts that have been true at some time of the run
    always      \* facts that have been true all the time

probeVars == <<facts, incidents, errors, ever, always>>

\* The bracket: what a call has seen lies between always and ever.
ProbesTypeOK(F) ==
    /\ facts \subseteq F /\ ever \subseteq F
    /\ always \subseteq facts /\ facts \subseteq ever
    /\ errors \in 0..MaxIncidents /\ incidents \in errors..MaxIncidents

StartWith(S) ==
    /\ facts = S
    /\ ever = S
    /\ always = S
    /\ incidents = 0
    /\ errors = 0

May == incidents < MaxIncidents

\* A right is granted or revoked, an object comes or goes.
Flip(f) ==
    /\ May
    /\ facts' = IF f \in facts THEN facts \ {f} ELSE facts \cup {f}
    /\ ever' = ever \cup facts'
    /\ always' = always \cap facts'
    /\ incidents' = incidents + 1
    /\ UNCHANGED errors

\* A call has returned; it may have failed.
Probed(failing) ==
    /\ errors' = IF failing THEN errors + 1 ELSE errors
    /\ incidents' = IF failing THEN incidents + 1 ELSE incidents
    /\ UNCHANGED <<facts, ever, always>>
===============================================================================
