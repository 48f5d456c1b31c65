------------------------------ MODULE AgedSteps ------------------------------
(***************************************************************************)
(* AgedExecution carried out by the loops of FiringSteps: what the caller  *)
(* holds changes when fireTransition returns, and only then does the true  *)
(* age of a transition.  Everything NetExecution and AgedExecution say of  *)
(* one step is thereby said of the code's many.                            *)
(***************************************************************************)
EXTENDS AgedExecution

VARIABLES copy, loop, todo, firing

Steps == INSTANCE FiringSteps

StepsVars == <<state, age, copy, loop, todo, firing>>

StepsInit == AgedInit /\ Steps!Init

StepsReturn == /\ Steps!Return
               /\ age' = Abstract!AgesAfter(firing, state'.place)

StepsTimeStep == /\ \A t \in Transitions : age[t] < Horizon
                 /\ Steps!TimeStep
                 /\ age' = Abstract!AgesLater

StepsNext == \/ /\ \/ \E t \in Transitions : Steps!Call(t)
                   \/ Steps!Loops
                /\ UNCHANGED age
             \/ StepsReturn
             \/ StepsTimeStep

StepsSpec == StepsInit /\ [][StepsNext]_StepsVars

(***************************************************************************)
(* For the caller, who keeps the old state and sees only the copy that is  *)
(* returned, the loops of fireTransition are one step of NetExecution,     *)
(* whatever the order of the arcs.                                         *)
(***************************************************************************)
ImplementsAtomicFiring == Spec
=============================================================================
