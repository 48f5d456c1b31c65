---------------------------- MODULE AgedExecution ----------------------------
(***************************************************************************)
(* NetExecution with a history variable: the true age of every transition, *)
(* which the code throws away when it stops the clock of a transition      *)
(* without latest time.  Through it the firing rule is shown to implement  *)
(* TimePetriNet, so that stopping clocks, marking disabled transitions     *)
(* with a sentinel and updating only neighbours are invisible.             *)
(***************************************************************************)
EXTENDS NetExecution

CONSTANT Horizon    \* time steps are explored up to this age
VARIABLE age

Abstract == INSTANCE TimePetriNet WITH marking <- state.place

AgedVars == <<state, age>>

AgedInit == Init /\ age = [t \in Transitions |-> 0]

AgedFire(t) == /\ Fire(t)
               /\ age' = Abstract!AgesAfter(t, state'.place)

AgedTimeStep == /\ \A t \in Transitions : age[t] < Horizon
                /\ TimeStep
                /\ age' = Abstract!AgesLater

AgedNext == (\E t \in Transitions : AgedFire(t)) \/ AgedTimeStep

AgedSpec == AgedInit /\ [][AgedNext]_AgedVars

(***************************************************************************)
(* A transition without input places keeps its clock when it fires,        *)
(* because updateSiblings reaches a transition only through a place.  The  *)
(* ones ConstructMaximalNet adds may fire at any age, so that nobody can   *)
(* tell; a net file could hold another one.                                *)
(***************************************************************************)
SourcesAnytime ==
  \A t \in Transitions : PresetOf(t) = {} => MinTime[t] = 0 /\ ~ IsIntervalBounded(t)

-----------------------------------------------------------------------------
(***************************************************************************)
(* The clock the code keeps is the true age, stopped at the earliest time  *)
(* where no latest time exists, and the sentinel where the marking does    *)
(* not enable the transition.                                              *)
(***************************************************************************)
ClockOf(t) ==
  IF ~ Abstract!Enabled(t, state.place) THEN DisabledTransition
  ELSE IF IsIntervalBounded(t) THEN age[t] ELSE Min2(age[t], MinTime[t])

ClockIsAge == \A t \in Transitions : state.time[t] = ClockOf(t)

(***************************************************************************)
(* The firing rule implements the abstract time Petri net: the transitions *)
(* it fires and the time it lets pass are the ones the true ages allow.    *)
(***************************************************************************)
ImplementsTimePetriNet == Abstract!Spec

\* And it allows all of them: no firing and no time step of the net is missed.
MissesNothing ==
  IsExpanded(state) =>
    /\ \A t \in Transitions :
         (Abstract!Enabled(t, state.place) /\ Contains(t, age[t])) => IsFireable(t, state)
    /\ (\A t \in Transitions : (Abstract!Enabled(t, state.place) /\ IsIntervalBounded(t))
                                  => age[t] + 1 <= MaxTime[t])
          => CanMakeTimeStep(state)
=============================================================================
