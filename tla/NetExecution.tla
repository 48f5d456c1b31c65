----------------------------- MODULE NetExecution -----------------------------
(***************************************************************************)
(* The runs of an interval net under the firing rule, driven as every      *)
(* caller in the repository drives it: from the initial state, firing      *)
(* transitions that are fireable and making time steps that every          *)
(* transition allows, and going no further once a place is beyond its      *)
(* bound (ConstructBehavior::handleNetState,                               *)
(* ConstructClosureAutomaton::handleSuccessors).  The initial state is     *)
(* expanded without that check.                                            *)
(***************************************************************************)
EXTENDS FiringRule

VARIABLE state
vars == <<state>>

Init == state = InitialState

IsExpanded(s) == IsBounded(s) \/ s = InitialState

Fire(t) == /\ IsExpanded(state)
           /\ IsFireable(t, state)
           /\ state' = FireTransition(t, state)

TimeStep == /\ IsExpanded(state)
            /\ CanMakeTimeStep(state)
            /\ state' = MakeTimeStep(state)

Next == (\E t \in Transitions : Fire(t)) \/ TimeStep

Spec == Init /\ [][Next]_vars

-----------------------------------------------------------------------------
\* The state is a NetState: tokens and clocks are size_t values.
TypeOK == state \in NetStates

(***************************************************************************)
(* The time marking doubles as the record of which transitions are         *)
(* enabled.  The incremental updates of updateSiblings and                 *)
(* updateSuccessors must keep it in step with the tokens for EVERY         *)
(* transition, the ones they never visit included; buildClosureRecurse     *)
(* asserts one half of it (line 291).                                      *)
(***************************************************************************)
ClockMatchesTokens ==
  \A t \in Transitions : IsPlaceEnabled(t, state) <=> CheckPlaceEnabled(t, state.place)

(***************************************************************************)
(* No enabled transition is ever older than its latest time, which         *)
(* NetState::canMakeTimeStep asserts, and the clock of a transition        *)
(* without latest time never passes its earliest time.                     *)
(***************************************************************************)
ClockWithinInterval ==
  \A t \in Transitions : IsPlaceEnabled(t, state) =>
     IF IsIntervalBounded(t) THEN state.time[t] <= MaxTime[t]
                             ELSE state.time[t] <= MinTime[t]

(***************************************************************************)
(* Time is never blocked without reason: a transition that forbids the     *)
(* next time step can fire now.  Otherwise the net state would be a        *)
(* timelock, and every construction over it a dead end.  The transitions   *)
(* the maximal partner adds can always fire, so it has to be the blocking  *)
(* transition itself.                                                      *)
(***************************************************************************)
NoTimelock == \A t \in Transitions : CanStep(t, state) \/ IsFireable(t, state)

(***************************************************************************)
(* The assertion of FiringRule::consumeTokens (line 211): a fireable       *)
(* transition finds a token for each of its arcs.                          *)
(***************************************************************************)
TokensCovered ==
  \A t \in FireableTransitions(state), p \in Places : state.place[p] >= Incoming[t][p]

(***************************************************************************)
(* A step never moves the clock of a transition that stays enabled except  *)
(* to restart it because it shares an input place with what fired: firing  *)
(* elsewhere, however it touches the transition's other places, costs the  *)
(* transition nothing.                                                     *)
(***************************************************************************)
ClockSurvives ==
  [][\A t, u \in Transitions :
        (/\ Fire(t)
         /\ IsPlaceEnabled(u, state) /\ CheckPlaceEnabled(u, state'.place)
         /\ PresetOf(t) \cap PresetOf(u) = {})
        => state'.time[u] = state.time[u]]_vars
=============================================================================
