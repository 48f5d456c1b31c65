------------------------------ MODULE FiringRule ------------------------------
(***************************************************************************)
(* NetState and FiringRule (src/src/IntervalNetState.cpp,                  *)
(* IntervalNetFiringRule.cpp): a net state is a pair of a place marking    *)
(* and a time marking, and the firing rule maps a state to its successors. *)
(* A time marking keeps, for each transition, the time since the           *)
(* transition was enabled or reset, or DisabledTransition.  It is never    *)
(* recomputed from the place marking: firing updates only the neighbours   *)
(* of the places it touched.                                               *)
(***************************************************************************)
EXTENDS IntervalNet

NetStates == [place : Markings, time : [Transitions -> Size]]

\* Variant: one marked input place is taken for all.
CheckSomePlace(t, m) == PresetOf(t) = {} \/ \E p \in PresetOf(t) : m[p] >= 1

CheckPlaceEnabled(t, m) == \A p \in PresetOf(t) : m[p] >= 1

InitialState ==
  [place |-> InitialMarking,
   time  |-> [t \in Transitions |->
                IF CheckPlaceEnabled(t, InitialMarking) THEN 0 ELSE DisabledTransition]]

IsPlaceEnabled(t, s) == s.time[t] # DisabledTransition
IsTimeEnabled(t, s)  == Contains(t, s.time[t])
IsFireable(t, s)     == IsPlaceEnabled(t, s) /\ IsTimeEnabled(t, s)
FireableTransitions(s) == {t \in Transitions : IsFireable(t, s)}
IsBounded(s)         == IsBoundedMarking(s.place)

-----------------------------------------------------------------------------
(***************************************************************************)
(* Firing.  consumeTokens and produceTokens take one token per arc.        *)
(* updateSiblings resets the clock of every transition that shares an      *)
(* input place with t - t itself is one of them - and then switches off    *)
(* those the new marking does not enable.  updateSuccessors starts or      *)
(* stops the consumers of the places t produced on, and leaves a consumer  *)
(* that was enabled and still is alone.                                    *)
(***************************************************************************)
UpdateTokens(t, m) ==
  [p \in Places |-> Plus(Minus(m[p], Incoming[t][p]), Outgoing[t][p])]

\* Variant: the clock starts again although the transition was enabled.
EnableAndRestart(u, m, time) == IF CheckPlaceEnabled(u, m) THEN 0 ELSE DisabledTransition

EnablePostset(u, m, time) ==
  IF CheckPlaceEnabled(u, m)
  THEN IF time[u] = DisabledTransition THEN 0 ELSE time[u]
  ELSE DisabledTransition

UpdateSiblings(t, m, time) ==
  [u \in Transitions |->
     IF \E p \in PresetOf(t) : u \in ConsumersOf(p)
     THEN EnablePostset(u, m, [time EXCEPT ![u] = 0]) ELSE time[u]]

UpdateSuccessors(t, m, time) ==
  [u \in Transitions |->
     IF \E p \in PostsetOf(t) : u \in ConsumersOf(p)
     THEN EnablePostset(u, m, time) ELSE time[u]]

FireTransition(t, s) ==
  LET m == UpdateTokens(t, s.place)
  IN  [place |-> m, time |-> UpdateSuccessors(t, m, UpdateSiblings(t, m, s.time))]

-----------------------------------------------------------------------------
(***************************************************************************)
(* Letting one unit of time pass.  The clock of a transition without       *)
(* latest time stops at the earliest time, which keeps the state space     *)
(* finite.                                                                 *)
(***************************************************************************)
\* Variants: one unit too late, one too soon.
CanStepTooLate(t, s) == IsPlaceEnabled(t, s) => s.time[t] <= MaxTime[t]
CanStepTooSoon(t, s) == IsPlaceEnabled(t, s) => Plus(s.time[t], 1) < MaxTime[t]

CanStep(t, s) == IsPlaceEnabled(t, s) => Plus(s.time[t], 1) <= MaxTime[t]

CanMakeTimeStep(s) == \A t \in Transitions : CanStep(t, s)

Min2(a, b) == IF a <= b THEN a ELSE b

\* Variants: the sentinel counted as a time, the clock without latest time never stopped.
StepSentinel(t, s) ==
  IF IsIntervalBounded(t) THEN s.time[t] + 1 ELSE Min2(s.time[t] + 1, MinTime[t])
StepOn(t, s) == IF IsPlaceEnabled(t, s) THEN Plus(s.time[t], 1) ELSE DisabledTransition

StepClock(t, s) ==
  IF ~ IsPlaceEnabled(t, s) THEN DisabledTransition
  ELSE IF IsIntervalBounded(t) THEN Plus(s.time[t], 1)
       ELSE Min2(Plus(s.time[t], 1), MinTime[t])

MakeTimeStep(s) == [s EXCEPT !.time = [t \in Transitions |-> StepClock(t, s)]]
=============================================================================
