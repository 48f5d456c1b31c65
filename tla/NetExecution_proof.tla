-------------------------- MODULE NetExecution_proof --------------------------
(***************************************************************************)
(* Proofs that the firing rule keeps clocks and tokens consistent, for     *)
(* every net.  The inductive invariant is the conjunction of the type, of  *)
(* ClockMatchesTokens and of ClockWithinInterval: a time step keeps the    *)
(* sentinel apart from real clocks only because real clocks stay inside    *)
(* their intervals.  With the true ages as history the firing rule then    *)
(* implements the time Petri net TimePetriNet; and the loops of            *)
(* FiringSteps, arc by arc, are for the caller one step of the firing      *)
(* rule, because what they have made of the copy at any time depends only  *)
(* on the arcs visited, not on their order.                                *)
(***************************************************************************)
EXTENDS AgedSteps, TLAPS

IInv == TypeOK /\ ClockMatchesTokens /\ ClockWithinInterval

\* size_t arithmetic stays in size_t, and adding or taking nothing changes nothing.
LEMMA SizeArithmetic ==
  \A a, b \in Size : /\ Plus(a, b) \in Size
                     /\ Minus(a, b) \in Size
                     /\ Plus(a, 0) = a
                     /\ Minus(a, 0) = a
  BY SizeAssumption DEF Size, Plus, Minus

\* Firing yields a place marking again.
LEMMA UpdateTokensType ==
  ASSUME NEW t \in Transitions, NEW m \in Markings
  PROVE  UpdateTokens(t, m) \in Markings
  BY SizeArithmetic, ArcAssumption DEF UpdateTokens, Markings

\* A transition none of whose input places t touches is enabled after t fires
\* exactly when it was before.
LEMMA UntouchedEnabled ==
  ASSUME NEW t \in Transitions, NEW u \in Transitions, NEW m \in Markings,
         ~ \E p \in PresetOf(t) : u \in ConsumersOf(p),
         ~ \E p \in PostsetOf(t) : u \in ConsumersOf(p)
  PROVE  CheckPlaceEnabled(u, UpdateTokens(t, m)) <=> CheckPlaceEnabled(u, m)
<1>1. ASSUME NEW p \in PresetOf(u)
      PROVE  UpdateTokens(t, m)[p] = m[p]
  <2>1. p \in Places /\ u \in ConsumersOf(p)
    BY DEF PresetOf, ConsumersOf
  <2>2. Incoming[t][p] \in Size /\ Outgoing[t][p] \in Size /\ m[p] \in Size
    BY <2>1, ArcAssumption DEF Markings
  <2>3. ~(Incoming[t][p] > 0) /\ ~(Outgoing[t][p] > 0)
    BY <2>1 DEF PresetOf, PostsetOf
  <2>4. Incoming[t][p] = 0 /\ Outgoing[t][p] = 0
    BY <2>2, <2>3, SizeAssumption DEF Size
  <2>5. Plus(Minus(m[p], 0), 0) = m[p]
    BY <2>2, SizeArithmetic
  <2> QED
    BY <2>1, <2>4, <2>5 DEF UpdateTokens
<1> QED
  BY <1>1 DEF CheckPlaceEnabled

\* The clock of u after t has fired: it restarts, runs on or is switched off.
LEMMA ClockAfterFire ==
  ASSUME NEW t \in Transitions, NEW u \in Transitions, NEW s \in NetStates,
         IsPlaceEnabled(u, s) <=> CheckPlaceEnabled(u, s.place)
  PROVE  FireTransition(t, s).time[u] =
           IF ~ CheckPlaceEnabled(u, FireTransition(t, s).place) THEN DisabledTransition
           ELSE IF ~ IsPlaceEnabled(u, s) THEN 0
           ELSE IF \E p \in PresetOf(t) : u \in ConsumersOf(p) THEN 0
           ELSE s.time[u]
<1> DEFINE m == UpdateTokens(t, s.place)
           sib == UpdateSiblings(t, m, s.time)
           n == FireTransition(t, s)
<1>1. n.place = m /\ n.time = UpdateSuccessors(t, m, sib)
  BY DEF FireTransition
<1>2. DisabledTransition # 0
  BY SizeAssumption DEF DisabledTransition
<1>3. s.time \in [Transitions -> Size] /\ s.place \in Markings
  BY DEF NetStates
<1>4. [s.time EXCEPT ![u] = 0][u] = 0
  BY <1>3
<1>5. sib[u] = IF \E p \in PresetOf(t) : u \in ConsumersOf(p)
               THEN IF CheckPlaceEnabled(u, m) THEN 0 ELSE DisabledTransition
               ELSE s.time[u]
  BY <1>2, <1>4 DEF UpdateSiblings, EnablePostset
<1>6. n.time[u] = IF \E p \in PostsetOf(t) : u \in ConsumersOf(p)
                  THEN IF CheckPlaceEnabled(u, m)
                       THEN IF sib[u] = DisabledTransition THEN 0 ELSE sib[u]
                       ELSE DisabledTransition
                  ELSE sib[u]
  BY <1>1 DEF UpdateSuccessors, EnablePostset
<1>7. CASE \E p \in PresetOf(t) : u \in ConsumersOf(p)
  <2> QED BY <1>1, <1>2, <1>5, <1>6, <1>7
<1>8. CASE /\ ~ \E p \in PresetOf(t) : u \in ConsumersOf(p)
           /\ \E p \in PostsetOf(t) : u \in ConsumersOf(p)
  <2> QED BY <1>1, <1>2, <1>5, <1>6, <1>8 DEF IsPlaceEnabled
<1>9. CASE /\ ~ \E p \in PresetOf(t) : u \in ConsumersOf(p)
           /\ ~ \E p \in PostsetOf(t) : u \in ConsumersOf(p)
  <2>1. CheckPlaceEnabled(u, m) <=> CheckPlaceEnabled(u, s.place)
    BY <1>3, <1>9, UntouchedEnabled
  <2> QED BY <1>1, <1>5, <1>6, <1>9, <2>1 DEF IsPlaceEnabled
<1> QED
  BY <1>7, <1>8, <1>9

\* The clock of u after a time step that every transition allows.
LEMMA ClockAfterStep ==
  ASSUME NEW u \in Transitions, NEW s \in NetStates, CanMakeTimeStep(s),
         IsPlaceEnabled(u, s) =>
            IF IsIntervalBounded(u) THEN s.time[u] <= MaxTime[u] ELSE s.time[u] <= MinTime[u]
  PROVE  /\ StepClock(u, s) \in Size
         /\ StepClock(u, s) # DisabledTransition <=> IsPlaceEnabled(u, s)
         /\ IsPlaceEnabled(u, s) =>
              IF IsIntervalBounded(u) THEN StepClock(u, s) <= MaxTime[u]
                                      ELSE StepClock(u, s) <= MinTime[u]
<1>1. /\ s.time[u] \in Size /\ MinTime[u] \in Size /\ MaxTime[u] \in Size
      /\ MinTime[u] <= MaxTime[u] /\ MinTime[u] < MaxSize
  BY IntervalAssumption DEF NetStates, Infinity
<1>2. IsPlaceEnabled(u, s) => Plus(s.time[u], 1) <= MaxTime[u]
  BY DEF CanMakeTimeStep, CanStep
<1>3. CASE ~ IsPlaceEnabled(u, s)
  BY <1>3, SizeAssumption DEF StepClock, DisabledTransition, Size
<1>4. CASE IsPlaceEnabled(u, s) /\ IsIntervalBounded(u)
  <2>1. StepClock(u, s) = Plus(s.time[u], 1)
    BY <1>4 DEF StepClock
  <2>2. s.time[u] <= MaxTime[u] /\ MaxTime[u] # MaxSize
    BY <1>4 DEF IsIntervalBounded, Infinity
  <2> QED
    BY <1>1, <1>2, <1>4, <2>1, <2>2, SizeAssumption
       DEF Plus, Size, DisabledTransition
<1>5. CASE IsPlaceEnabled(u, s) /\ ~ IsIntervalBounded(u)
  <2>1. StepClock(u, s) = Min2(Plus(s.time[u], 1), MinTime[u])
    BY <1>5 DEF StepClock
  <2> QED
    BY <1>1, <1>5, <2>1, SizeAssumption
       DEF Plus, Size, DisabledTransition, Min2
<1> QED
  BY <1>3, <1>4, <1>5

\* createInitialState establishes the inductive invariant.
LEMMA InitIInv == Init => IInv
<1> SUFFICES ASSUME Init PROVE IInv
  OBVIOUS
<1>1. /\ state.place = InitialMarking
      /\ \A t \in Transitions :
            state.time[t] = IF CheckPlaceEnabled(t, InitialMarking) THEN 0 ELSE DisabledTransition
  BY DEF Init, InitialState
<1>2. TypeOK
  BY SizeAssumption, MarkingAssumption
     DEF TypeOK, Init, InitialState, NetStates, Size, DisabledTransition
<1>3. ClockMatchesTokens
  BY <1>1, SizeAssumption DEF ClockMatchesTokens, IsPlaceEnabled, DisabledTransition
<1>4. ClockWithinInterval
  BY <1>1, SizeAssumption, IntervalAssumption
     DEF ClockWithinInterval, IsPlaceEnabled, DisabledTransition, Size
<1> QED
  BY <1>2, <1>3, <1>4 DEF IInv

\* fireTransition preserves it, for the neighbours of t and for all the others.
LEMMA FireIInv ==
  ASSUME IInv, NEW t \in Transitions, Fire(t)
  PROVE  IInv'
<1> DEFINE n == FireTransition(t, state)
<1>1. state \in NetStates /\ state.place \in Markings
  BY DEF IInv, TypeOK, NetStates
<1>2. state' = n
  BY DEF Fire
<1>3. \A u \in Transitions : IsPlaceEnabled(u, state) <=> CheckPlaceEnabled(u, state.place)
  BY DEF IInv, ClockMatchesTokens
<1>4. \A u \in Transitions :
        n.time[u] = IF ~ CheckPlaceEnabled(u, n.place) THEN DisabledTransition
                    ELSE IF ~ IsPlaceEnabled(u, state) THEN 0
                    ELSE IF \E p \in PresetOf(t) : u \in ConsumersOf(p) THEN 0
                    ELSE state.time[u]
  BY <1>1, <1>3, ClockAfterFire
<1>5. TypeOK'
  <2>1. n.place \in Markings
    BY <1>1, UpdateTokensType DEF FireTransition
  <2>2. \A u \in Transitions : n.time[u] \in Size
    BY <1>1, <1>4, SizeAssumption DEF NetStates, Size, DisabledTransition
  <2>3. /\ n = [place |-> n.place, time |-> n.time]
        /\ n.time = [u \in Transitions |-> n.time[u]]
    BY DEF FireTransition, UpdateSuccessors
  <2> HIDE DEF n
  <2> QED
    BY <1>2, <2>1, <2>2, <2>3 DEF TypeOK, NetStates
<1>6. ClockMatchesTokens'
  <2> SUFFICES ASSUME NEW u \in Transitions
               PROVE  n.time[u] # DisabledTransition <=> CheckPlaceEnabled(u, n.place)
    BY <1>2 DEF ClockMatchesTokens, IsPlaceEnabled
  <2> QED
    BY <1>4, SizeAssumption DEF IsPlaceEnabled, DisabledTransition
<1>7. ClockWithinInterval'
  <2> SUFFICES ASSUME NEW u \in Transitions, n.time[u] # DisabledTransition
               PROVE  IF IsIntervalBounded(u) THEN n.time[u] <= MaxTime[u]
                                              ELSE n.time[u] <= MinTime[u]
    BY <1>2 DEF ClockWithinInterval, IsPlaceEnabled
  <2>1. n.time[u] = 0 \/ (IsPlaceEnabled(u, state) /\ n.time[u] = state.time[u])
    BY <1>4
  <2>2. 0 <= MaxTime[u] /\ 0 <= MinTime[u]
    BY IntervalAssumption, SizeAssumption DEF Size
  <2> HIDE DEF n
  <2> QED
    BY <2>1, <2>2 DEF IInv, ClockWithinInterval
<1> QED
  BY <1>5, <1>6, <1>7 DEF IInv

\* makeTimeStep preserves it.
LEMMA TimeStepIInv ==
  ASSUME IInv, TimeStep
  PROVE  IInv'
<1>1. state \in NetStates /\ CanMakeTimeStep(state)
  BY DEF IInv, TypeOK, TimeStep
<1>2. /\ state'.place = state.place
      /\ \A u \in Transitions : state'.time[u] = StepClock(u, state)
      /\ state' = [place |-> state.place, time |-> [u \in Transitions |-> StepClock(u, state)]]
  BY <1>1 DEF TimeStep, MakeTimeStep, NetStates
<1>3. ASSUME NEW u \in Transitions
      PROVE  /\ StepClock(u, state) \in Size
             /\ StepClock(u, state) # DisabledTransition <=> IsPlaceEnabled(u, state)
             /\ IsPlaceEnabled(u, state) =>
                  IF IsIntervalBounded(u) THEN StepClock(u, state) <= MaxTime[u]
                                          ELSE StepClock(u, state) <= MinTime[u]
  BY <1>1, ClockAfterStep DEF IInv, ClockWithinInterval
<1>4. TypeOK'
  BY <1>1, <1>2, <1>3 DEF TypeOK, NetStates
<1>5. ClockMatchesTokens'
  BY <1>2, <1>3 DEF IInv, ClockMatchesTokens, IsPlaceEnabled
<1>6. ClockWithinInterval'
  BY <1>2, <1>3 DEF ClockWithinInterval, IsPlaceEnabled
<1> QED
  BY <1>4, <1>5, <1>6 DEF IInv

\* The inductive invariant holds in every state of every run of every net.
THEOREM Consistent == Spec => []IInv
<1>1. Init => IInv
  BY InitIInv
<1>2. IInv /\ [Next]_vars => IInv'
  <2> SUFFICES ASSUME IInv, [Next]_vars PROVE IInv'
    OBVIOUS
  <2>1. ASSUME NEW t \in Transitions, Fire(t) PROVE IInv'
    BY <2>1, FireIInv
  <2>2. CASE TimeStep
    BY <2>2, TimeStepIInv
  <2>3. CASE UNCHANGED vars
    BY <2>3 DEF vars, IInv, TypeOK, ClockMatchesTokens, ClockWithinInterval
  <2> QED
    BY <2>1, <2>2, <2>3 DEF Next
<1> QED
  BY <1>1, <1>2, PTL DEF Spec

\* Tokens and clocks are size_t values for ever.
THEOREM TypeCorrect == Spec => []TypeOK
<1>1. IInv => TypeOK
  BY DEF IInv
<1> QED
  BY <1>1, Consistent, PTL

\* The time marking and the place marking always agree on what is enabled,
\* although FiringRule only ever updates the neighbours of what fired.
THEOREM ClocksMatchTokens == Spec => []ClockMatchesTokens
<1>1. IInv => ClockMatchesTokens
  BY DEF IInv
<1> QED
  BY <1>1, Consistent, PTL

\* The assertion in NetState::canMakeTimeStep never fails.
THEOREM ClocksWithinIntervals == Spec => []ClockWithinInterval
<1>1. IInv => ClockWithinInterval
  BY DEF IInv
<1> QED
  BY <1>1, Consistent, PTL

\* A transition that blocks time can fire.
THEOREM TimeNeverStuck == Spec => []NoTimelock
<1>1. IInv => NoTimelock
  <2> SUFFICES ASSUME IInv, NEW t \in Transitions, ~ CanStep(t, state)
               PROVE  IsFireable(t, state)
    BY DEF NoTimelock
  <2>1. IsPlaceEnabled(t, state) /\ ~(Plus(state.time[t], 1) <= MaxTime[t])
    BY DEF CanStep
  <2>2. /\ state.time[t] \in Size /\ MinTime[t] \in Size /\ MaxTime[t] \in Size
        /\ MinTime[t] <= MaxTime[t]
    BY IntervalAssumption DEF IInv, TypeOK, NetStates
  <2>3. IF IsIntervalBounded(t) THEN state.time[t] <= MaxTime[t]
                                ELSE state.time[t] <= MinTime[t]
    BY <2>1 DEF IInv, ClockWithinInterval
  <2>4. CASE IsIntervalBounded(t)
    BY <2>1, <2>2, <2>3, <2>4, SizeAssumption
       DEF Plus, Size, IsFireable, IsTimeEnabled, Contains, IsIntervalBounded, Infinity
  <2>5. CASE ~ IsIntervalBounded(t)
    BY <2>1, <2>2, <2>3, <2>5, SizeAssumption
       DEF Plus, Size, IsIntervalBounded, Infinity
  <2> QED
    BY <2>4, <2>5
<1> QED
  BY <1>1, Consistent, PTL

\* In a net without doubled arcs the assertion of FiringRule::consumeTokens never fails.
THEOREM ConsumptionCovered == SingleArcs => (Spec => []TokensCovered)
<1> SUFFICES ASSUME SingleArcs PROVE Spec => []TokensCovered
  OBVIOUS
<1>1. IInv => TokensCovered
  <2> SUFFICES ASSUME IInv, NEW t \in FireableTransitions(state), NEW p \in Places
               PROVE  state.place[p] >= Incoming[t][p]
    BY DEF TokensCovered
  <2>1. t \in Transitions /\ CheckPlaceEnabled(t, state.place)
    BY DEF IInv, ClockMatchesTokens, FireableTransitions, IsFireable
  <2>2. Incoming[t][p] \in Size /\ state.place[p] \in Size /\ Incoming[t][p] <= 1
    BY <2>1, ArcAssumption DEF SingleArcs, IInv, TypeOK, NetStates, Markings
  <2>3. Incoming[t][p] > 0 => state.place[p] >= 1
    BY <2>1 DEF CheckPlaceEnabled, PresetOf
  <2> QED
    BY <2>2, <2>3, SizeAssumption DEF Size
<1> QED
  BY <1>1, Consistent, PTL

\* A transition that stays enabled and shares no input place with what fires keeps its clock.
THEOREM ClocksSurvive == Spec => ClockSurvives
<1>1. IInv /\ [Next]_vars =>
        [\A t, u \in Transitions :
            (/\ Fire(t)
             /\ IsPlaceEnabled(u, state) /\ CheckPlaceEnabled(u, state'.place)
             /\ PresetOf(t) \cap PresetOf(u) = {})
            => state'.time[u] = state.time[u]]_vars
  <2> SUFFICES ASSUME IInv, NEW t \in Transitions, NEW u \in Transitions, Fire(t),
                      IsPlaceEnabled(u, state), CheckPlaceEnabled(u, state'.place),
                      PresetOf(t) \cap PresetOf(u) = {}
               PROVE  state'.time[u] = state.time[u]
    OBVIOUS
  <2>1. state' = FireTransition(t, state) /\ state \in NetStates
    BY DEF Fire, IInv, TypeOK
  <2>2. IsPlaceEnabled(u, state) <=> CheckPlaceEnabled(u, state.place)
    BY DEF IInv, ClockMatchesTokens
  <2>3. ~ \E p \in PresetOf(t) : u \in ConsumersOf(p)
    BY DEF PresetOf, ConsumersOf
  <2> QED
    BY <2>1, <2>2, <2>3, ClockAfterFire
<1> QED
  BY <1>1, Consistent, PTL DEF Spec, ClockSurvives

-----------------------------------------------------------------------------
(***************************************************************************)
(* The proof that the firing rule implements the time Petri net            *)
(* TimePetriNet, for every net whose transitions without input places may  *)
(* fire at any age.  The argument is ClockIsAge: it says what the code's   *)
(* clock is in terms of the true age, and is inductive together with the   *)
(* invariant above.                                                        *)
(***************************************************************************)

AgeTyped == age \in [Transitions -> Nat]

AInv == IInv /\ AgeTyped /\ ClockIsAge

\* The instance of TimePetriNet reads the net as the firing rule does.
LEMMA SameNet ==
  ASSUME NEW t \in Transitions, NEW m
  PROVE  /\ Abstract!Enabled(t, m) <=> CheckPlaceEnabled(t, m)
         /\ Abstract!PresetOf(t) = PresetOf(t)
         /\ Abstract!IsIntervalBounded(t) <=> IsIntervalBounded(t)
         /\ Abstract!IsBoundedMarking(m) <=> IsBoundedMarking(m)
         /\ \A time : Abstract!Contains(t, time) <=> Contains(t, time)
  BY DEF Abstract!Enabled, CheckPlaceEnabled, Abstract!PresetOf, PresetOf,
         Abstract!IsIntervalBounded, IsIntervalBounded, Abstract!Infinity, Infinity,
         Abstract!IsBoundedMarking, IsBoundedMarking, Abstract!Contains, Contains

\* The abstract firing moves the tokens as updateTokens does.
LEMMA SameTokens ==
  ASSUME NEW t \in Transitions, NEW m
  PROVE  UpdateTokens(t, m) =
           [p \in Places |-> Abstract!Plus(Abstract!Minus(m[p], Incoming[t][p]), Outgoing[t][p])]
  BY DEF UpdateTokens, Plus, Minus, Abstract!Plus, Abstract!Minus

\* A net state the code expands has a marking the abstract net goes on from.
LEMMA SameExpansion == IsExpanded(state) => Abstract!Expanded
  BY DEF IsExpanded, IsBounded, IsBoundedMarking, InitialState,
         Abstract!Expanded, Abstract!IsBoundedMarking

\* Whether the code fires a transition is decided as the true age decides it.
LEMMA SameVerdict ==
  ASSUME AInv, NEW t \in Transitions
  PROVE  IsFireable(t, state)
           <=> CheckPlaceEnabled(t, state.place) /\ Contains(t, age[t])
<1>1. /\ MinTime[t] \in Size /\ MaxTime[t] \in Size /\ MinTime[t] < MaxSize
      /\ age[t] \in Nat
  BY IntervalAssumption DEF Infinity, AInv, AgeTyped
<1>2. IsPlaceEnabled(t, state) <=> CheckPlaceEnabled(t, state.place)
  BY DEF AInv, IInv, ClockMatchesTokens
<1>3. CheckPlaceEnabled(t, state.place) =>
        state.time[t] = IF IsIntervalBounded(t) THEN age[t] ELSE Min2(age[t], MinTime[t])
  BY SameNet DEF AInv, ClockIsAge, ClockOf
<1> QED
  BY <1>1, <1>2, <1>3, SizeAssumption
     DEF IsFireable, IsTimeEnabled, Contains, IsIntervalBounded, Infinity, Min2, Size

\* Whether the code lets time pass is decided as the true ages decide it.
LEMMA SamePatience ==
  ASSUME AInv, NEW t \in Transitions
  PROVE  CanStep(t, state)
           <=> (CheckPlaceEnabled(t, state.place) /\ IsIntervalBounded(t) => age[t] + 1 <= MaxTime[t])
<1>1. /\ MinTime[t] \in Size /\ MaxTime[t] \in Size /\ MinTime[t] < MaxSize
      /\ MinTime[t] <= MaxTime[t] /\ age[t] \in Nat
  BY IntervalAssumption DEF Infinity, AInv, AgeTyped
<1>2. IsPlaceEnabled(t, state) <=> CheckPlaceEnabled(t, state.place)
  BY DEF AInv, IInv, ClockMatchesTokens
<1>3. CheckPlaceEnabled(t, state.place) =>
        state.time[t] = IF IsIntervalBounded(t) THEN age[t] ELSE Min2(age[t], MinTime[t])
  BY SameNet DEF AInv, ClockIsAge, ClockOf
<1>4. CheckPlaceEnabled(t, state.place) /\ IsIntervalBounded(t) => state.time[t] <= MaxTime[t]
  BY <1>2 DEF AInv, IInv, ClockWithinInterval
<1> QED
  BY <1>1, <1>2, <1>3, <1>4, SizeAssumption
     DEF CanStep, Plus, IsIntervalBounded, Infinity, Min2, Size

\* A new net state has clocks that are the ages of transitions just enabled.
LEMMA InitAInv == AgedInit => AInv
<1> SUFFICES ASSUME AgedInit PROVE AInv
  OBVIOUS
<1>1. IInv
  BY InitIInv DEF AgedInit
<1>2. AgeTyped
  BY DEF AgedInit, AgeTyped
<1>3. ClockIsAge
  <2> SUFFICES ASSUME NEW t \in Transitions PROVE state.time[t] = ClockOf(t)
    BY DEF ClockIsAge
  <2>1. /\ state.place = InitialMarking /\ age[t] = 0 /\ MinTime[t] \in Size
        /\ state.time[t] = IF CheckPlaceEnabled(t, InitialMarking) THEN 0 ELSE DisabledTransition
    BY IntervalAssumption DEF AgedInit, Init, InitialState
  <2> QED
    BY <2>1, SameNet, SizeAssumption DEF ClockOf, Min2, Size
<1> QED
  BY <1>1, <1>2, <1>3 DEF AInv

\* fireTransition keeps every clock the true age of its transition.
LEMMA FireAInv ==
  ASSUME AInv, SourcesAnytime, NEW t \in Transitions, AgedFire(t)
  PROVE  AInv'
<1>1. /\ Fire(t) /\ state' = FireTransition(t, state) /\ state \in NetStates
      /\ age' = Abstract!AgesAfter(t, state'.place)
  BY DEF AgedFire, Fire, AInv, IInv, TypeOK
<1>2. IInv'
  BY <1>1, FireIInv DEF AInv
<1>3. ASSUME NEW u \in Transitions
      PROVE  age'[u] = IF /\ CheckPlaceEnabled(u, state.place)
                          /\ CheckPlaceEnabled(u, state'.place)
                          /\ ~ (u = t \/ PresetOf(t) \cap PresetOf(u) # {})
                       THEN age[u] ELSE 0
  BY <1>1, SameNet DEF Abstract!AgesAfter, Abstract!Competes
<1>4. AgeTyped'
  <2>1. age' = [u \in Transitions |-> age'[u]]
    BY <1>1 DEF Abstract!AgesAfter
  <2>2. \A u \in Transitions : age'[u] \in Nat
    BY <1>3 DEF AInv, AgeTyped
  <2> QED
    BY <2>1, <2>2 DEF AgeTyped
<1>5. ClockIsAge'
  <2> SUFFICES ASSUME NEW u \in Transitions PROVE state'.time[u] = ClockOf(u)'
    BY DEF ClockIsAge
  <2>1. ClockOf(u)' = IF ~ CheckPlaceEnabled(u, state'.place) THEN DisabledTransition
                      ELSE IF IsIntervalBounded(u) THEN age'[u] ELSE Min2(age'[u], MinTime[u])
    BY SameNet DEF ClockOf
  <2>2. state'.time[u] =
           IF ~ CheckPlaceEnabled(u, state'.place) THEN DisabledTransition
           ELSE IF ~ IsPlaceEnabled(u, state) THEN 0
           ELSE IF \E p \in PresetOf(t) : u \in ConsumersOf(p) THEN 0
           ELSE state.time[u]
    BY <1>1, ClockAfterFire DEF AInv, IInv, ClockMatchesTokens
  <2>3. (\E p \in PresetOf(t) : u \in ConsumersOf(p)) <=> PresetOf(t) \cap PresetOf(u) # {}
    BY DEF PresetOf, ConsumersOf
  <2>4. IsPlaceEnabled(u, state) <=> CheckPlaceEnabled(u, state.place)
    BY DEF AInv, IInv, ClockMatchesTokens
  <2>5. CheckPlaceEnabled(u, state.place) =>
          state.time[u] = IF IsIntervalBounded(u) THEN age[u] ELSE Min2(age[u], MinTime[u])
    BY SameNet DEF AInv, ClockIsAge, ClockOf
  <2>6. MinTime[u] \in Size /\ age[u] \in Nat /\ Min2(0, MinTime[u]) = 0
    BY IntervalAssumption, SizeAssumption DEF AInv, AgeTyped, Size, Min2
  <2>7. CASE u = t /\ PresetOf(t) = {}
    <3>1. MinTime[u] = 0 /\ ~ IsIntervalBounded(u)
      BY <2>7 DEF SourcesAnytime
    <3>2. Min2(age[u], 0) = 0
      BY <2>6 DEF Min2
    <3>3. age'[u] = 0
      BY <1>3, <2>7
    <3> QED
      BY <2>1, <2>2, <2>4, <2>5, <2>6, <3>1, <3>2, <3>3
  <2>8. CASE ~ (u = t /\ PresetOf(t) = {})
    <3>1. (u = t \/ PresetOf(t) \cap PresetOf(u) # {})
             <=> \E p \in PresetOf(t) : u \in ConsumersOf(p)
      BY <2>3, <2>8
    <3> QED
      BY <1>3, <2>1, <2>2, <2>4, <2>5, <2>6, <3>1
  <2> QED
    BY <2>7, <2>8
<1> QED
  BY <1>2, <1>4, <1>5 DEF AInv

\* makeTimeStep keeps every clock the true age, stopped where there is no latest time.
LEMMA TimeStepAInv ==
  ASSUME AInv, AgedTimeStep
  PROVE  AInv'
<1>1. TimeStep /\ state \in NetStates /\ age' = Abstract!AgesLater /\ CanMakeTimeStep(state)
  BY DEF AgedTimeStep, TimeStep, AInv, IInv, TypeOK
<1>2. IInv'
  BY <1>1, TimeStepIInv DEF AInv
<1>3. \A u \in Transitions :
         age'[u] = IF CheckPlaceEnabled(u, state.place) THEN age[u] + 1 ELSE 0
  BY <1>1, SameNet DEF Abstract!AgesLater
<1>4. AgeTyped'
  <2>1. age' = [u \in Transitions |-> age'[u]]
    BY <1>1 DEF Abstract!AgesLater
  <2>2. \A u \in Transitions : age'[u] \in Nat
    BY <1>3 DEF AInv, AgeTyped
  <2> QED
    BY <2>1, <2>2 DEF AgeTyped
<1>5. /\ state'.place = state.place
      /\ \A u \in Transitions : state'.time[u] = StepClock(u, state)
  BY <1>1 DEF TimeStep, MakeTimeStep, NetStates
<1>6. ClockIsAge'
  <2> SUFFICES ASSUME NEW u \in Transitions PROVE state'.time[u] = ClockOf(u)'
    BY DEF ClockIsAge
  <2>1. ClockOf(u)' = IF ~ CheckPlaceEnabled(u, state'.place) THEN DisabledTransition
                      ELSE IF IsIntervalBounded(u) THEN age'[u] ELSE Min2(age'[u], MinTime[u])
    BY SameNet DEF ClockOf
  <2>2. IsPlaceEnabled(u, state) <=> CheckPlaceEnabled(u, state.place)
    BY DEF AInv, IInv, ClockMatchesTokens
  <2>3. CheckPlaceEnabled(u, state.place) =>
          state.time[u] = IF IsIntervalBounded(u) THEN age[u] ELSE Min2(age[u], MinTime[u])
    BY SameNet DEF AInv, ClockIsAge, ClockOf
  <2>4. /\ MinTime[u] \in Size /\ MaxTime[u] \in Size /\ MinTime[u] < MaxSize
        /\ age[u] \in Nat /\ state.time[u] \in Size
    BY <1>1, IntervalAssumption DEF Infinity, AInv, AgeTyped, NetStates
  <2>5. IsPlaceEnabled(u, state) =>
          IF IsIntervalBounded(u) THEN state.time[u] <= MaxTime[u] ELSE state.time[u] <= MinTime[u]
    BY DEF AInv, IInv, ClockWithinInterval
  <2>6. CASE ~ IsPlaceEnabled(u, state)
    BY <1>5, <2>1, <2>2, <2>6 DEF StepClock
  <2>7. CASE IsPlaceEnabled(u, state) /\ IsIntervalBounded(u)
    <3>1. state'.time[u] = Plus(age[u], 1) /\ age[u] <= MaxTime[u] /\ MaxTime[u] # MaxSize
      BY <1>5, <2>2, <2>3, <2>5, <2>7 DEF StepClock, IsIntervalBounded, Infinity
    <3>2. Plus(age[u], 1) = age[u] + 1
      BY <2>4, <3>1, SizeAssumption DEF Plus, Size
    <3> QED
      BY <1>3, <1>5, <2>1, <2>2, <2>7, <3>1, <3>2
  <2>8. CASE IsPlaceEnabled(u, state) /\ ~ IsIntervalBounded(u)
    <3>1. state'.time[u] = Min2(Plus(Min2(age[u], MinTime[u]), 1), MinTime[u])
      BY <1>5, <2>2, <2>3, <2>8 DEF StepClock
    <3>2. @ = Min2(age[u] + 1, MinTime[u])
      BY <2>4, SizeAssumption DEF Plus, Size, Min2
    <3> QED
      BY <1>3, <1>5, <2>1, <2>2, <2>8, <3>1, <3>2
  <2> QED
    BY <2>6, <2>7, <2>8
<1> QED
  BY <1>2, <1>4, <1>6 DEF AInv

\* The code's clock is the true age, stopped or switched off, in every run.
THEOREM AInvHolds == SourcesAnytime => (AgedSpec => []AInv)
<1> SUFFICES ASSUME SourcesAnytime PROVE AgedSpec => []AInv
  OBVIOUS
<1>1. AgedInit => AInv
  BY InitAInv
<1>2. AInv /\ [AgedNext]_AgedVars => AInv'
  <2> SUFFICES ASSUME AInv, [AgedNext]_AgedVars PROVE AInv'
    OBVIOUS
  <2>1. ASSUME NEW t \in Transitions, AgedFire(t) PROVE AInv'
    BY <2>1, FireAInv
  <2>2. CASE AgedTimeStep
    BY <2>2, TimeStepAInv
  <2>3. CASE UNCHANGED AgedVars
    BY <2>3 DEF AgedVars, AInv, AgeTyped, ClockIsAge, ClockOf, IInv, TypeOK,
                ClockMatchesTokens, ClockWithinInterval, Abstract!Enabled
  <2> QED
    BY <2>1, <2>2, <2>3 DEF AgedNext
<1> QED
  BY <1>1, <1>2, PTL DEF AgedSpec

\* ClockIsAge by itself, the relation the runs check.
THEOREM ClocksAreAges == SourcesAnytime => (AgedSpec => []ClockIsAge)
<1>1. AInv => ClockIsAge
  BY DEF AInv
<1> QED
  BY <1>1, AInvHolds, PTL

\* Every firing and every time step that the true ages allow is one the code takes.
THEOREM NothingMissed == SourcesAnytime => (AgedSpec => []MissesNothing)
<1>1. AInv => MissesNothing
  <2> SUFFICES ASSUME AInv PROVE MissesNothing
    OBVIOUS
  <2>1. ASSUME NEW t \in Transitions, Abstract!Enabled(t, state.place), Contains(t, age[t])
        PROVE  IsFireable(t, state)
    BY <2>1, SameNet, SameVerdict
  <2>2. ASSUME \A t \in Transitions : (Abstract!Enabled(t, state.place) /\ IsIntervalBounded(t))
                                        => age[t] + 1 <= MaxTime[t]
        PROVE  CanMakeTimeStep(state)
    BY <2>2, SameNet, SamePatience DEF CanMakeTimeStep
  <2> QED
    BY <2>1, <2>2 DEF MissesNothing
<1> QED
  BY <1>1, AInvHolds, PTL

\* The firing rule implements the abstract time Petri net.
THEOREM Refinement == SourcesAnytime => (AgedSpec => ImplementsTimePetriNet)
<1> SUFFICES ASSUME SourcesAnytime PROVE AgedSpec => ImplementsTimePetriNet
  OBVIOUS
<1>1. AgedInit => Abstract!Init
  BY DEF AgedInit, Init, InitialState, Abstract!Init
<1>2. AInv /\ [AgedNext]_AgedVars => [Abstract!Next]_Abstract!vars
  <2> SUFFICES ASSUME AInv, [AgedNext]_AgedVars PROVE [Abstract!Next]_Abstract!vars
    OBVIOUS
  <2>1. ASSUME NEW t \in Transitions, AgedFire(t) PROVE Abstract!Fire(t)
    <3>1. /\ IsExpanded(state) /\ IsFireable(t, state)
          /\ state'.place = UpdateTokens(t, state.place)
          /\ age' = Abstract!AgesAfter(t, state'.place)
      BY <2>1 DEF AgedFire, Fire, FireTransition
    <3>2. CheckPlaceEnabled(t, state.place) /\ Contains(t, age[t])
      BY <3>1, SameVerdict
    <3>3. Abstract!Expanded
      BY <3>1, SameExpansion
    <3> QED
      BY <3>1, <3>2, <3>3, SameNet, SameTokens DEF Abstract!Fire
  <2>2. ASSUME AgedTimeStep PROVE Abstract!Elapse
    <3>1. /\ IsExpanded(state) /\ \A t \in Transitions : CanStep(t, state)
          /\ state'.place = state.place /\ age' = Abstract!AgesLater
      BY <2>2 DEF AgedTimeStep, TimeStep, CanMakeTimeStep, MakeTimeStep,
                  AInv, IInv, TypeOK, NetStates
    <3>2. \A t \in Transitions : Abstract!Enabled(t, state.place) /\ Abstract!IsIntervalBounded(t)
                                  => age[t] + 1 <= MaxTime[t]
      BY <3>1, SameNet, SamePatience
    <3>3. Abstract!Expanded
      BY <3>1, SameExpansion
    <3> QED
      BY <3>1, <3>2, <3>3 DEF Abstract!Elapse
  <2>3. CASE UNCHANGED AgedVars
    BY <2>3 DEF AgedVars, Abstract!vars
  <2> QED
    BY <2>1, <2>2, <2>3 DEF AgedNext, Abstract!Next
<1> QED
  BY <1>1, <1>2, AInvHolds, PTL DEF AgedSpec, ImplementsTimePetriNet, Abstract!Spec

-----------------------------------------------------------------------------
(***************************************************************************)
(* The loops of fireTransition.  Whatever the order of the arcs, a loop    *)
(* that still has todo arcs to visit has made of the old state s what the  *)
(* operators below say, and with no arc left that is what FiringRule says. *)
(***************************************************************************)
Consumed(t, m, left) == [p \in Places |-> Minus(m[p], Incoming[t][p] - left[p])]

Produced(t, m, left) ==
  [p \in Places |-> Plus(Minus(m[p], Incoming[t][p]), Outgoing[t][p] - left[p])]

\* The places some arc to or from which was visited.
Met(arcs, left) == {p \in Places : left[p] < arcs[p]}

Reset(t, m, time, left) ==
  [u \in Transitions |->
     IF \E p \in Met(Incoming[t], left) : u \in ConsumersOf(p)
     THEN IF CheckPlaceEnabled(u, m) THEN 0 ELSE DisabledTransition
     ELSE time[u]]

Started(t, m, time, left) ==
  [u \in Transitions |->
     IF \E p \in Met(Outgoing[t], left) : u \in ConsumersOf(p)
     THEN EnablePostset(u, m, time) ELSE time[u]]

Within(left, arcs) == left \in [Places -> Nat] /\ \A p \in Places : left[p] <= arcs[p]

\* The copy c of the old state s while the named loop runs.
InLoop(name, c, s, left, t) ==
  LET m == UpdateTokens(t, s.place)
  IN  \/ /\ name = "consume" /\ Within(left, Incoming[t])
         /\ c = [place |-> Consumed(t, s.place, left), time |-> s.time]
      \/ /\ name = "produce" /\ Within(left, Outgoing[t])
         /\ c = [place |-> Produced(t, s.place, left), time |-> s.time]
      \/ /\ name = "siblings" /\ Within(left, Incoming[t])
         /\ c = [place |-> m, time |-> Reset(t, m, s.time, left)]
      \/ /\ name = "successors" /\ Within(left, Outgoing[t])
         /\ c = [place |-> m, time |-> Started(t, m, UpdateSiblings(t, m, s.time), left)]

\* Taking or adding one more.
LEMMA OneMore ==
  ASSUME NEW a \in Size, NEW k \in Nat, k + 1 \in Size
  PROVE  /\ Minus(Minus(a, k), 1) = Minus(a, k + 1)
         /\ Plus(Plus(a, k), 1) = Plus(a, k + 1)
BY SizeAssumption DEF Size, Minus, Plus

\* The arcs left when one of p has been visited.
OneLess(left, p, rest) == left[p] > 0 /\ rest = [left EXCEPT ![p] = @ - 1]

LEMMA OneArc ==
  ASSUME NEW arcs \in [Places -> Size], NEW left, Within(left, arcs), NEW p \in Places,
         NEW rest, OneLess(left, p, rest)
  PROVE  /\ Within(rest, arcs)
         /\ \A q \in Places : q # p => rest[q] = left[q]
         /\ rest[p] = left[p] - 1 /\ arcs[p] - left[p] \in Nat
         /\ arcs[p] - rest[p] = (arcs[p] - left[p]) + 1 /\ (arcs[p] - left[p]) + 1 \in Size
         /\ Met(arcs, rest) = Met(arcs, left) \cup {p}
<1>1. /\ left \in [Places -> Nat] /\ left[p] \in Nat /\ arcs[p] \in Size
      /\ left[p] <= arcs[p]
  BY DEF Within
<1>2. /\ rest[p] = left[p] - 1 /\ \A q \in Places : q # p => rest[q] = left[q]
      /\ rest \in [Places -> Nat] /\ left[p] > 0
  BY <1>1 DEF OneLess
<1>3. Within(rest, arcs)
  <2>1. ASSUME NEW q \in Places PROVE rest[q] <= arcs[q]
    <3>1. CASE q = p
      BY <1>1, <1>2, <3>1, SizeAssumption DEF Size
    <3>2. CASE q # p
      BY <1>2, <3>2 DEF Within
    <3> QED
      BY <3>1, <3>2
  <2> QED
    BY <1>2, <2>1 DEF Within
<1>4. /\ arcs[p] - left[p] \in Nat
      /\ arcs[p] - rest[p] = (arcs[p] - left[p]) + 1 /\ (arcs[p] - left[p]) + 1 \in Size
  BY <1>1, <1>2, SizeAssumption DEF Size
<1>5. Met(arcs, rest) = Met(arcs, left) \cup {p}
  <2>1. rest[p] < arcs[p]
    BY <1>1, <1>2, SizeAssumption DEF Size
  <2> QED
    BY <1>2, <2>1 DEF Met
<1> QED
  BY <1>2, <1>3, <1>4, <1>5

\* The first two loops.
LEMMA TokensOneByOne ==
  ASSUME NEW t \in Transitions, NEW m \in Markings, NEW left, NEW p \in Places,
         NEW rest, OneLess(left, p, rest)
  PROVE  /\ Within(left, Incoming[t]) =>
              [Consumed(t, m, left) EXCEPT ![p] = Minus(@, 1)] = Consumed(t, m, rest)
         /\ Within(left, Outgoing[t]) =>
              [Produced(t, m, left) EXCEPT ![p] = Plus(@, 1)] = Produced(t, m, rest)
<1>1. Incoming[t] \in [Places -> Size] /\ Outgoing[t] \in [Places -> Size]
  BY ArcAssumption
<1>2. m[p] \in Size /\ Minus(m[p], Incoming[t][p]) \in Size
  BY <1>1, SizeArithmetic DEF Markings
<1>3. ASSUME Within(left, Incoming[t])
      PROVE  [Consumed(t, m, left) EXCEPT ![p] = Minus(@, 1)] = Consumed(t, m, rest)
  <2>1. /\ \A q \in Places : q # p => rest[q] = left[q]
        /\ Incoming[t][p] - left[p] \in Nat
        /\ Incoming[t][p] - rest[p] = (Incoming[t][p] - left[p]) + 1
        /\ (Incoming[t][p] - left[p]) + 1 \in Size
    BY <1>1, <1>3, OneArc
  <2>2. Minus(Minus(m[p], Incoming[t][p] - left[p]), 1) = Minus(m[p], (Incoming[t][p] - left[p]) + 1)
    BY <1>2, <2>1, OneMore
  <2>3. Minus(Minus(m[p], Incoming[t][p] - left[p]), 1) = Minus(m[p], Incoming[t][p] - rest[p])
    BY <2>1, <2>2
  <2> QED
    BY <2>1, <2>3 DEF Consumed
<1>4. ASSUME Within(left, Outgoing[t])
      PROVE  [Produced(t, m, left) EXCEPT ![p] = Plus(@, 1)] = Produced(t, m, rest)
  <2> DEFINE k == Outgoing[t][p] - left[p]
             a == Minus(m[p], Incoming[t][p])
  <2>1. /\ \A q \in Places : q # p => rest[q] = left[q]
        /\ k \in Nat /\ Outgoing[t][p] - rest[p] = k + 1 /\ k + 1 \in Size
    BY <1>1, <1>4, OneArc
  <2>2. Plus(Plus(a, k), 1) = Plus(a, k + 1)
    BY <1>2, <2>1, OneMore
  <2>3. Plus(Plus(a, k), 1) = Plus(a, Outgoing[t][p] - rest[p])
    BY <2>1, <2>2
  <2> QED
    BY <2>1, <2>3 DEF Produced
<1> QED
  BY <1>3, <1>4

\* From loop to loop the tokens are first the old ones and last the new ones.
LEMMA TokensFromFirstToLast ==
  ASSUME NEW t \in Transitions, NEW m \in Markings, NEW left, \A p \in Places : left[p] = 0
  PROVE  /\ Consumed(t, m, Incoming[t]) = m
         /\ Produced(t, m, Outgoing[t]) = Consumed(t, m, left)
         /\ Produced(t, m, left) = UpdateTokens(t, m)
<1>1. \A p \in Places : /\ Incoming[t][p] \in Size /\ Outgoing[t][p] \in Size /\ m[p] \in Size
                        /\ Incoming[t][p] - Incoming[t][p] = 0
                        /\ Outgoing[t][p] - Outgoing[t][p] = 0
                        /\ Incoming[t][p] - left[p] = Incoming[t][p]
                        /\ Outgoing[t][p] - left[p] = Outgoing[t][p]
  BY ArcAssumption, SizeAssumption DEF Markings, Size
<1>2. \A p \in Places : /\ Minus(m[p], 0) = m[p]
                        /\ Plus(Minus(m[p], Incoming[t][p]), 0) = Minus(m[p], Incoming[t][p])
  BY <1>1, SizeArithmetic, SizeAssumption DEF Size
<1>3. m = [p \in Places |-> m[p]]
  BY DEF Markings
<1>4. Consumed(t, m, Incoming[t]) = m
  BY <1>1, <1>2, <1>3 DEF Consumed
<1>5. Produced(t, m, Outgoing[t]) = Consumed(t, m, left)
  BY <1>1, <1>2 DEF Consumed, Produced
<1>6. Produced(t, m, left) = UpdateTokens(t, m)
  BY <1>1 DEF Produced, UpdateTokens
<1> QED
  BY <1>4, <1>5, <1>6

\* The loops of FiringSteps use the net and its rule as NetExecution does.
LEMMA SameLoops ==
  ASSUME NEW p \in Places, NEW m, NEW time
  PROVE  /\ Steps!EnableConsumers(p, m, time) =
              [u \in Transitions |-> IF u \in ConsumersOf(p) THEN EnablePostset(u, m, time) ELSE time[u]]
         /\ Steps!ResetPostset(p, time) =
              [u \in Transitions |-> IF u \in ConsumersOf(p) THEN 0 ELSE time[u]]
  BY DEF Steps!EnableConsumers, Steps!ResetPostset, Steps!ConsumersOf, ConsumersOf,
         Steps!EnablePostset, EnablePostset, Steps!CheckPlaceEnabled, CheckPlaceEnabled,
         Steps!PresetOf, PresetOf, Steps!DisabledTransition, DisabledTransition

\* The last two loops: to visit a place again changes nothing.
LEMMA ClocksOneByOne ==
  ASSUME NEW t \in Transitions, NEW m, NEW time \in [Transitions -> Size],
         NEW left, NEW p \in Places, NEW rest, OneLess(left, p, rest)
  PROVE  /\ Within(left, Incoming[t]) =>
              Steps!EnableConsumers(p, m, Steps!ResetPostset(p, Reset(t, m, time, left)))
                = Reset(t, m, time, rest)
         /\ Within(left, Outgoing[t]) =>
              Steps!EnableConsumers(p, m, Started(t, m, time, left)) = Started(t, m, time, rest)
<1>1. Incoming[t] \in [Places -> Size] /\ Outgoing[t] \in [Places -> Size]
  BY ArcAssumption
<1>2. DisabledTransition # 0
  BY SizeAssumption DEF DisabledTransition
<1>3. ASSUME Within(left, Incoming[t])
      PROVE  Steps!EnableConsumers(p, m, Steps!ResetPostset(p, Reset(t, m, time, left)))
               = Reset(t, m, time, rest)
  <2> DEFINE f == Reset(t, m, time, left)
             g == Steps!ResetPostset(p, f)
             h == Steps!EnableConsumers(p, m, g)
  <2>1. Met(Incoming[t], rest) = Met(Incoming[t], left) \cup {p}
    BY <1>1, <1>3, OneArc
  <2>2. g = [u \in Transitions |-> IF u \in ConsumersOf(p) THEN 0 ELSE f[u]]
    BY SameLoops
  <2>3. h = [u \in Transitions |-> IF u \in ConsumersOf(p) THEN EnablePostset(u, m, g) ELSE g[u]]
    BY SameLoops
  <2> HIDE DEF f, g, h
  <2>4. ASSUME NEW u \in Transitions
        PROVE  h[u] = IF \E q \in Met(Incoming[t], rest) : u \in ConsumersOf(q)
                      THEN IF CheckPlaceEnabled(u, m) THEN 0 ELSE DisabledTransition
                      ELSE time[u]
    <3>1. CASE u \in ConsumersOf(p)
      <4>1. h[u] = IF CheckPlaceEnabled(u, m) THEN 0 ELSE DisabledTransition
        BY <1>2, <2>2, <2>3, <3>1 DEF EnablePostset
      <4> QED
        BY <2>1, <3>1, <4>1
    <3>2. CASE u \notin ConsumersOf(p)
      <4>1. h[u] = f[u]
        BY <2>2, <2>3, <3>2
      <4> QED
        BY <2>1, <3>2, <4>1 DEF f, Reset
    <3> QED
      BY <3>1, <3>2
  <2>5. h = [u \in Transitions |-> h[u]]
    BY <2>3
  <2>6. h = Reset(t, m, time, rest)
    BY <2>4, <2>5 DEF Reset
  <2> QED
    BY <2>6 DEF f, g, h
<1>4. ASSUME Within(left, Outgoing[t])
      PROVE  Steps!EnableConsumers(p, m, Started(t, m, time, left)) = Started(t, m, time, rest)
  <2> DEFINE f == Started(t, m, time, left)
             h == Steps!EnableConsumers(p, m, f)
  <2>1. Met(Outgoing[t], rest) = Met(Outgoing[t], left) \cup {p}
    BY <1>1, <1>4, OneArc
  <2>2. h = [u \in Transitions |-> IF u \in ConsumersOf(p) THEN EnablePostset(u, m, f) ELSE f[u]]
    BY SameLoops
  <2>3. \A u \in Transitions :
          f[u] = IF \E q \in Met(Outgoing[t], left) : u \in ConsumersOf(q)
                 THEN EnablePostset(u, m, time) ELSE time[u]
    BY DEF Started
  <2> HIDE DEF f, h
  <2>4. ASSUME NEW u \in Transitions
        PROVE  h[u] = IF \E q \in Met(Outgoing[t], rest) : u \in ConsumersOf(q)
                      THEN EnablePostset(u, m, time) ELSE time[u]
    <3>1. CASE u \in ConsumersOf(p)
      <4>1. EnablePostset(u, m, f) = EnablePostset(u, m, time)
        BY <1>2, <2>3 DEF EnablePostset
      <4> QED
        BY <2>1, <2>2, <3>1, <4>1
    <3>2. CASE u \notin ConsumersOf(p)
      BY <2>1, <2>2, <2>3, <3>2
    <3> QED
      BY <3>1, <3>2
  <2>5. h = [u \in Transitions |-> h[u]]
    BY <2>2
  <2>6. h = Started(t, m, time, rest)
    BY <2>4, <2>5 DEF Started
  <2> QED
    BY <2>6 DEF f, h
<1> QED
  BY <1>3, <1>4

\* Likewise for the clocks: no arc visited changes none, all visited is what FiringRule says.
LEMMA ClocksFromFirstToLast ==
  ASSUME NEW t \in Transitions, NEW m, NEW time \in [Transitions -> Size],
         NEW left, \A p \in Places : left[p] = 0
  PROVE  /\ Reset(t, m, time, Incoming[t]) = time
         /\ Started(t, m, time, Outgoing[t]) = time
         /\ Reset(t, m, time, left) = UpdateSiblings(t, m, time)
         /\ Started(t, m, time, left) = UpdateSuccessors(t, m, time)
<1>1. \A p \in Places : Incoming[t][p] \in Nat /\ Outgoing[t][p] \in Nat
  BY ArcAssumption, SizeAssumption DEF Size
<1>2. Met(Incoming[t], Incoming[t]) = {} /\ Met(Outgoing[t], Outgoing[t]) = {}
  BY <1>1 DEF Met
<1>3. Met(Incoming[t], left) = PresetOf(t) /\ Met(Outgoing[t], left) = PostsetOf(t)
  BY <1>1 DEF Met, PresetOf, PostsetOf
<1>4. time = [u \in Transitions |-> time[u]]
  OBVIOUS
<1>5. DisabledTransition # 0
  BY SizeAssumption DEF DisabledTransition
<1>6. ASSUME NEW u \in Transitions
      PROVE  EnablePostset(u, m, [time EXCEPT ![u] = 0])
               = IF CheckPlaceEnabled(u, m) THEN 0 ELSE DisabledTransition
  BY <1>5 DEF EnablePostset
<1>7. Reset(t, m, time, left) = UpdateSiblings(t, m, time)
  BY <1>3, <1>6 DEF Reset, UpdateSiblings
<1> QED
  BY <1>2, <1>3, <1>4, <1>7 DEF Reset, Started, UpdateSuccessors

-----------------------------------------------------------------------------
(***************************************************************************)
(* While fireTransition runs, the caller's state can fire the transition   *)
(* and the copy is what the loop so far has made of it.                    *)
(***************************************************************************)
LoopsFit ==
  \/ loop = "idle"
  \/ /\ firing \in Transitions /\ IsExpanded(state) /\ IsFireable(firing, state)
     /\ InLoop(loop, copy, state, todo, firing)

SInv == IInv /\ LoopsFit

\* The actions of FiringSteps, in the terms of NetExecution.
LEMMA SameActions ==
  /\ Steps!Init <=> /\ state = InitialState /\ copy = InitialState /\ loop = "idle"
                    /\ todo = [p \in Places |-> 0] /\ firing = "none"
  /\ \A t \in Transitions : Steps!Call(t) =>
       /\ loop = "idle" /\ IsExpanded(state) /\ IsFireable(t, state)
       /\ copy' = state /\ loop' = "consume" /\ todo' = Incoming[t] /\ firing' = t
       /\ state' = state
  /\ Steps!Return => /\ loop = "successors" /\ \A p \in Places : todo[p] = 0
                     /\ state' = copy /\ loop' = "idle"
  /\ Steps!TimeStep => TimeStep /\ loop = "idle" /\ loop' = loop
<1>1. InitialState = Steps!InitialState
  BY DEF InitialState, Steps!InitialState, CheckPlaceEnabled, Steps!CheckPlaceEnabled,
         PresetOf, Steps!PresetOf, DisabledTransition, Steps!DisabledTransition
<1>2. \A s : Steps!IsExpanded(s) <=> IsExpanded(s)
  BY <1>1 DEF IsExpanded, Steps!IsExpanded, IsBounded, Steps!IsBounded,
              IsBoundedMarking, Steps!IsBoundedMarking
<1>3. \A t \in Transitions : \A s : Steps!IsFireable(t, s) <=> IsFireable(t, s)
  BY DEF IsFireable, Steps!IsFireable, IsPlaceEnabled, Steps!IsPlaceEnabled,
         IsTimeEnabled, Steps!IsTimeEnabled, Contains, Steps!Contains, Infinity, Steps!Infinity,
         DisabledTransition, Steps!DisabledTransition
<1>4. ASSUME NEW t \in Transitions
      PROVE  /\ Steps!CanStep(t, state) <=> CanStep(t, state)
             /\ Steps!StepClock(t, state) = StepClock(t, state)
  BY DEF CanStep, Steps!CanStep, StepClock, Steps!StepClock, IsPlaceEnabled, Steps!IsPlaceEnabled,
         Plus, Steps!Plus, Min2, Steps!Min2, IsIntervalBounded, Steps!IsIntervalBounded,
         Infinity, Steps!Infinity, DisabledTransition, Steps!DisabledTransition
<1>5. Steps!CanMakeTimeStep(state) <=> CanMakeTimeStep(state)
  BY <1>4 DEF CanMakeTimeStep, Steps!CanMakeTimeStep
<1>6. Steps!MakeTimeStep(state) = MakeTimeStep(state)
  BY <1>4 DEF MakeTimeStep, Steps!MakeTimeStep
<1>7. Steps!Init <=> /\ state = InitialState /\ copy = InitialState /\ loop = "idle"
                     /\ todo = [p \in Places |-> 0] /\ firing = "none"
  BY <1>1 DEF Steps!Init, Steps!NoTransition
<1>8. ASSUME NEW t \in Transitions, Steps!Call(t)
      PROVE  /\ loop = "idle" /\ IsExpanded(state) /\ IsFireable(t, state)
             /\ copy' = state /\ loop' = "consume" /\ todo' = Incoming[t] /\ firing' = t
             /\ state' = state
  BY <1>2, <1>3, <1>8 DEF Steps!Call
<1>9. Steps!Return => /\ loop = "successors" /\ \A p \in Places : todo[p] = 0
                      /\ state' = copy /\ loop' = "idle"
  BY DEF Steps!Return, Steps!LoopEnds
<1>10. Steps!TimeStep => TimeStep /\ loop = "idle" /\ loop' = loop
  BY <1>2, <1>5, <1>6 DEF Steps!TimeStep, TimeStep
<1> QED
  BY <1>7, <1>8, <1>9, <1>10

\* One arc visited, in the same terms.
LEMMA SameVisits ==
  ASSUME NEW p \in Places
  PROVE  /\ Steps!Consume(p) =>
              /\ loop = "consume" /\ OneLess(todo, p, todo')
              /\ copy' = [copy EXCEPT !.place[p] = Minus(@, 1)]
              /\ UNCHANGED <<state, loop, firing>>
         /\ Steps!Produce(p) =>
              /\ loop = "produce" /\ OneLess(todo, p, todo')
              /\ copy' = [copy EXCEPT !.place[p] = Plus(@, 1)]
              /\ UNCHANGED <<state, loop, firing>>
         /\ Steps!Sibling(p) =>
              /\ loop = "siblings" /\ OneLess(todo, p, todo')
              /\ copy' = [copy EXCEPT !.time =
                            Steps!EnableConsumers(p, copy.place, Steps!ResetPostset(p, copy.time))]
              /\ UNCHANGED <<state, loop, firing>>
         /\ Steps!Successor(p) =>
              /\ loop = "successors" /\ OneLess(todo, p, todo')
              /\ copy' = [copy EXCEPT !.time = Steps!EnableConsumers(p, copy.place, copy.time)]
              /\ UNCHANGED <<state, loop, firing>>
<1>1. \A a : Steps!Minus(a, 1) = Minus(a, 1) /\ Steps!Plus(a, 1) = Plus(a, 1)
  BY DEF Steps!Minus, Minus, Steps!Plus, Plus
<1> QED
  BY <1>1 DEF Steps!Consume, Steps!Produce, Steps!Sibling, Steps!Successor, Steps!Visit, OneLess

\* updateSiblings yields a time marking again.
LEMMA UpdateSiblingsType ==
  ASSUME NEW t \in Transitions, NEW m, NEW time \in [Transitions -> Size]
  PROVE  UpdateSiblings(t, m, time) \in [Transitions -> Size]
<1>1. 0 \in Size /\ DisabledTransition \in Size
  BY SizeAssumption DEF Size, DisabledTransition
<1>2. \A u \in Transitions : EnablePostset(u, m, [time EXCEPT ![u] = 0]) \in Size
  BY <1>1 DEF EnablePostset
<1> QED
  BY <1>2 DEF UpdateSiblings

\* One arc visited: the copy is what the arcs still to visit say.
LEMMA VisitFits ==
  ASSUME IInv, LoopsFit, NEW p \in Places,
         \/ Steps!Consume(p) \/ Steps!Produce(p) \/ Steps!Sibling(p) \/ Steps!Successor(p)
  PROVE  LoopsFit' /\ state' = state
<1> DEFINE t == firing
           m == UpdateTokens(t, state.place)
           sib == UpdateSiblings(t, m, state.time)
<1>1. /\ loop \in {"consume", "produce", "siblings", "successors"} /\ OneLess(todo, p, todo')
      /\ state' = state /\ loop' = loop /\ firing' = firing
  BY SameVisits
<1>2. /\ t \in Transitions /\ IsExpanded(state) /\ IsFireable(t, state)
      /\ InLoop(loop, copy, state, todo, t)
      /\ state.place \in Markings /\ state.time \in [Transitions -> Size]
  BY <1>1 DEF LoopsFit, IInv, TypeOK, NetStates
<1>3. Incoming[t] \in [Places -> Size] /\ Outgoing[t] \in [Places -> Size]
  BY <1>2, ArcAssumption
<1>4. /\ Within(todo, Incoming[t]) => Within(todo', Incoming[t])
      /\ Within(todo, Outgoing[t]) => Within(todo', Outgoing[t])
  BY <1>1, <1>3, OneArc
<1>5. InLoop(loop, copy', state, todo', t)
  <2>1. CASE Steps!Consume(p)
    <3>1. /\ loop = "consume" /\ copy' = [copy EXCEPT !.place[p] = Minus(@, 1)]
      BY <2>1, SameVisits
    <3>2. /\ Within(todo, Incoming[t])
          /\ copy = [place |-> Consumed(t, state.place, todo), time |-> state.time]
      BY <1>2, <3>1 DEF InLoop
    <3>3. [Consumed(t, state.place, todo) EXCEPT ![p] = Minus(@, 1)] = Consumed(t, state.place, todo')
      BY <1>1, <1>2, <3>2, TokensOneByOne
    <3>4. copy' = [place |-> Consumed(t, state.place, todo'), time |-> state.time]
      BY <3>1, <3>2, <3>3
    <3> QED
      BY <1>4, <3>1, <3>2, <3>4 DEF InLoop
  <2>2. CASE Steps!Produce(p)
    <3>1. /\ loop = "produce" /\ copy' = [copy EXCEPT !.place[p] = Plus(@, 1)]
      BY <2>2, SameVisits
    <3>2. /\ Within(todo, Outgoing[t])
          /\ copy = [place |-> Produced(t, state.place, todo), time |-> state.time]
      BY <1>2, <3>1 DEF InLoop
    <3>3. [Produced(t, state.place, todo) EXCEPT ![p] = Plus(@, 1)] = Produced(t, state.place, todo')
      BY <1>1, <1>2, <3>2, TokensOneByOne
    <3>4. copy' = [place |-> Produced(t, state.place, todo'), time |-> state.time]
      BY <3>1, <3>2, <3>3
    <3> QED
      BY <1>4, <3>1, <3>2, <3>4 DEF InLoop
  <2>3. CASE Steps!Sibling(p)
    <3>1. /\ loop = "siblings"
          /\ copy' = [copy EXCEPT !.time =
                        Steps!EnableConsumers(p, copy.place, Steps!ResetPostset(p, copy.time))]
      BY <2>3, SameVisits
    <3>2. /\ Within(todo, Incoming[t])
          /\ copy = [place |-> m, time |-> Reset(t, m, state.time, todo)]
      BY <1>2, <3>1 DEF InLoop
    <3>3. Steps!EnableConsumers(p, m, Steps!ResetPostset(p, Reset(t, m, state.time, todo)))
            = Reset(t, m, state.time, todo')
      BY <1>1, <1>2, <3>2, ClocksOneByOne
    <3>4. copy' = [place |-> m, time |-> Reset(t, m, state.time, todo')]
      BY <3>1, <3>2, <3>3
    <3> QED
      BY <1>4, <3>1, <3>2, <3>4 DEF InLoop
  <2>4. CASE Steps!Successor(p)
    <3>1. /\ loop = "successors"
          /\ copy' = [copy EXCEPT !.time = Steps!EnableConsumers(p, copy.place, copy.time)]
      BY <2>4, SameVisits
    <3>2. /\ Within(todo, Outgoing[t])
          /\ copy = [place |-> m, time |-> Started(t, m, sib, todo)]
      BY <1>2, <3>1 DEF InLoop
    <3>3. sib \in [Transitions -> Size]
      BY <1>2, UpdateSiblingsType
    <3>4. Steps!EnableConsumers(p, m, Started(t, m, sib, todo)) = Started(t, m, sib, todo')
      BY <1>1, <1>2, <3>2, <3>3, ClocksOneByOne
    <3>5. copy' = [place |-> m, time |-> Started(t, m, sib, todo')]
      BY <3>1, <3>2, <3>4
    <3> QED
      BY <1>4, <3>1, <3>2, <3>5 DEF InLoop
  <2> QED
    BY <2>1, <2>2, <2>3, <2>4
<1> QED
  BY <1>1, <1>2, <1>5 DEF LoopsFit

\* From one loop to the next.
LEMMA NextLoopFits ==
  ASSUME IInv, LoopsFit, Steps!NextLoop
  PROVE  LoopsFit' /\ state' = state
<1> DEFINE t == firing
           m == UpdateTokens(t, state.place)
           sib == UpdateSiblings(t, m, state.time)
<1>1. /\ loop \in {"consume", "produce", "siblings"} /\ \A p \in Places : todo[p] = 0
      /\ \/ loop = "consume"  /\ loop' = "produce"    /\ todo' = Outgoing[t]
         \/ loop = "produce"  /\ loop' = "siblings"   /\ todo' = Incoming[t]
         \/ loop = "siblings" /\ loop' = "successors" /\ todo' = Outgoing[t]
      /\ state' = state /\ copy' = copy /\ firing' = firing
  BY DEF Steps!NextLoop, Steps!LoopEnds
<1>2. /\ t \in Transitions /\ IsExpanded(state) /\ IsFireable(t, state)
      /\ InLoop(loop, copy, state, todo, t)
      /\ state.place \in Markings /\ state.time \in [Transitions -> Size]
  BY <1>1 DEF LoopsFit, IInv, TypeOK, NetStates
<1>3. Within(Incoming[t], Incoming[t]) /\ Within(Outgoing[t], Outgoing[t])
  BY <1>2, ArcAssumption, SizeAssumption DEF Within, Size
<1>4. /\ Produced(t, state.place, Outgoing[t]) = Consumed(t, state.place, todo)
      /\ Produced(t, state.place, todo) = m
  BY <1>1, <1>2, TokensFromFirstToLast
<1>5. /\ Reset(t, m, state.time, Incoming[t]) = state.time
      /\ Reset(t, m, state.time, todo) = sib
  BY <1>1, <1>2, ClocksFromFirstToLast
<1>6. Started(t, m, sib, Outgoing[t]) = sib
  <2>1. sib \in [Transitions -> Size]
    BY <1>2, UpdateSiblingsType
  <2> QED
    BY <1>1, <1>2, <2>1, ClocksFromFirstToLast, SMTT(40)
<1>7. InLoop(loop', copy, state, todo', t)
  BY <1>1, <1>2, <1>3, <1>4, <1>5, <1>6 DEF InLoop
<1> QED
  BY <1>1, <1>2, <1>7 DEF LoopsFit

\* What fireTransition returns is what FiringRule says it does.
LEMMA ReturnFires ==
  ASSUME IInv, LoopsFit, Steps!Return
  PROVE  firing \in Transitions /\ Fire(firing) /\ loop' = "idle"
<1> DEFINE t == firing
           m == UpdateTokens(t, state.place)
           sib == UpdateSiblings(t, m, state.time)
<1>1. /\ loop = "successors" /\ \A p \in Places : todo[p] = 0
      /\ state' = copy /\ loop' = "idle"
  BY SameActions
<1>2. /\ t \in Transitions /\ IsExpanded(state) /\ IsFireable(t, state)
      /\ copy = [place |-> m, time |-> Started(t, m, sib, todo)]
      /\ state.time \in [Transitions -> Size]
  BY <1>1 DEF LoopsFit, InLoop, IInv, TypeOK, NetStates
<1>3. sib \in [Transitions -> Size]
  BY <1>2, UpdateSiblingsType
<1>4. Started(t, m, sib, todo) = UpdateSuccessors(t, m, sib)
  BY <1>1, <1>2, <1>3, ClocksFromFirstToLast
<1>5. copy = FireTransition(t, state)
  BY <1>2, <1>4 DEF FireTransition
<1> QED
  BY <1>1, <1>2, <1>5 DEF Fire

\* A call starts with an unchanged copy.
LEMMA CallFits ==
  ASSUME IInv, NEW t \in Transitions, Steps!Call(t)
  PROVE  LoopsFit' /\ state' = state
<1>1. /\ IsExpanded(state) /\ IsFireable(t, state)
      /\ copy' = state /\ loop' = "consume" /\ todo' = Incoming[t] /\ firing' = t
      /\ state' = state
  BY SameActions
<1>2. Within(Incoming[t], Incoming[t])
  BY ArcAssumption, SizeAssumption DEF Within, Size
<1>3. state \in NetStates /\ state = [place |-> state.place, time |-> state.time]
      /\ state.place \in Markings
  BY DEF IInv, TypeOK, NetStates
<1>4. PICK left : \A p \in Places : left[p] = 0
  <2>1. \A p \in Places : [q \in Places |-> 0][p] = 0
    OBVIOUS
  <2> QED
    BY <2>1
<1>5. Consumed(t, state.place, Incoming[t]) = state.place
  BY <1>3, <1>4, TokensFromFirstToLast
<1>6. InLoop("consume", state, state, Incoming[t], t)
  BY <1>2, <1>3, <1>5 DEF InLoop
<1> QED
  BY <1>1, <1>6 DEF LoopsFit

\* Every step of the loops keeps all this, and is a step of NetExecution for the caller.
LEMMA StepsSInv ==
  ASSUME SInv, [StepsNext]_StepsVars
  PROVE  SInv' /\ [Next]_vars
<1>1. IInv /\ LoopsFit
  BY DEF SInv
<1>2. ASSUME LoopsFit', state' = state
      PROVE  SInv' /\ [Next]_vars
  BY <1>1, <1>2 DEF SInv, IInv, TypeOK, ClockMatchesTokens, ClockWithinInterval, vars
<1>3. ASSUME NEW t \in Transitions, Steps!Call(t)
      PROVE  SInv' /\ [Next]_vars
  BY <1>1, <1>2, <1>3, CallFits
<1>4. CASE Steps!Loops
  <2>1. CASE Steps!NextLoop
    BY <1>1, <1>2, <2>1, NextLoopFits
  <2>2. ASSUME NEW p \in Places,
               Steps!Consume(p) \/ Steps!Produce(p) \/ Steps!Sibling(p) \/ Steps!Successor(p)
        PROVE  SInv' /\ [Next]_vars
    BY <1>1, <1>2, <2>2, VisitFits
  <2> QED
    BY <1>4, <2>1, <2>2 DEF Steps!Loops
<1>5. CASE StepsReturn
  <2>1. firing \in Transitions /\ Fire(firing) /\ loop' = "idle"
    BY <1>1, <1>5, ReturnFires DEF StepsReturn
  <2> QED
    BY <1>1, <2>1, FireIInv DEF SInv, LoopsFit, Next
<1>6. CASE StepsTimeStep
  <2>1. TimeStep /\ loop' = "idle"
    BY <1>6, SameActions DEF StepsTimeStep
  <2> QED
    BY <1>1, <2>1, TimeStepIInv DEF SInv, LoopsFit, Next
<1>7. CASE UNCHANGED StepsVars
  <2>1. LoopsFit' /\ state' = state
    BY <1>1, <1>7 DEF StepsVars, LoopsFit
  <2> QED
    BY <1>2, <2>1
<1> QED
  BY <1>3, <1>4, <1>5, <1>6, <1>7 DEF StepsNext

\* With the loops run arc by arc, in any order of the arcs, the copy is at any
\* time what the visited arcs make of the caller's state.
THEOREM SInvHolds == StepsSpec => []SInv
<1>1. StepsInit => SInv
  BY InitIInv, SameActions DEF StepsInit, AgedInit, SInv, LoopsFit
<1>2. SInv /\ [StepsNext]_StepsVars => SInv'
  BY StepsSInv
<1> QED
  BY <1>1, <1>2, PTL DEF StepsSpec

\* For the caller of fireTransition its four loops are one step of the firing rule.
THEOREM AtomicFiring == StepsSpec => ImplementsAtomicFiring
<1>1. StepsInit => Init
  BY DEF StepsInit, AgedInit
<1>2. SInv /\ [StepsNext]_StepsVars => [Next]_vars
  BY StepsSInv
<1> QED
  BY <1>1, <1>2, SInvHolds, PTL DEF StepsSpec, ImplementsAtomicFiring, Spec

\* So they are with the true ages beside them.
THEOREM LoopsAreAged == StepsSpec => AgedSpec
<1>1. StepsInit => AgedInit
  BY DEF StepsInit
<1>2. SInv /\ [StepsNext]_StepsVars => [AgedNext]_AgedVars
  <2> SUFFICES ASSUME SInv, [StepsNext]_StepsVars PROVE [AgedNext]_AgedVars
    OBVIOUS
  <2>1. IInv /\ LoopsFit
    BY DEF SInv
  <2>2. CASE /\ \/ \E t \in Transitions : Steps!Call(t)
                \/ Steps!Loops
             /\ UNCHANGED age
    <3>1. state' = state
      BY <2>1, <2>2, CallFits, NextLoopFits, VisitFits DEF Steps!Loops
    <3> QED
      BY <2>2, <3>1 DEF AgedVars
  <2>3. CASE StepsReturn
    <3>1. firing \in Transitions /\ Fire(firing)
      BY <2>1, <2>3, ReturnFires DEF StepsReturn
    <3> QED
      BY <2>3, <3>1 DEF StepsReturn, AgedNext, AgedFire
  <2>4. CASE StepsTimeStep
    <3>1. TimeStep
      BY <2>4, SameActions DEF StepsTimeStep
    <3> QED
      BY <2>4, <3>1 DEF StepsTimeStep, AgedNext, AgedTimeStep
  <2>5. CASE UNCHANGED StepsVars
    BY <2>5 DEF StepsVars, AgedVars
  <2> QED
    BY <2>2, <2>3, <2>4, <2>5 DEF StepsNext
<1> QED
  BY <1>1, <1>2, SInvHolds, PTL DEF StepsSpec, AgedSpec

\* The code's loops, arc by arc, implement the time Petri net.
THEOREM LoopsRefine == SourcesAnytime => (StepsSpec => ImplementsTimePetriNet)
BY LoopsAreAged, Refinement
=============================================================================
