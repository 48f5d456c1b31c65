----------------------------- MODULE TimePetriNet -----------------------------
(***************************************************************************)
(* What the firing rule promises, told without its data structures: a time *)
(* Petri net whose enabled transitions age without limit.  Whether a       *)
(* transition is enabled is read off the marking, there is no sentinel, no *)
(* clock is truncated and no update is incremental.  A transition fires    *)
(* when its age lies in its interval; time passes as long as no enabled    *)
(* transition outgrows its interval; firing restarts what fired, what      *)
(* competes with it for a place, and what it newly enables.                *)
(***************************************************************************)
EXTENDS IntervalNet

VARIABLES marking, age
vars == <<marking, age>>

Enabled(t, m) == \A p \in PresetOf(t) : m[p] >= 1

Competes(t, u) == u = t \/ PresetOf(t) \cap PresetOf(u) # {}

\* The ages after t has fired and left the marking m; a disabled transition has age 0.
AgesAfter(t, m) ==
  [u \in Transitions |->
     IF Enabled(u, marking) /\ Enabled(u, m) /\ ~ Competes(t, u) THEN age[u] ELSE 0]

\* One unit older, for what is enabled.
AgesLater == [u \in Transitions |-> IF Enabled(u, marking) THEN age[u] + 1 ELSE 0]

Init == /\ marking = InitialMarking
        /\ age = [t \in Transitions |-> 0]

\* A marking beyond a bound is where an observer stops looking, unless it starts there.
Expanded == IsBoundedMarking(marking) \/ marking = InitialMarking

Fire(t) == /\ Expanded
           /\ Enabled(t, marking)
           /\ Contains(t, age[t])
           /\ marking' = [p \in Places |-> Plus(Minus(marking[p], Incoming[t][p]), Outgoing[t][p])]
           /\ age' = AgesAfter(t, marking')

Elapse == /\ Expanded
          /\ \A t \in Transitions :
                Enabled(t, marking) /\ IsIntervalBounded(t) => age[t] + 1 <= MaxTime[t]
          /\ age' = AgesLater
          /\ UNCHANGED marking

Next == (\E t \in Transitions : Fire(t)) \/ Elapse

Spec == Init /\ [][Next]_vars
=============================================================================
