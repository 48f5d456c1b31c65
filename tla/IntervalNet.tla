----------------------------- MODULE IntervalNet -----------------------------
(***************************************************************************)
(* An interval (time) Petri net as the class Interval::Net holds it once   *)
(* it is built (src/src/IntervalNet.cpp, TimeInterval.cpp): places with a  *)
(* token bound, transitions with a firing interval, and arcs, all of       *)
(* multiplicity 1.  Several arcs may join one place and one transition,    *)
(* because Net::connect never looks for an existing arc, so the arcs are   *)
(* counted: Incoming[t][p] arcs lead from p to t, Outgoing[t][p] from t to *)
(* p.  The whole module is constant: nothing changes a net while it runs.  *)
(***************************************************************************)
EXTENDS Naturals, FiniteSets

CONSTANTS Places,          \* Net::getPlaces
          Transitions,     \* Net::getTransitions
          Incoming,        \* arcs place -> transition, counted
          Outgoing,        \* arcs transition -> place, counted
          Bound,           \* Place::getBound
          MinTime,         \* TimeInterval::getMin of a transition
          MaxTime,         \* TimeInterval::getMax of a transition
          InputPlaces,     \* Place::isInputPlace
          OutputPlaces,    \* Place::isOutputPlace
          InitialMarking,  \* Net::getInitialMarking
          FinalMarkings,   \* Net::getFinalMarkings
          MaxSize          \* std::numeric_limits<size_t>::max()

Size == 0 .. MaxSize

(***************************************************************************)
(* The code has one bit pattern, the largest size_t, for two meanings: an  *)
(* interval without upper end, and a clock that is switched off.           *)
(***************************************************************************)
Infinity           == MaxSize
DisabledTransition == MaxSize

Markings == [Places -> Size]

(***************************************************************************)
(* What the constructors and the parser establish: an interval has min <=  *)
(* max (the TimeInterval constructor throws otherwise).  The minimum is    *)
(* finite: no net file writes 2^64 - 1 there.                              *)
(***************************************************************************)
ASSUME SizeAssumption     == MaxSize \in Nat /\ MaxSize > 1
ASSUME ArcAssumption      == /\ Incoming \in [Transitions -> [Places -> Size]]
                             /\ Outgoing \in [Transitions -> [Places -> Size]]
ASSUME IntervalAssumption == /\ MinTime \in [Transitions -> Size]
                             /\ MaxTime \in [Transitions -> Size]
                             /\ \A t \in Transitions : /\ MinTime[t] <= MaxTime[t]
                                                       /\ MinTime[t] < Infinity
ASSUME MarkingAssumption  == /\ InitialMarking \in Markings
                             /\ FinalMarkings \subseteq Markings
                             /\ Bound \in [Places -> Size]
ASSUME InterfaceAssumption == /\ InputPlaces \subseteq Places
                              /\ OutputPlaces \subseteq Places

\* No two arcs join the same place and transition.  Nothing in the code checks it.
SingleArcs == \A t \in Transitions, p \in Places : Incoming[t][p] <= 1

-----------------------------------------------------------------------------
(***************************************************************************)
(* size_t arithmetic: one addition or subtraction of two size_t values.    *)
(***************************************************************************)
Plus(a, b)  == IF a + b <= MaxSize THEN a + b ELSE (a + b) - (MaxSize + 1)
Minus(a, b) == IF b <= a THEN a - b ELSE (a + MaxSize + 1) - b

IsIntervalBounded(t) == MaxTime[t] # Infinity

\* Variant: both ends of the interval taken as open.
ContainsOpen(t, time) == /\ time > MinTime[t] \/ MinTime[t] = 0
                         /\ MaxTime[t] # Infinity => time < MaxTime[t]

Contains(t, time) == /\ time >= MinTime[t]
                     /\ MaxTime[t] # Infinity => time <= MaxTime[t]

PresetOf(t)   == {p \in Places : Incoming[t][p] > 0}
PostsetOf(t)  == {p \in Places : Outgoing[t][p] > 0}
ConsumersOf(p) == {t \in Transitions : Incoming[t][p] > 0}

IsBoundedMarking(m) == \A p \in Places : m[p] <= Bound[p]
IsFinalMarking(m)   == m \in FinalMarkings

-----------------------------------------------------------------------------
(***************************************************************************)
(* Which interface places a transition touches; an internal transition     *)
(* touches none.                                                           *)
(***************************************************************************)
IsInputSend(t)  == PostsetOf(t) \cap InputPlaces # {}
IsInputRead(t)  == PresetOf(t) \cap InputPlaces # {}
IsOutputSend(t) == PostsetOf(t) \cap OutputPlaces # {}
IsOutputRead(t) == PresetOf(t) \cap OutputPlaces # {}

IsClosed == InputPlaces \cup OutputPlaces = {}
=============================================================================
