-------------------------- MODULE ConstructMaximalNet -------------------------
(***************************************************************************)
(* The filter ConstructMaximalNet (src/src/ConstructMaximalNet.cpp): it    *)
(* closes an open net with the most liberal partner, one transition per    *)
(* interface place that may fill an input place or empty an output place   *)
(* at any time, and labels every transition of the result.  The open net   *)
(* is a parameter, the maximal net the definitions Max...                  *)
(***************************************************************************)
EXTENDS Naturals, FiniteSets

CONSTANTS Places, Transitions, Incoming, Outgoing, MinTime, MaxTime,
          InputPlaces, OutputPlaces,
          PartnerName,    \* "t" + the name of an interface place
          MaxSize

InterfacePlaces == InputPlaces \cup OutputPlaces

\* No place is both (asserted), and no partner transition has a name that is taken
\* (Net::createTransition would throw and leave no net).
NamesAreFree ==
  /\ InputPlaces \cap OutputPlaces = {}
  /\ \A p \in InterfacePlaces : PartnerName[p] \notin Transitions
  /\ \A p, q \in InterfacePlaces : PartnerName[p] = PartnerName[q] => p = q

Partners == {PartnerName[p] : p \in InterfacePlaces}
MaxTransitions == Transitions \cup Partners

Serves(t, p) == p \in InterfacePlaces /\ PartnerName[p] = t

ArcIf(b) == IF b THEN 1 ELSE 0

MaxIncoming ==
  [t \in MaxTransitions |->
     IF t \in Transitions THEN Incoming[t]
     ELSE [p \in Places |-> ArcIf(p \in OutputPlaces /\ Serves(t, p))]]

MaxOutgoing ==
  [t \in MaxTransitions |->
     IF t \in Transitions THEN Outgoing[t]
     ELSE [p \in Places |-> ArcIf(p \in InputPlaces /\ Serves(t, p))]]

\* TimeInterval() is [0, infinity).
MaxMinTime == [t \in MaxTransitions |-> IF t \in Transitions THEN MinTime[t] ELSE 0]
MaxMaxTime == [t \in MaxTransitions |-> IF t \in Transitions THEN MaxTime[t] ELSE MaxSize]

(***************************************************************************)
(* The label: <<p, "?">> for the one transition that takes from exactly    *)
(* one interface place, <<p, "!">> for one that puts on exactly one, and   *)
(* the empty label for all the others, those with several included.        *)
(***************************************************************************)
SilentLabel == <<>>

TakesFrom(t) == {p \in InterfacePlaces : MaxIncoming[t][p] > 0}
PutsOn(t)    == {p \in InterfacePlaces : MaxOutgoing[t][p] > 0}

\* presetIOPlaces and postsetIOPlaces have an entry per arc.
OneArc(arcs, P) == Cardinality(P) = 1 /\ \A p \in P : arcs[p] = 1

MaxLabel ==
  [t \in MaxTransitions |->
     CASE OneArc(MaxIncoming[t], TakesFrom(t)) /\ PutsOn(t) = {}
            -> <<CHOOSE p \in TakesFrom(t) : TRUE, "?">>
       [] TakesFrom(t) = {} /\ OneArc(MaxOutgoing[t], PutsOn(t))
            -> <<CHOOSE p \in PutsOn(t) : TRUE, "!">>
       [] OTHER -> SilentLabel]
=============================================================================
