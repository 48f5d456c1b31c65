-------------------------- MODULE MCClosureAutomaton --------------------------
(***************************************************************************)
(* ConstructClosureAutomaton on a net with one input and one output place, *)
(* both bounded by one token, so that the partner breaks the bound of the  *)
(* one and the service that of the other in several closures.              *)
(***************************************************************************)
EXTENDS ConstructClosureAutomaton

OpenPlaces == {"ready", "busy", "req", "resp"}
OpenTransitions == {"take", "give", "slip"}

ConsumesArcs == {<<"take", "ready">>, <<"take", "req">>, <<"give", "busy">>, <<"slip", "busy">>}
ProducesArcs == {<<"take", "busy">>, <<"give", "ready">>, <<"give", "resp">>, <<"slip", "ready">>}

ArcCount(arcs) ==
  [t \in OpenTransitions |-> [p \in OpenPlaces |-> IF <<t, p>> \in arcs THEN 1 ELSE 0]]

NetMaxSize == 5

Closed == INSTANCE ConstructMaximalNet
            WITH Places <- OpenPlaces, Transitions <- OpenTransitions,
                 Incoming <- ArcCount(ConsumesArcs), Outgoing <- ArcCount(ProducesArcs),
                 MinTime <- [t \in OpenTransitions |->
                   CASE t = "take" -> 0 [] t = "give" -> 2 [] t = "slip" -> 1],
                 MaxTime <- [t \in OpenTransitions |->
                   CASE t = "take" -> 1 [] t = "give" -> 3 [] t = "slip" -> 2],
                 InputPlaces <- {"req"}, OutputPlaces <- {"resp"},
                 PartnerName <- [p \in {"req", "resp"} |->
                                   IF p = "req" THEN "treq" ELSE "tresp"],
                 MaxSize <- NetMaxSize

ASSUME NetAssumption == Closed!NamesAreFree

NetPlaces      == OpenPlaces
NetTransitions == Closed!MaxTransitions
NetIncoming    == Closed!MaxIncoming
NetOutgoing    == Closed!MaxOutgoing
NetMinTime     == Closed!MaxMinTime
NetMaxTime     == Closed!MaxMaxTime
NetLabel       == Closed!MaxLabel

NetPlaceList      == <<"ready", "busy", "req", "resp">>
NetTransitionList == <<"take", "give", "slip", "treq", "tresp">>

NetBound          == [p \in NetPlaces |-> 1]
NetInitialMarking == [p \in NetPlaces |-> IF p = "ready" THEN 1 ELSE 0]
NetFinalMarkings  == {NetInitialMarking, [NetInitialMarking EXCEPT !["resp"] = 1]}

(***************************************************************************)
(* The hypotheses of the theorems hold of this net: its labels tell the    *)
(* types, and no net state within the bounds fires silently twice in a row.*)
(***************************************************************************)
ASSUME LabelsFit == LabelsTellTypes

BoundedStates == [place : [NetPlaces -> 0 .. 1], time : [NetTransitions -> Size]]

ASSUME SilenceEnds ==
  \A s \in BoundedStates, t \in Silent :
    IsFireable(t, s) =>
      LET r == FireTransition(t, s)
      IN  IsBounded(r) => \A u \in Silent : ~ IsFireable(u, r)
=============================================================================
