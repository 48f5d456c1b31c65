-------------------------------- MODULE MCNet --------------------------------
(***************************************************************************)
(* A small open net for model checking, closed by ConstructMaximalNet.  It *)
(* has what the firing rule distinguishes: a conflict (work, drop), a      *)
(* transition with two input places (drop), one that puts back the token   *)
(* it takes (poll), one that starts at zero (serve), one without latest    *)
(* time and, from the maximal partner, one without input places.           *)
(***************************************************************************)
EXTENDS Naturals

OpenPlaces == {"idle", "job", "done", "in"}
OpenTransitions == {"work", "drop", "poll", "serve"}

ConsumesArcs == {<<"work", "idle">>, <<"work", "in">>, <<"drop", "idle">>, <<"drop", "job">>,
                 <<"poll", "job">>, <<"serve", "job">>, <<"serve", "done">>}
ProducesArcs == {<<"work", "job">>, <<"work", "done">>, <<"drop", "idle">>,
                 <<"poll", "job">>, <<"serve", "idle">>}

ArcCount(arcs) ==
  [t \in OpenTransitions |-> [p \in OpenPlaces |-> IF <<t, p>> \in arcs THEN 1 ELSE 0]]

NetMaxSize == 7

OpenMinTime == [t \in OpenTransitions |->
  CASE t = "work" -> 1 [] t = "drop" -> 2 [] t = "poll" -> 2 [] t = "serve" -> 0]
OpenMaxTime == [t \in OpenTransitions |->
  CASE t = "work" -> 3 [] t = "drop" -> NetMaxSize [] t = "poll" -> 3 [] t = "serve" -> 6]

Closed == INSTANCE ConstructMaximalNet
            WITH Places <- OpenPlaces, Transitions <- OpenTransitions,
                 Incoming <- ArcCount(ConsumesArcs), Outgoing <- ArcCount(ProducesArcs),
                 MinTime <- OpenMinTime, MaxTime <- OpenMaxTime,
                 InputPlaces <- {"in"}, OutputPlaces <- {},
                 PartnerName <- [p \in {"in"} |-> "tin"], MaxSize <- NetMaxSize

ASSUME NetAssumption == Closed!NamesAreFree

NetPlaces      == OpenPlaces
NetTransitions == Closed!MaxTransitions
NetIncoming    == Closed!MaxIncoming
NetOutgoing    == Closed!MaxOutgoing
NetMinTime     == Closed!MaxMinTime
NetMaxTime     == Closed!MaxMaxTime
NetLabel       == Closed!MaxLabel

NetPlaceList      == <<"idle", "job", "done", "in">>
NetTransitionList == <<"work", "drop", "poll", "serve", "tin">>

NetBound          == [p \in NetPlaces |-> 2]
NetInitialMarking == [p \in NetPlaces |-> IF p = "idle" THEN 2 ELSE 0]
NetFinalMarkings  == {NetInitialMarking}
=============================================================================
