------------------------------- MODULE NetLoading -------------------------------
(***************************************************************************)
(* What becomes of a net before anything is constructed from it: net2cl    *)
(* parses it and hands it to ConstructMaximalNet, which goes through the   *)
(* places and adds a partner transition for each that belongs to the       *)
(* interface - to the very net it was given, so that an exception on the   *)
(* way leaves it half closed.  A caller of the library, as the tests are,  *)
(* may delete nodes and arcs of a net it has.                              *)
(***************************************************************************)
EXTENDS NetParser

CONSTANT PartnerName    \* "t" + the name of a place

\* Names that start with a letter in common are different if the rest is.
ASSUME PartnerAssumption ==
  \A p, q \in PlaceNames : PartnerName[p] = PartnerName[q] => p = q

VARIABLES opened,       \* the net as ConstructMaximalNet was given it
          visited       \* the number of places it has gone through
vars == <<net, phase, section, current, opened, visited>>

LoadInit == Init /\ opened = NewNet /\ visited = 0

ReadText == Parse /\ UNCHANGED <<opened, visited>>

StartMaximal == /\ phase = "loaded" /\ phase' = "closing"
                /\ opened' = net
                /\ UNCHANGED <<net, section, current, visited>>

AtPlace == net.placeList[visited + 1]
IsBoth(p) == net.place[p].input /\ net.place[p].output

Partner(n, p) == LET t == PartnerName[p]
                     m == CreateTransition(n, t, <<0, MaxSize>>)
                 IN  IF n.place[p].input THEN ConnectToPlace(m, t, p)
                                         ELSE ConnectToTransition(m, p, t)

\* Variant: a partner that cannot be added is left out.
VisitPlaceAnyway ==
  /\ phase = "closing" /\ visited < Len(net.placeList)
  /\ LET p == AtPlace
     IN  IF p \in InputPlacesOf(net) \cup OutputPlacesOf(net)
            /\ ~ IsBoth(p) /\ ~ HasTransition(net, PartnerName[p])
         THEN Accept(Partner(net, p)) ELSE UNCHANGED <<net, phase>>
  /\ visited' = visited + 1
  /\ UNCHANGED <<section, current, opened>>

\* A place of both kinds breaks an assertion; a name that is taken throws.
VisitPlace ==
  /\ phase = "closing" /\ visited < Len(net.placeList)
  /\ LET p == AtPlace
     IN  CASE IsBoth(p) -> phase' = "asserted" /\ UNCHANGED net
           [] p \notin InputPlacesOf(net) \cup OutputPlacesOf(net) -> UNCHANGED <<net, phase>>
           [] OTHER -> IF HasTransition(net, PartnerName[p])
                       THEN phase' = "clash" /\ UNCHANGED net
                       ELSE Accept(Partner(net, p))
  /\ visited' = visited + 1
  /\ UNCHANGED <<section, current, opened>>

\* The interface places at the other ends of a transition's arcs, one per arc.
PresetIOArcs(n, t)  == {a \in n.transition[t].incoming :
                          n.arc[a].source \in InputPlacesOf(n) \cup OutputPlacesOf(n)}
PostsetIOArcs(n, t) == {a \in n.transition[t].outgoing :
                          n.arc[a].target \in InputPlacesOf(n) \cup OutputPlacesOf(n)}

Labelled(n, t) ==
  LET pre == PresetIOArcs(n, t)  post == PostsetIOArcs(n, t)
  IN  CASE Cardinality(pre) = 1 /\ post = {} -> <<n.arc[CHOOSE a \in pre : TRUE].source, "?">>
        [] pre = {} /\ Cardinality(post) = 1 -> <<n.arc[CHOOSE a \in post : TRUE].target, "!">>
        [] OTHER -> <<>>

SetTransitionLabels ==
  /\ phase = "closing" /\ visited = Len(net.placeList)
  /\ phase' = "closed"
  /\ net' = [net EXCEPT !.transition = [t \in DOMAIN @ |-> [@[t] EXCEPT !.label = Labelled(net, t)]]]
  /\ UNCHANGED <<section, current, opened, visited>>

\* The caller has a net to change; what it was closed from is no concern of his.
Edit(n) == /\ phase \in {"loaded", "edited"} /\ phase' = "edited"
           /\ net' = n
           /\ UNCHANGED <<section, current, opened, visited>>

EditNet == \/ \E p \in DOMAIN net.place : Edit(DeletePlace(net, p))
           \/ \E t \in DOMAIN net.transition : Edit(DeleteTransition(net, t))
           \/ \E a \in DOMAIN net.arc : Edit(Disconnect(net, a))

Next == ReadText \/ StartMaximal \/ VisitPlace \/ SetTransitionLabels \/ EditNet

LoadSpec == LoadInit /\ [][Next]_vars

-----------------------------------------------------------------------------
(***************************************************************************)
(* Whoever asks, the arcs are the same: the net's two lists, the arcs that *)
(* leave a node and those that enter one agree, and every arc leads from a *)
(* node of the net to another.  Deletions may leave no arc that points to  *)
(* a node that is gone, and no node may hold an arc that is deleted.       *)
(***************************************************************************)
ArcsAgree ==
  /\ net.consuming \cup net.producing = DOMAIN net.arc
  /\ \A a \in net.consuming : net.arc[a].source \in DOMAIN net.place
                              /\ net.arc[a].target \in DOMAIN net.transition
  /\ \A a \in net.producing : net.arc[a].source \in DOMAIN net.transition
                              /\ net.arc[a].target \in DOMAIN net.place
  /\ \A p \in DOMAIN net.place :
       /\ net.place[p].outgoing = {a \in net.consuming : net.arc[a].source = p}
       /\ net.place[p].incoming = {a \in net.producing : net.arc[a].target = p}
  /\ \A t \in DOMAIN net.transition :
       /\ net.transition[t].incoming = {a \in net.consuming : net.arc[a].target = t}
       /\ net.transition[t].outgoing = {a \in net.producing : net.arc[a].source = t}

(***************************************************************************)
(* A net that has been read, and is closed if it is, is what the module    *)
(* IntervalNet assumes of one: intervals are not empty, every place and    *)
(* every transition has an entry of its own in a marking, and markings     *)
(* have an entry for each place, the initial one if there was one in the   *)
(* text (without a MARKING section it has none at all, and the first look  *)
(* at it breaks the assertion of Marking::operator[]).                     *)
(***************************************************************************)
LoadedNetIsSound ==
  phase \in {"loaded", "closing", "closed"} =>
    /\ \A t \in DOMAIN net.transition : Earliest(net)[t] <= Latest(net)[t]
    /\ \A i \in DOMAIN net.placeList : net.place[net.placeList[i]].index = i - 1
    /\ \A i \in DOMAIN net.transitionList : net.transition[net.transitionList[i]].index = i - 1
    /\ \A m \in net.finals \cup ({net.initial} \ {EmptyFunction}) : DOMAIN m = Positions(net)

(***************************************************************************)
(* The filter works in place and may stop half way, and still comes to     *)
(* what ConstructMaximalNet defines: if it ends, the net is the maximal    *)
(* net of the one it was given, arcs, times and labels; it throws exactly  *)
(* if the name of a partner is taken, and has then added the partners of   *)
(* the places before the one that failed and nothing else.                 *)
(***************************************************************************)
Maximal == INSTANCE ConstructMaximalNet
             WITH Places       <- DOMAIN opened.place,
                  Transitions  <- DOMAIN opened.transition,
                  Incoming     <- IncomingCount(opened),
                  Outgoing     <- OutgoingCount(opened),
                  MinTime      <- Earliest(opened),
                  MaxTime      <- Latest(opened),
                  InputPlaces  <- InputPlacesOf(opened),
                  OutputPlaces <- OutputPlacesOf(opened)

PartnersOfFirst(k) ==
  {PartnerName[p] : p \in {opened.placeList[i] : i \in 1 .. k} \cap Maximal!InterfacePlaces}

MaximalNetIsExact ==
  /\ phase \in {"clash", "asserted"} => ~ Maximal!NamesAreFree
  /\ phase = "closed" =>
       /\ Maximal!NamesAreFree
       /\ DOMAIN net.transition = Maximal!MaxTransitions
       /\ IncomingCount(net) = Maximal!MaxIncoming
       /\ OutgoingCount(net) = Maximal!MaxOutgoing
       /\ Earliest(net) = Maximal!MaxMinTime
       /\ Latest(net) = Maximal!MaxMaxTime
       /\ LabelsOf(net) = Maximal!MaxLabel
  /\ phase \in {"clash", "asserted"} =>
       DOMAIN net.transition = DOMAIN opened.transition \cup PartnersOfFirst(visited - 1)
=============================================================================
