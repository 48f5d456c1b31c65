------------------------------- MODULE NetParser -------------------------------
(***************************************************************************)
(* NetParser::parse (src/src/IntervalNetParser.cpp) at the level of its    *)
(* productions: what is read next is any of them, and each is accepted or  *)
(* refused as the code does.  The sections of a net file come in one       *)
(* order, all of them optional; a section is left when one behind it, or   *)
(* the end, is read.  Whatever is refused ends in an exception, which      *)
(* hands no net to the caller.                                             *)
(***************************************************************************)
EXTENDS NetBuilding

CONSTANTS PlaceNames, TransitionNames,   \* the identifiers of the text
          Bounds,       \* 0 without SAFE, 1 with SAFE, otherwise what follows SAFE
          Intervals,    \* pairs written behind TIME, <<0, MaxSize>> if there are none
          Tokens,       \* numbers in markings
          MaxArcs       \* bound on the arcs of a net

\* The numbers behind TIME are size_t; a negative one is refused (Malformed).
ASSUME NumberAssumption ==
  MaxSize \in Nat /\ Intervals \subseteq (0 .. MaxSize) \X (0 .. MaxSize)

VARIABLES net,          \* the net under construction
          phase,        \* "start", "text", "loaded", "refused", and those of NetLoading
          section,      \* the section in hand
          current       \* the transition in hand, a set of one or none
parserVars == <<net, phase, section, current>>

Rank == [begin |-> 0, place |-> 1, input |-> 2, output |-> 3, marking |-> 4,
         transition |-> 5, consume |-> 6, produce |-> 7, final |-> 8]

Init == /\ net = NewNet
        /\ phase = "start"
        /\ section = "begin"
        /\ current = {}

\* A text without a single token is an empty net; everything else starts with TIMENET.
EmptyText == /\ phase = "start" /\ phase' = "loaded"
             /\ UNCHANGED <<net, section, current>>

TimeNet == /\ phase = "start" /\ phase' = "text"
           /\ UNCHANGED <<net, section, current>>

\* The production belongs to section s, where the parser is or can go.
In(s)   == phase = "text" /\ Rank[section] <= Rank[s] /\ section' = s
Once(s) == section # s /\ In(s)

Accept(n) == net' = n /\ UNCHANGED phase
Refuse    == phase' = "refused" /\ UNCHANGED net

\* A wrong token, a negative number or an arc of multiplicity other than 1, anywhere.
Malformed == /\ phase \in {"start", "text"} /\ Refuse
             /\ UNCHANGED <<section, current>>

ParsePlace(p, bound) ==
  /\ In("place")
  /\ IF HasPlace(net, p) THEN Refuse ELSE Accept(CreatePlace(net, p, bound))
  /\ UNCHANGED current

ParseInputPlace(p) ==
  /\ In("input")
  /\ IF HasPlace(net, p) THEN Accept([net EXCEPT !.place[p].input = TRUE]) ELSE Refuse
  /\ UNCHANGED current

ParseOutputPlace(p) ==
  /\ In("output")
  /\ IF HasPlace(net, p) THEN Accept([net EXCEPT !.place[p].output = TRUE]) ELSE Refuse
  /\ UNCHANGED current

\* Places that are not listed have no token; a place that does not exist is Malformed.
ParseMarking ==
  /\ Once("marking")
  /\ \E m \in MarkingsOver(net, Tokens) : Accept([net EXCEPT !.initial = m])
  /\ UNCHANGED current

\* Behind the sections for places and the initial marking; a transition ends where the
\* next one begins.
InTransitions == /\ phase = "text" /\ Rank[section] < Rank["final"]
                 /\ section' = "transition"

\* Variant: any interval will do.
ParseAnyTransition(t, interval) ==
  /\ InTransitions
  /\ IF HasTransition(net, t) THEN Refuse ELSE Accept(CreateTransition(net, t, interval))
  /\ current' = {t}

\* The constructor of the interval and the net object to what they are given.
ParseTransition(t, interval) ==
  /\ InTransitions
  /\ IF interval[1] > interval[2] \/ HasTransition(net, t)
     THEN Refuse ELSE Accept(CreateTransition(net, t, interval))
  /\ current' = {t}

ParseIncomingArc(p) ==
  /\ current # {} /\ Cardinality(DOMAIN net.arc) < MaxArcs
  /\ In("consume")
  /\ \E t \in current : IF HasPlace(net, p) THEN Accept(ConnectToTransition(net, p, t))
                                            ELSE Refuse
  /\ UNCHANGED current

ParseOutgoingArc(p) ==
  /\ current # {} /\ Cardinality(DOMAIN net.arc) < MaxArcs
  /\ In("produce")
  /\ \E t \in current : IF HasPlace(net, p) THEN Accept(ConnectToPlace(net, t, p))
                                            ELSE Refuse
  /\ UNCHANGED current

ParseFinalMarking ==
  /\ In("final")
  /\ \E m \in MarkingsOver(net, Tokens) : Accept([net EXCEPT !.finals = @ \cup {m}])
  /\ current' = {}

\* The text may end behind any production, and behind the name of a transition: that
\* transition is dropped without a word.
EndOfText == /\ phase = "text" /\ phase' = "loaded"
             /\ UNCHANGED <<net, section, current>>

Parse ==
  \/ EmptyText \/ TimeNet \/ Malformed \/ EndOfText
  \/ \E p \in PlaceNames : \/ \E bound \in Bounds : ParsePlace(p, bound)
                           \/ ParseInputPlace(p) \/ ParseOutputPlace(p)
                           \/ ParseIncomingArc(p) \/ ParseOutgoingArc(p)
  \/ \E t \in TransitionNames, interval \in Intervals : ParseTransition(t, interval)
  \/ ParseMarking \/ ParseFinalMarking
=============================================================================
