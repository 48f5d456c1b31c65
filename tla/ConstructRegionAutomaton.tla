----------------------- MODULE ConstructRegionAutomaton -----------------------
(***************************************************************************)
(* The filter ConstructRegionAutomaton and the RegionAutomaton it fills    *)
(* (src/src/ConstructRegionAutomaton.cpp, Region.cpp): the states of a     *)
(* closure automaton that service actions and time connect form a region,  *)
(* and partner actions lead from region to region.  buildRegion grows a    *)
(* region from a state not visited yet and then calls itself for the       *)
(* targets of the region's partner actions.  The order of the states of a  *)
(* region and of their edges is left open.  Edges carry a label here.      *)
(***************************************************************************)
EXTENDS ClosureGraph, Sequences

VARIABLES visited,    \* the closure states with m_visited set
          regions,    \* m_states of the region automaton, and through them m_regions
          edges,      \* its edges [source, label, target]
          calls       \* activations of buildSuccessors [region, todo], innermost first
regionVars == <<automaton, visited, regions, edges, calls>>

StaysInRegion(e) == IsServiceAction(e) \/ IsTimeAction(e)

\* growIncoming and growOutgoing.
Neighbours(a, P) ==
  {e.target : e \in {f \in a.edges : StaysInRegion(f) /\ f.source \in P}}
    \cup {e.source : e \in {f \in a.edges : StaysInRegion(f) /\ f.target \in P}}

\* growRegion: what is connected to s through states that are neither visited nor empty.
Grow(s) ==
  LET Fresh(P) == (P \cup Neighbours(automaton, P)) \ (visited \cup {EmptyState})
      R[n \in 0 .. Cardinality(automaton.states)] ==
        IF n = 0 THEN {s} ELSE UNION {Fresh(P) : P \in {R[n - 1]}}
  IN  R[Cardinality(automaton.states)]

\* The edges buildSuccessors goes on from.
Onward(a, R) == {e \in a.edges : e.source \in R /\ IsPartnerAction(e) /\ ~ ToEmpty(e)}

FindRegion(s) == {R \in regions : s \in R}

-----------------------------------------------------------------------------
RegionInit == /\ automaton \in Automata
              /\ visited = {} /\ regions = {} /\ edges = {} /\ calls = <<>>

\* The second part of buildRegion: a new region, and on to its successors.
\* Variant: only the state asked for is marked.
BuildMarkingOne(s, via, callers) ==
  \E R \in {Grow(s)} :
    /\ visited' = visited \cup {s}
    /\ regions' = regions \cup {R}
    /\ calls' = <<[region |-> R, via |-> via, todo |-> Onward(automaton, R)]>> \o callers
    /\ UNCHANGED <<automaton, edges>>

Build(s, via, callers) ==
  \E R \in {Grow(s)} :
    /\ visited' = visited \cup R
    /\ regions' = regions \cup {R}
    /\ calls' = <<[region |-> R, via |-> via, todo |-> Onward(automaton, R)]>> \o callers
    /\ UNCHANGED <<automaton, edges>>

StartRegions == /\ visited = {}
                /\ \E s \in automaton.initial : Build(s, {}, <<>>)

TopRegion == Head(calls)

Followed(e) == <<[TopRegion EXCEPT !.todo = @ \ {e}]>> \o Tail(calls)

KnownRegion(e) ==
  /\ e.target \in visited
  /\ \E R \in FindRegion(e.target) :
       edges' = edges \cup {[source |-> TopRegion.region, label |-> e.label, target |-> R]}
  /\ calls' = Followed(e)
  /\ UNCHANGED <<automaton, visited, regions>>

\* The edge is connected when the call has come back.
NewRegion(e) == e.target \notin visited /\ Build(e.target, {e}, Followed(e))

FollowEdge == calls # <<>> /\ \E e \in TopRegion.todo : KnownRegion(e) \/ NewRegion(e)

\* Variant: the edge put off is forgotten.
ReturnUnconnected ==
  /\ calls # <<>> /\ TopRegion.todo = {}
  /\ calls' = Tail(calls)
  /\ UNCHANGED <<automaton, visited, regions, edges>>

ReturnFromRegion ==
  /\ calls # <<>> /\ TopRegion.todo = {}
  /\ edges' = edges \cup {[source |-> calls[2].region, label |-> e.label,
                           target |-> TopRegion.region] : e \in TopRegion.via}
  /\ calls' = Tail(calls)
  /\ UNCHANGED <<automaton, visited, regions>>

RegionNext == StartRegions \/ FollowEdge \/ ReturnFromRegion

RegionSpec == RegionInit /\ [][RegionNext]_regionVars

-----------------------------------------------------------------------------
(***************************************************************************)
(* A visited state is in exactly one region: buildRegion asserts that it   *)
(* finds one (line 41), updateRegionMap that there was none before.        *)
(* Regions that share no state are told apart by their first states, which *)
(* is all that RegionState::KeyCmp can be trusted with: it looks for the   *)
(* end of its left argument in the right one.                              *)
(***************************************************************************)
VisitedMeansOneRegion ==
  /\ visited = UNION regions /\ {} \notin regions
  /\ \A s \in visited : Cardinality(FindRegion(s)) = 1

(***************************************************************************)
(* In the end regions are what they are meant to be: nothing the service   *)
(* or time does leads from one into another, no part of a region is cut    *)
(* off from the rest, each but the initial one is entered from another,    *)
(* and the edges between regions are the actions that lead from a state of *)
(* the one to a state of the other - none invented, and none lost although *)
(* the recursion met regions before their edges were there.                *)
(***************************************************************************)
IsClosed(P) ==
  \A e \in automaton.edges :
    (StaysInRegion(e) /\ {e.source, e.target} \cap {EmptyState} = {})
       => (e.source \in P <=> e.target \in P)

RegionsAreExact ==
  (visited # {} /\ calls = <<>>) =>
    /\ \A R \in regions : IsClosed(R) /\ \A P \in (SUBSET R) \ {{}, R} : ~ IsClosed(P)
    /\ \A R \in regions : \/ automaton.initial \subseteq R
                          \/ \E e \in edges : e.target = R /\ e.source # R
    /\ edges = {[source |-> x[1], label |-> x[2].label, target |-> x[3]] :
                  x \in {y \in regions \X automaton.edges \X regions :
                          y[2] \in Onward(automaton, y[1]) /\ y[2].target \in y[3]}}
=============================================================================
