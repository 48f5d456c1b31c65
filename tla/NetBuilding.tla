------------------------------ MODULE NetBuilding ------------------------------
(***************************************************************************)
(* How Interval::Net stores a net, and the operations that change it       *)
(* (src/src/IntervalNet.cpp, IntervalNet.h, NetNode.h, GraphNode.h,        *)
(* GraphEdge.h).  Places and transitions are objects found by name and     *)
(* listed in the order of their creation; an arc is an object that is held *)
(* three times: by the net, by the node it leaves and by the node it       *)
(* enters.  Each operation maps a net to the next one.                     *)
(***************************************************************************)
EXTENDS Naturals, Sequences, FiniteSets, Functions

LOCAL INSTANCE SequencesExt

CONSTANT MaxSize    \* std::numeric_limits<size_t>::max()

EmptyFunction == <<>>

NewNet ==
  [placeList      |-> <<>>,          \* NetNodeStore::m_nodes, by name
   transitionList |-> <<>>,
   nextPlace      |-> 0,             \* NetNodeStore::m_nextIndex
   nextTransition |-> 0,
   place          |-> EmptyFunction, \* the objects, by name
   transition     |-> EmptyFunction,
   arc            |-> EmptyFunction, \* the arcs, by address
   consuming      |-> {},            \* m_placeToTransitionArcs
   producing      |-> {},            \* m_transitionToPlaceArcs
   initial        |-> EmptyFunction, \* a marking of size 0
   finals         |-> {}]

HasPlace(n, p)      == p \in DOMAIN n.place
HasTransition(n, t) == t \in DOMAIN n.transition

With(f, x, y) == [z \in DOMAIN f \cup {x} |-> IF z = x THEN y ELSE f[z]]

\* Nodes.  Both throw when the name is taken; the guard is the caller's HasPlace.
CreatePlace(n, p, bound) ==
  [n EXCEPT !.placeList = Append(@, p),
            !.nextPlace = @ + 1,
            !.place = With(@, p, [index |-> n.nextPlace, bound |-> bound,
                                  input |-> FALSE, output |-> FALSE,
                                  incoming |-> {}, outgoing |-> {}])]

\* The label starts as the name, which <<t>> keeps apart from the labels given later.
CreateTransition(n, t, interval) ==
  [n EXCEPT !.transitionList = Append(@, t),
            !.nextTransition = @ + 1,
            !.transition = With(@, t, [index |-> n.nextTransition, interval |-> interval,
                                       label |-> <<t>>, incoming |-> {}, outgoing |-> {}])]

-----------------------------------------------------------------------------
(***************************************************************************)
(* Arcs.  connect never looks for an arc that joins the same two nodes.    *)
(* A new arc gets an address that is not in use.                           *)
(***************************************************************************)
FreshArc(n) == CHOOSE a \in 1 .. Cardinality(DOMAIN n.arc) + 1 : a \notin DOMAIN n.arc

ConnectToTransition(n, p, t) ==
  LET a == FreshArc(n)
  IN  [n EXCEPT !.arc = With(@, a, [source |-> p, target |-> t]),
                !.place[p].outgoing = @ \cup {a},
                !.transition[t].incoming = @ \cup {a},
                !.consuming = @ \cup {a}]

ConnectToPlace(n, t, p) ==
  LET a == FreshArc(n)
  IN  [n EXCEPT !.arc = With(@, a, [source |-> t, target |-> p]),
                !.transition[t].outgoing = @ \cup {a},
                !.place[p].incoming = @ \cup {a},
                !.producing = @ \cup {a}]

\* Every list of the nodes loses the arcs A, which are then deleted.
RemoveIncoming(nodes, A) == [x \in DOMAIN nodes |-> [nodes[x] EXCEPT !.incoming = @ \ A]]
RemoveOutgoing(nodes, A) == [x \in DOMAIN nodes |-> [nodes[x] EXCEPT !.outgoing = @ \ A]]
WithoutArcs(n, A)        == Restrict(n.arc, DOMAIN n.arc \ A)

\* One arc, from both ends.
Disconnect(n, a) ==
  [n EXCEPT !.place      = RemoveIncoming(RemoveOutgoing(@, {a}), {a}),
            !.transition = RemoveIncoming(RemoveOutgoing(@, {a}), {a}),
            !.consuming  = @ \ {a},
            !.producing  = @ \ {a},
            !.arc        = WithoutArcs(n, {a})]

(***************************************************************************)
(* A node goes with its arcs, which its neighbours and the net forget.     *)
(* Indexes are not given out again, and markings keep the entry.           *)
(***************************************************************************)
DeletePlace(n, p) ==
  LET in  == n.place[p].incoming
      out == n.place[p].outgoing
  IN  [n EXCEPT !.transition = RemoveIncoming(RemoveOutgoing(@, in), out),
                !.producing  = @ \ in,
                !.consuming  = @ \ out,
                !.arc        = WithoutArcs(n, in \cup out),
                !.place      = Restrict(@, DOMAIN @ \ {p}),
                !.placeList  = Remove(@, p)]

\* Variant: the arcs that leave the transition stay with the places they enter.
DeleteTransitionOnly(n, t) ==
  LET in  == n.transition[t].incoming
      out == n.transition[t].outgoing
  IN  [n EXCEPT !.place          = RemoveOutgoing(@, in),
                !.consuming      = @ \ in,
                !.producing      = @ \ out,
                !.arc            = WithoutArcs(n, in \cup out),
                !.transition     = Restrict(@, DOMAIN @ \ {t}),
                !.transitionList = Remove(@, t)]

DeleteTransition(n, t) ==
  LET in  == n.transition[t].incoming
      out == n.transition[t].outgoing
  IN  [n EXCEPT !.place          = RemoveIncoming(RemoveOutgoing(@, in), out),
                !.consuming      = @ \ in,
                !.producing      = @ \ out,
                !.arc            = WithoutArcs(n, in \cup out),
                !.transition     = Restrict(@, DOMAIN @ \ {t}),
                !.transitionList = Remove(@, t)]

-----------------------------------------------------------------------------
\* A marking has an entry for each place the net has when the marking is written down.
Positions(n)     == 0 .. Len(n.placeList) - 1
MarkingsOver(n, T) == [Positions(n) -> T]

InputPlacesOf(n)  == {p \in DOMAIN n.place : n.place[p].input}
OutputPlacesOf(n) == {p \in DOMAIN n.place : n.place[p].output}

\* The arcs as the module IntervalNet has them: counted, per transition and place.
IncomingCount(n) ==
  [t \in DOMAIN n.transition |-> [p \in DOMAIN n.place |->
     Cardinality({a \in n.transition[t].incoming : n.arc[a].source = p})]]
OutgoingCount(n) ==
  [t \in DOMAIN n.transition |-> [p \in DOMAIN n.place |->
     Cardinality({a \in n.transition[t].outgoing : n.arc[a].target = p})]]

Earliest(n) == [t \in DOMAIN n.transition |-> n.transition[t].interval[1]]
Latest(n)   == [t \in DOMAIN n.transition |-> n.transition[t].interval[2]]
LabelsOf(n) == [t \in DOMAIN n.transition |-> n.transition[t].label]
=============================================================================
