----------------------------- MODULE AutomatonStore -----------------------------
(***************************************************************************)
(* How Automaton (src/src/Automaton.h, GraphNode.h, GraphEdge.h) keeps its *)
(* states and edges.  An edge is an object held three times: by the set    *)
(* m_edges, which is ordered by the ends and labels of the edges in it, by *)
(* the list of the state it leaves and by the list of the state it enters. *)
(* deleteState and replaceState take these apart and put them together     *)
(* edge by edge, in the order of the lists, which the model leaves open.   *)
(* An address is free again when the object is deleted.                    *)
(***************************************************************************)
LOCAL INSTANCE Functions

CONSTANTS Names,       \* the keys of states
          Labels,      \* of edges; unobservable ones have the empty label
          Addresses    \* of edge objects, a bound on their number

VARIABLES states,      \* m_states
          edge,        \* the edge objects, by address
          edges,       \* m_edges
          outgoing,    \* m_outgoing and m_incoming of each state
          incoming,
          initial,     \* m_initialState, empty if it is NULL
          final,       \* m_finalStates, and the flags of the states
          call         \* the operation in hand
storeVars == <<states, edge, edges, outgoing, incoming, initial, final, call>>

Idle    == [op |-> "none"]
NoEdges == [s \in Names |-> {}]

StoreInit == /\ states = {} /\ edge = <<>> /\ edges = {}
             /\ outgoing = NoEdges /\ incoming = NoEdges
             /\ initial = {} /\ final = {}
             /\ call = Idle

-----------------------------------------------------------------------------
\* Building.  A key that is taken throws and changes nothing.
CreateState(s) ==
  /\ call = Idle /\ s \notin states
  /\ states' = states \cup {s}
  /\ UNCHANGED <<edge, edges, outgoing, incoming, initial, final, call>>

IsEqual(e, f) == e = f    \* EdgeLess orders by source, target and label

\* An equal edge is returned instead of a new one.
Connect(s, l, t) ==
  /\ call = Idle /\ {s, t} \subseteq states
  /\ LET new == [source |-> s, label |-> l, target |-> t]
     IN  /\ ~ \E a \in edges : IsEqual(edge[a], new)
         /\ \E a \in Addresses \ DOMAIN edge :
              /\ edge'     = [b \in DOMAIN edge \cup {a} |-> IF b = a THEN new ELSE edge[b]]
              /\ outgoing' = [outgoing EXCEPT ![s] = @ \cup {a}]
              /\ incoming' = [incoming EXCEPT ![t] = @ \cup {a}]
              /\ edges'    = edges \cup {a}
  /\ UNCHANGED <<states, initial, final, call>>

SetInitialState(s) ==
  /\ call = Idle /\ s \in states
  /\ initial' = {s}
  /\ UNCHANGED <<states, edge, edges, outgoing, incoming, final, call>>

AddFinalState(s) ==
  /\ call = Idle /\ s \in states
  /\ final' = final \cup {s}
  /\ UNCHANGED <<states, edge, edges, outgoing, incoming, initial, call>>

-----------------------------------------------------------------------------
(***************************************************************************)
(* deleteState.  The loops go through the lists of the dying state as they *)
(* find them; a loop edge is gone before the second begins.                *)
(***************************************************************************)
DeleteState(s) ==
  /\ call = Idle /\ s \in states
  /\ call' = [op |-> "incoming", state |-> s, todo |-> incoming[s]]
  /\ UNCHANGED <<states, edge, edges, outgoing, incoming, initial, final>>

Unlisted(a)  == {b \in edges : ~ IsEqual(edge[b], edge[a])}
Destroyed(a) == Restrict(edge, DOMAIN edge \ {a})

\* Variant: the edge is not taken from the state it comes from.
DestroyIncomingEdge(a) ==
  /\ edges' = Unlisted(a) /\ edge' = Destroyed(a)
  /\ call' = [call EXCEPT !.todo = @ \ {a}]
  /\ UNCHANGED <<states, outgoing, incoming, initial, final>>

DeleteIncomingEdge(a) ==
  /\ edges'    = Unlisted(a)
  /\ outgoing' = [outgoing EXCEPT ![edge[a].source] = @ \ {a}]
  /\ edge'     = Destroyed(a)
  /\ call'     = [call EXCEPT !.todo = @ \ {a}]
  /\ UNCHANGED <<states, incoming, initial, final>>

DeleteOutgoingEdges ==
  /\ call.op = "incoming" /\ call.todo = {}
  /\ call' = [call EXCEPT !.op = "outgoing", !.todo = outgoing[call.state]]
  /\ UNCHANGED <<states, edge, edges, outgoing, incoming, initial, final>>

DeleteOutgoingEdge(a) ==
  /\ edges'    = Unlisted(a)
  /\ incoming' = [incoming EXCEPT ![edge[a].target] = @ \ {a}]
  /\ edge'     = Destroyed(a)
  /\ call'     = [call EXCEPT !.todo = @ \ {a}]
  /\ UNCHANGED <<states, outgoing, initial, final>>

EraseState ==
  /\ call.op = "outgoing" /\ call.todo = {}
  /\ states'   = states \ {call.state}
  /\ initial'  = initial \ {call.state}
  /\ final'    = final \ {call.state}
  /\ outgoing' = [outgoing EXCEPT ![call.state] = {}]
  /\ incoming' = [incoming EXCEPT ![call.state] = {}]
  /\ call'     = Idle
  /\ UNCHANGED <<edge, edges>>

-----------------------------------------------------------------------------
(***************************************************************************)
(* replaceState, with a state that was created for it and has no edges, as *)
(* boundViolationState calls it.  The edges leave m_edges while their ends *)
(* change.                                                                 *)
(***************************************************************************)
EdgesAt(s) == incoming[s] \cup outgoing[s]

\* Variant: the edges stay in m_edges.
ReplaceListed(old, new) ==
  /\ call = Idle /\ old \in states /\ new \notin states
  /\ states' = (states \cup {new}) \ {old}
  /\ call'   = [op |-> "sources", state |-> old, by |-> new]
  /\ UNCHANGED <<edge, edges, outgoing, incoming, initial, final>>

ReplaceState(old, new) ==
  /\ call = Idle /\ old \in states /\ new \notin states
  /\ states' = (states \cup {new}) \ {old}
  /\ edges'  = {b \in edges : \A a \in EdgesAt(old) : ~ IsEqual(edge[b], edge[a])}
  /\ call'   = [op |-> "sources", state |-> old, by |-> new]
  /\ UNCHANGED <<edge, outgoing, incoming, initial, final>>

ReplaceSource(a) ==
  /\ call.op = "sources"
  /\ edge'     = [edge EXCEPT ![a].source = call.by]
  /\ outgoing' = [outgoing EXCEPT ![call.state] = @ \ {a}, ![call.by] = @ \cup {a}]
  /\ UNCHANGED <<states, edges, incoming, initial, final, call>>

ReplaceTargets ==
  /\ call.op = "sources" /\ outgoing[call.state] = {}
  /\ call' = [call EXCEPT !.op = "targets"]
  /\ UNCHANGED <<states, edge, edges, outgoing, incoming, initial, final>>

ReplaceTarget(a) ==
  /\ call.op = "targets"
  /\ edge'     = [edge EXCEPT ![a].target = call.by]
  /\ incoming' = [incoming EXCEPT ![call.state] = @ \ {a}, ![call.by] = @ \cup {a}]
  /\ UNCHANGED <<states, edges, outgoing, initial, final, call>>

RenamedNot(S) == S        \* variant: the initial and final states are not moved
Renamed(S) == IF call.state \in S THEN (S \ {call.state}) \cup {call.by} ELSE S

FinishReplace ==
  /\ call.op = "targets" /\ incoming[call.state] = {}
  /\ edges'   = edges \cup EdgesAt(call.by)
  /\ initial' = Renamed(initial)
  /\ final'   = Renamed(final)
  /\ call'    = Idle
  /\ UNCHANGED <<states, edge, outgoing, incoming>>

-----------------------------------------------------------------------------
Build == \E s \in Names :
           \/ CreateState(s) \/ SetInitialState(s) \/ AddFinalState(s)
           \/ \E l \in Labels, t \in Names : Connect(s, l, t)

Deletion == \/ \E s \in Names : DeleteState(s)
            \/ /\ call.op = "incoming"
               /\ \E a \in call.todo : DeleteIncomingEdge(a)
            \/ DeleteOutgoingEdges
            \/ /\ call.op = "outgoing"
               /\ \E a \in call.todo : DeleteOutgoingEdge(a)
            \/ EraseState

Replacement == \/ \E old, new \in Names : ReplaceState(old, new)
               \/ /\ call.op = "sources"
                  /\ \E a \in outgoing[call.state] : ReplaceSource(a)
               \/ ReplaceTargets
               \/ /\ call.op = "targets"
                  /\ \E a \in incoming[call.state] : ReplaceTarget(a)
               \/ FinishReplace

StoreNext == Build \/ Deletion \/ Replacement

-----------------------------------------------------------------------------
Dying == IF call.op \in {"incoming", "outgoing"} THEN {call.state} ELSE {}
Old   == IF call.op \in {"sources", "targets"} THEN {call.state} ELSE {}

(***************************************************************************)
(* Whatever was called, in any order of the lists: when it is over, the    *)
(* three holders agree on the edges, no two edges are equal, and nothing   *)
(* refers to a state that is gone.  In the middle, no state but the dying  *)
(* one, and no loop, holds an edge that is deleted.                        *)
(***************************************************************************)
StoresAgree ==
  /\ call = Idle =>
       /\ edges = DOMAIN edge
       /\ \A a, b \in edges : edge[a] = edge[b] => a = b
       /\ \A s \in Names : /\ outgoing[s] = {a \in edges : edge[a].source = s}
                           /\ incoming[s] = {a \in edges : edge[a].target = s}
       /\ \A a \in edges : {edge[a].source, edge[a].target} \subseteq states
       /\ initial \cup final \subseteq states
  /\ edges \subseteq DOMAIN edge
  /\ \A s \in Names \ Dying : EdgesAt(s) \subseteq DOMAIN edge
  /\ Dying # {} => call.todo \subseteq DOMAIN edge

(***************************************************************************)
(* m_edges is a search tree over the ends and labels of the edges in it:   *)
(* an edge must not change, nor be deleted, while it is there, or it and   *)
(* others are not found again.                                             *)
(***************************************************************************)
EdgesStaySorted ==
  [][\A a \in edges \cap edges' : a \in DOMAIN edge' /\ edge'[a] = edge[a]]_storeVars

(***************************************************************************)
(* The operations come to what AutomatonGraph says, in one step each: a    *)
(* deletion takes effect when it is called, and so does a replacement.     *)
(***************************************************************************)
New(s) == IF s \in Old THEN call.by ELSE s

Graph == INSTANCE AutomatonGraph
           WITH nodes   <- states \ Dying,
                triples <- {<<New(e.source), e.label, New(e.target)>> :
                              e \in {f \in {edge[a] : a \in DOMAIN edge} :
                                       Dying \cap {f.source, f.target} = {}}},
                initial <- {New(s) : s \in initial \ Dying},
                final   <- {New(s) : s \in final \ Dying}

ImplementsGraph == Graph!GraphSpec
=============================================================================
