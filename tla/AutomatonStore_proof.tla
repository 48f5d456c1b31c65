-------------------------- MODULE AutomatonStore_proof --------------------------
(***************************************************************************)
(* The proof that Automaton, whose operations take edges apart one by one, *)
(* implements the graph that AutomatonGraph promises, for any number of    *)
(* states, labels and edges, and that its three holders of edges agree     *)
(* whenever no operation is in hand.  The argument is IInv: it says, for   *)
(* each point of deleteState and replaceState, which of the holders are up *)
(* to date and what is still to do.                                        *)
(***************************************************************************)
EXTENDS SimpleAutomatonParser, TLAPS
LOCAL INSTANCE Functions

EdgeObjects == [source : Names, label : Labels, target : Names]

TypeOK ==
  /\ states \subseteq Names
  /\ DOMAIN edge \subseteq Addresses
  /\ edge \in [DOMAIN edge -> EdgeObjects]
  /\ outgoing \in [Names -> SUBSET Addresses]
  /\ incoming \in [Names -> SUBSET Addresses]
  /\ initial \subseteq Names /\ final \subseteq Names

\* The operations that take several steps.
Deletions    == [op : {"incoming", "outgoing"}, state : states, todo : SUBSET DOMAIN edge]
Replacements == [op : {"sources", "targets"}, state : Names \ states, by : states]

CallIsSound == call = Idle \/ (call \in Deletions \cup Replacements /\ phase = "built")

\* Edges leave m_edges while their ends are replaced, and only then.
Moving == IF call.op \in {"sources", "targets"} THEN {call.state, call.by} ELSE {}

EdgesListed ==
  edges = {a \in DOMAIN edge : {edge[a].source, edge[a].target} \cap Moving = {}}

Left(s)    == {a \in DOMAIN edge : edge[a].source = s}
Entering(s) == {a \in DOMAIN edge : edge[a].target = s}

\* The lists of the nodes, except those the loops of deleteState go through.
ListsAgree ==
  /\ \A s \in Names : (call.op = "outgoing" /\ s = call.state) \/ outgoing[s] = Left(s)
  /\ \A s \in Names \ Dying : incoming[s] = Entering(s)

\* How far the loops have come.
Progress ==
  /\ call.op = "incoming" => call.todo = Entering(call.state)
  /\ call.op = "outgoing" => call.todo = Left(call.state) /\ Entering(call.state) = {}
  /\ call.op = "sources"  => Entering(call.by) = {}
  /\ call.op = "targets"  => Left(call.state) = {}

EndsExist ==
  /\ \A a \in DOMAIN edge : {edge[a].source, edge[a].target} \subseteq states \cup Old
  /\ initial \cup final \subseteq states \cup Old

\* Edges are told apart by what they are, or will be when the replacement is over.
Triple(a)     == <<New(edge[a].source), edge[a].label, New(edge[a].target)>>
EdgesDistinct == \A a, b \in DOMAIN edge : Triple(a) = Triple(b) => a = b

IInv == /\ TypeOK /\ CallIsSound
        /\ EdgesListed /\ ListsAgree /\ Progress /\ EndsExist /\ EdgesDistinct

-----------------------------------------------------------------------------
\* What the names of the operations mean for the abbreviations that ask for them.
LEMMA CallCases ==
  ASSUME CallIsSound
  PROVE  /\ call = Idle => /\ call.op = "none" /\ Moving = {} /\ Dying = {} /\ Old = {}
         /\ call # Idle => /\ call.op \in {"incoming", "outgoing", "sources", "targets"}
                           /\ phase = "built"
         /\ call.op \in {"incoming", "outgoing"} =>
              /\ call = [op |-> call.op, state |-> call.state, todo |-> call.todo]
              /\ call.state \in states /\ call.todo \subseteq DOMAIN edge
              /\ Moving = {} /\ Dying = {call.state} /\ Old = {}
         /\ call.op \in {"sources", "targets"} =>
              /\ call = [op |-> call.op, state |-> call.state, by |-> call.by]
              /\ call.state \in Names \ states /\ call.by \in states
              /\ Moving = {call.state, call.by} /\ Dying = {} /\ Old = {call.state}
<1>1. CASE call = Idle
  BY <1>1 DEF Idle, Moving, Dying, Old
<1>2. CASE call \in Deletions /\ phase = "built"
  BY <1>2 DEF Deletions, Idle, Moving, Dying, Old
<1>3. CASE call \in Replacements /\ phase = "built"
  BY <1>3 DEF Replacements, Idle, Moving, Dying, Old
<1> QED
  BY <1>1, <1>2, <1>3 DEF CallIsSound

\* A new automaton has nothing to agree on.
LEMMA InitIInv == Init => IInv
<1> SUFFICES ASSUME Init PROVE IInv
  OBVIOUS
<1>1. /\ states = {} /\ edges = {} /\ initial = {} /\ final = {} /\ call = Idle
      /\ DOMAIN edge = {} /\ outgoing = NoEdges /\ incoming = NoEdges
  BY DEF Init, StoreInit
<1>2. edge \in [DOMAIN edge -> EdgeObjects]
  BY DEF Init, StoreInit
<1> QED
  BY <1>1, <1>2, CallCases
     DEF IInv, TypeOK, CallIsSound, EdgesListed, ListsAgree, Progress, EndsExist, EdgesDistinct,
         NoEdges, Left, Entering, Idle



\* What there is to say between the operations, which is where the building operations start
\* from and where every operation arrives.
IdleStore ==
  /\ TypeOK /\ call = Idle /\ edges = DOMAIN edge
  /\ \A s \in Names : outgoing[s] = Left(s) /\ incoming[s] = Entering(s)
  /\ \A a \in DOMAIN edge : edge[a].source \in states /\ edge[a].target \in states
  /\ initial \cup final \subseteq states
  /\ \A a, b \in DOMAIN edge : edge[a] = edge[b] => a = b

\* Between the operations, IInv and IdleStore say the same.
LEMMA IdleIInv == IdleStore <=> IInv /\ call = Idle
<1>1. ASSUME call = Idle
      PROVE  CallIsSound /\ call.op = "none" /\ Moving = {} /\ Dying = {} /\ Old = {}
  BY <1>1, CallCases DEF CallIsSound
<1>2. ASSUME TypeOK, call = Idle, NEW a \in DOMAIN edge, NEW b \in DOMAIN edge
      PROVE  Triple(a) = Triple(b) <=> edge[a] = edge[b]
  <2>1. edge[a] \in EdgeObjects /\ edge[b] \in EdgeObjects
    BY <1>2 DEF TypeOK
  <2> QED
    BY <1>1, <1>2, <2>1 DEF Triple, New, EdgeObjects
<1>3. ASSUME IdleStore PROVE IInv
  BY <1>1, <1>2, <1>3
     DEF IdleStore, IInv, EdgesListed, ListsAgree, Progress, EndsExist, EdgesDistinct
<1>4. ASSUME IInv, call = Idle PROVE IdleStore
  BY <1>1, <1>2, <1>4, SMTT(40) DEF IdleStore, IInv, EdgesListed, ListsAgree, EndsExist, EdgesDistinct
<1> QED
  BY <1>3, <1>4 DEF IdleStore

\* A new state has no edges.
LEMMA CreateStateIInv ==
  ASSUME IInv, NEW s \in Names, CreateState(s)
  PROVE  IInv'
<1>1. /\ call = Idle /\ call' = Idle /\ states' = states \cup {s}
      /\ UNCHANGED <<edge, edges, outgoing, incoming, initial, final>>
  BY DEF CreateState
<1>2. IdleStore'
  BY <1>1, IdleIInv DEF IdleStore, TypeOK, Left, Entering
<1> QED
  BY <1>2, IdleIInv, PTL

\* Marks are put on states that exist.
LEMMA MarkStateIInv ==
  ASSUME IInv, NEW s \in Names, SetInitialState(s) \/ AddFinalState(s)
  PROVE  IInv'
<1>1. /\ call = Idle /\ call' = Idle /\ s \in states
      /\ initial' \cup final' \subseteq initial \cup final \cup {s}
      /\ UNCHANGED <<states, edge, edges, outgoing, incoming>>
  BY DEF SetInitialState, AddFinalState
<1>2. IdleStore'
  BY <1>1, IdleIInv DEF IdleStore, TypeOK, Left, Entering
<1> QED
  BY <1>2, IdleIInv, PTL

\* connect adds an edge to all three holders.
LEMMA ConnectIInv ==
  ASSUME IInv, NEW s \in Names, NEW l \in Labels, NEW t \in Names, Connect(s, l, t)
  PROVE  IInv'
<1> DEFINE new == [source |-> s, label |-> l, target |-> t]
<1>1. /\ call = Idle /\ call' = Idle /\ s \in states /\ t \in states
      /\ \A a \in edges : edge[a] # new
      /\ UNCHANGED <<states, initial, final>>
  BY DEF Connect, IsEqual
<1>2. PICK a \in Addresses \ DOMAIN edge :
         /\ edge' = [b \in DOMAIN edge \cup {a} |-> IF b = a THEN new ELSE edge[b]]
         /\ outgoing' = [outgoing EXCEPT ![s] = @ \cup {a}]
         /\ incoming' = [incoming EXCEPT ![t] = @ \cup {a}]
         /\ edges' = edges \cup {a}
  BY DEF Connect
<1>3. DOMAIN edge' = DOMAIN edge \cup {a} /\ edge'[a] = new
      /\ \A b \in DOMAIN edge : b # a /\ edge'[b] = edge[b]
  BY <1>2
<1>4. IdleStore
  BY <1>1, IdleIInv
<1>5. TypeOK'
  BY <1>1, <1>2, <1>4 DEF IdleStore, TypeOK, EdgeObjects
<1>6. \A u \in Names : outgoing'[u] = Left(u)' /\ incoming'[u] = Entering(u)'
  BY <1>1, <1>2, <1>3, <1>4 DEF IdleStore, Left, Entering, TypeOK
<1>7. \A b, c \in DOMAIN edge' : edge'[b] = edge'[c] => b = c
  BY <1>1, <1>3, <1>4 DEF IdleStore
<1>8. \A b \in DOMAIN edge' : edge'[b].source \in states' /\ edge'[b].target \in states'
  BY <1>1, <1>3, <1>4 DEF IdleStore
<1>9. IdleStore'
  BY <1>1, <1>2, <1>3, <1>4, <1>5, <1>6, <1>7, <1>8 DEF IdleStore
<1> QED
  BY <1>9, IdleIInv, PTL

-----------------------------------------------------------------------------

\* What there is to say while a state dies.
DyingStore ==
  /\ TypeOK /\ phase = "built" /\ call \in Deletions /\ edges = DOMAIN edge
  /\ \A s \in Names : (call.op = "outgoing" /\ s = call.state) \/ outgoing[s] = Left(s)
  /\ \A s \in Names \ {call.state} : incoming[s] = Entering(s)
  /\ call.op = "incoming" => call.todo = Entering(call.state)
  /\ call.op = "outgoing" => call.todo = Left(call.state) /\ Entering(call.state) = {}
  /\ \A a \in DOMAIN edge : edge[a].source \in states /\ edge[a].target \in states
  /\ initial \cup final \subseteq states
  /\ \A a, b \in DOMAIN edge : edge[a] = edge[b] => a = b

\* While a state dies, IInv and DyingStore say the same.
LEMMA DyingIInv == DyingStore <=> IInv /\ call.op \in {"incoming", "outgoing"}
<1>1. ASSUME CallIsSound, call.op \in {"incoming", "outgoing"}
      PROVE  /\ call \in Deletions /\ phase = "built"
             /\ Moving = {} /\ Dying = {call.state} /\ Old = {}
  BY <1>1, CallCases DEF Deletions, Idle
<1>2. ASSUME TypeOK, Old = {}, NEW a \in DOMAIN edge, NEW b \in DOMAIN edge
      PROVE  Triple(a) = Triple(b) <=> edge[a] = edge[b]
  <2>1. edge[a] \in EdgeObjects /\ edge[b] \in EdgeObjects
    BY <1>2 DEF TypeOK
  <2> QED
    BY <1>2, <2>1 DEF Triple, New, EdgeObjects
<1>3. ASSUME DyingStore PROVE CallIsSound /\ call.op \in {"incoming", "outgoing"}
  BY <1>3 DEF DyingStore, Deletions, CallIsSound
<1>4. ASSUME DyingStore PROVE IInv
  BY <1>1, <1>2, <1>3, <1>4
     DEF DyingStore, IInv, EdgesListed, ListsAgree, Progress, EndsExist, EdgesDistinct
<1>5. ASSUME IInv, call.op \in {"incoming", "outgoing"} PROVE DyingStore
  BY <1>1, <1>2, <1>5
     DEF DyingStore, IInv, EdgesListed, ListsAgree, Progress, EndsExist, EdgesDistinct
<1> QED
  BY <1>3, <1>4, <1>5

\* Erasing an edge from the tree, by its ends and label, erases that one.
LEMMA OneErased ==
  ASSUME DyingStore, NEW a \in call.todo
  PROVE  /\ a \in DOMAIN edge /\ edge[a] \in EdgeObjects
         /\ Unlisted(a) = DOMAIN edge \ {a}
         /\ Destroyed(a) = [b \in DOMAIN edge \ {a} |-> edge[b]]
<1>1. a \in DOMAIN edge /\ edge[a] \in EdgeObjects
  BY DEF DyingStore, Deletions, TypeOK
<1>2. Unlisted(a) = DOMAIN edge \ {a}
  BY <1>1 DEF DyingStore, Unlisted, IsEqual
<1>3. Destroyed(a) = [b \in DOMAIN edge \ {a} |-> edge[b]]
  BY DEF Destroyed, Restrict
<1> QED
  BY <1>1, <1>2, <1>3

\* deleteState begins with the edges in the list of those that enter.
LEMMA DeleteStateIInv ==
  ASSUME IInv, phase = "built", phase' = phase, NEW s \in Names, DeleteState(s)
  PROVE  IInv'
<1>1. /\ call = Idle /\ s \in states
      /\ call' = [op |-> "incoming", state |-> s, todo |-> incoming[s]]
      /\ UNCHANGED <<states, edge, edges, outgoing, incoming, initial, final>>
  BY DEF DeleteState
<1>2. IdleStore
  BY <1>1, IdleIInv
<1>3. call' \in Deletions' /\ call'.op = "incoming" /\ call'.state = s /\ call'.todo = Entering(s)
  BY <1>1, <1>2 DEF Deletions, IdleStore, Entering
<1>4. DyingStore'
  BY <1>1, <1>2, <1>3 DEF DyingStore, IdleStore, TypeOK, Left, Entering
<1> QED
  BY <1>4, DyingIInv, PTL

\* The lists lose the edge that is deleted, the dying state's own list excepted.
LEMMA DeleteIncomingEdgeIInv ==
  ASSUME IInv, phase' = phase, call.op = "incoming", NEW a \in call.todo, DeleteIncomingEdge(a)
  PROVE  IInv'
<1>1. DyingStore
  BY DyingIInv
<1>2. /\ edges' = DOMAIN edge \ {a} /\ DOMAIN edge' = DOMAIN edge \ {a}
      /\ edge' = [b \in DOMAIN edge \ {a} |-> edge[b]]
      /\ outgoing' = [outgoing EXCEPT ![edge[a].source] = @ \ {a}]
      /\ call' = [call EXCEPT !.todo = @ \ {a}]
      /\ UNCHANGED <<states, incoming, initial, final>>
      /\ a \in DOMAIN edge /\ edge[a] \in EdgeObjects
  BY <1>1, OneErased DEF DeleteIncomingEdge
<1>3. /\ call'.op = "incoming" /\ call'.state = call.state /\ call'.todo = call.todo \ {a}
      /\ call' \in Deletions'
  BY <1>1, <1>2 DEF DyingStore, Deletions
<1>4. edge[a].target = call.state /\ edge[a].source \in Names
  BY <1>1, <1>2 DEF DyingStore, Entering, EdgeObjects
<1>5. TypeOK'
  BY <1>1, <1>2 DEF DyingStore, TypeOK
<1>6. \A s \in Names : outgoing'[s] = Left(s)'
  BY <1>1, <1>2, <1>4 DEF DyingStore, Left, TypeOK
<1>7. \A s \in Names \ {call.state} : incoming'[s] = Entering(s)'
  BY <1>1, <1>2, <1>4 DEF DyingStore, Entering
<1>8. call'.todo = Entering(call.state)'
  BY <1>1, <1>2, <1>3 DEF DyingStore, Entering
<1>9. DyingStore'
  BY <1>1, <1>2, <1>3, <1>5, <1>6, <1>7, <1>8 DEF DyingStore
<1> QED
  BY <1>9, DyingIInv, PTL

\* No edge enters the dying state any more: what is left to do are the edges that leave it.
LEMMA DeleteOutgoingEdgesIInv ==
  ASSUME IInv, phase' = phase, DeleteOutgoingEdges
  PROVE  IInv'
<1>1. /\ DyingStore /\ call.op = "incoming" /\ call.todo = {}
      /\ call' = [call EXCEPT !.op = "outgoing", !.todo = outgoing[call.state]]
      /\ UNCHANGED <<states, edge, edges, outgoing, incoming, initial, final>>
  BY DyingIInv DEF DeleteOutgoingEdges
<1>2. call.state \in Names /\ outgoing[call.state] = Left(call.state)
  BY <1>1 DEF DyingStore, Deletions, TypeOK
<1>3. /\ call'.op = "outgoing" /\ call'.state = call.state /\ call'.todo = Left(call.state)
      /\ call' \in Deletions'
  BY <1>1, <1>2 DEF DyingStore, Deletions, Left
<1>4. DyingStore'
  BY <1>1, <1>3 DEF DyingStore, TypeOK, Left, Entering
<1> QED
  BY <1>4, DyingIInv, PTL

\* Nobody but the dying state lists the edge that is deleted.
LEMMA DeleteOutgoingEdgeIInv ==
  ASSUME IInv, phase' = phase, call.op = "outgoing", NEW a \in call.todo, DeleteOutgoingEdge(a)
  PROVE  IInv'
<1>1. DyingStore
  BY DyingIInv
<1>2. /\ edges' = DOMAIN edge \ {a} /\ DOMAIN edge' = DOMAIN edge \ {a}
      /\ edge' = [b \in DOMAIN edge \ {a} |-> edge[b]]
      /\ incoming' = [incoming EXCEPT ![edge[a].target] = @ \ {a}]
      /\ call' = [call EXCEPT !.todo = @ \ {a}]
      /\ UNCHANGED <<states, outgoing, initial, final>>
      /\ a \in DOMAIN edge /\ edge[a] \in EdgeObjects
  BY <1>1, OneErased DEF DeleteOutgoingEdge
<1>3. /\ call'.op = "outgoing" /\ call'.state = call.state /\ call'.todo = call.todo \ {a}
      /\ call' \in Deletions'
  BY <1>1, <1>2 DEF DyingStore, Deletions
<1>4. edge[a].source = call.state /\ edge[a].target \in Names
  BY <1>1, <1>2 DEF DyingStore, Left, EdgeObjects
<1>5. TypeOK'
  BY <1>1, <1>2 DEF DyingStore, TypeOK
<1>6. \A s \in Names \ {call.state} : outgoing'[s] = Left(s)'
  BY <1>1, <1>2, <1>4 DEF DyingStore, Left
<1>7. \A s \in Names \ {call.state} : incoming'[s] = Entering(s)'
  BY <1>1, <1>2, <1>4 DEF DyingStore, Entering, TypeOK
<1>8. call'.todo = Left(call.state)' /\ Entering(call.state)' = {}
  BY <1>1, <1>2, <1>3 DEF DyingStore, Left, Entering
<1>9. DyingStore'
  BY <1>1, <1>2, <1>3, <1>5, <1>6, <1>7, <1>8 DEF DyingStore
<1> QED
  BY <1>9, DyingIInv, PTL

\* The dying state is gone when no edge is left at it.
LEMMA EraseStateIInv ==
  ASSUME IInv, EraseState
  PROVE  IInv'
<1>1. /\ DyingStore /\ call.op = "outgoing" /\ call.todo = {} /\ call' = Idle
      /\ states'   = states \ {call.state}
      /\ initial'  = initial \ {call.state}
      /\ final'    = final \ {call.state}
      /\ outgoing' = [outgoing EXCEPT ![call.state] = {}]
      /\ incoming' = [incoming EXCEPT ![call.state] = {}]
      /\ UNCHANGED <<edge, edges>>
  BY DyingIInv DEF EraseState
<1>2. /\ call.state \in Names /\ Left(call.state) = {} /\ Entering(call.state) = {}
  BY <1>1 DEF DyingStore, Deletions, TypeOK
<1>3. \A a \in DOMAIN edge : edge[a].source # call.state /\ edge[a].target # call.state
  BY <1>2 DEF Left, Entering
<1>4. TypeOK'
  BY <1>1 DEF DyingStore, TypeOK
<1>5. \A s \in Names : outgoing'[s] = Left(s)' /\ incoming'[s] = Entering(s)'
  BY <1>1, <1>2 DEF DyingStore, TypeOK, Left, Entering
<1>6. IdleStore'
  BY <1>1, <1>3, <1>4, <1>5 DEF DyingStore, IdleStore
<1> QED
  BY <1>6, IdleIInv, PTL

-----------------------------------------------------------------------------
\* What there is to say while a state is replaced.
Avoids(a, S) == edge[a].source \notin S /\ edge[a].target \notin S

MovingStore ==
  /\ TypeOK /\ phase = "built" /\ call \in Replacements
  /\ edges = {a \in DOMAIN edge : Avoids(a, {call.state, call.by})}
  /\ \A s \in Names : outgoing[s] = Left(s) /\ incoming[s] = Entering(s)
  /\ call.op = "sources" => Entering(call.by) = {}
  /\ call.op = "targets" => Left(call.state) = {}
  /\ \A a \in DOMAIN edge : /\ edge[a].source \in states \cup {call.state}
                            /\ edge[a].target \in states \cup {call.state}
  /\ initial \cup final \subseteq states \cup {call.state}
  /\ EdgesDistinct

\* While a state is replaced, IInv and MovingStore say the same.
LEMMA MovingIInv == MovingStore <=> IInv /\ call.op \in {"sources", "targets"}
<1>1. ASSUME CallIsSound, call.op \in {"sources", "targets"}
      PROVE  /\ call \in Replacements /\ phase = "built"
             /\ Moving = {call.state, call.by} /\ Dying = {} /\ Old = {call.state}
  BY <1>1, CallCases DEF Replacements, Idle
<1>2. ASSUME MovingStore PROVE CallIsSound /\ call.op \in {"sources", "targets"}
  BY <1>2 DEF MovingStore, Replacements, CallIsSound
<1>3. ASSUME MovingStore PROVE IInv
  BY <1>1, <1>2, <1>3
     DEF MovingStore, Avoids, IInv, EdgesListed, ListsAgree, Progress, EndsExist
<1>4. ASSUME IInv, call.op \in {"sources", "targets"} PROVE MovingStore
  BY <1>1, <1>4
     DEF MovingStore, Avoids, IInv, EdgesListed, ListsAgree, Progress, EndsExist
<1> QED
  BY <1>2, <1>3, <1>4

\* No edge is at the new state, which was not there: the edges that are told apart still are
\* when the new state stands for the old one.
LEMMA ReplaceStateIInv ==
  ASSUME IInv, phase = "built", phase' = phase, NEW old \in Names, NEW new \in Names,
         ReplaceState(old, new)
  PROVE  IInv'
<1>1. /\ call = Idle /\ old \in states /\ new \notin states
      /\ states' = (states \cup {new}) \ {old}
      /\ edges'  = {b \in edges : \A a \in EdgesAt(old) : edge[b] # edge[a]}
      /\ call'   = [op |-> "sources", state |-> old, by |-> new]
      /\ UNCHANGED <<edge, outgoing, incoming, initial, final>>
  BY DEF ReplaceState, IsEqual
<1>2. IdleStore
  BY <1>1, IdleIInv
<1>3. call' \in Replacements' /\ call'.op = "sources" /\ call'.state = old /\ call'.by = new
  BY <1>1, <1>2 DEF Replacements, IdleStore
<1>4. \A b \in DOMAIN edge : edge[b].source # new /\ edge[b].target # new
  BY <1>1, <1>2 DEF IdleStore
<1>5. \A b \in edges : (\A a \in EdgesAt(old) : edge[b] # edge[a]) <=> Avoids(b, {old})
  <2>1. EdgesAt(old) = {a \in DOMAIN edge : ~ Avoids(a, {old})}
    BY <1>1, <1>2 DEF IdleStore, EdgesAt, Left, Entering, Avoids
  <2> QED
    BY <2>1, <1>2 DEF IdleStore, Avoids
<1>6. edges' = {a \in DOMAIN edge' : Avoids(a, {old, new})'}
  BY <1>1, <1>2, <1>4, <1>5 DEF IdleStore, Avoids
<1>7. EdgesDistinct'
  <2>1. \A x : New(x)' = IF x = old THEN new ELSE x
    BY <1>3 DEF New, Old
  <2>2. \A a \in DOMAIN edge : edge[a] \in EdgeObjects
    BY <1>2 DEF IdleStore, TypeOK
  <2>3. ASSUME NEW a \in DOMAIN edge, NEW b \in DOMAIN edge, Triple(a)' = Triple(b)'
        PROVE  a = b
    <3>1. /\ edge[a].source = edge[b].source /\ edge[a].label = edge[b].label
          /\ edge[a].target = edge[b].target
      BY <1>1, <1>4, <2>1, <2>3 DEF Triple
    <3>2. edge[a] = edge[b]
      BY <2>2, <3>1 DEF EdgeObjects
    <3> QED
      BY <1>2, <3>2 DEF IdleStore
  <2> QED
    BY <1>1, <2>3 DEF EdgesDistinct
<1>8. TypeOK'
  BY <1>1, <1>2 DEF IdleStore, TypeOK
<1>9. \A s \in Names : outgoing'[s] = Left(s)' /\ incoming'[s] = Entering(s)'
  BY <1>1, <1>2 DEF IdleStore, Left, Entering
<1>10. Entering(call.by)' = {}
  BY <1>1, <1>3, <1>4 DEF Entering
<1>11. /\ \A a \in DOMAIN edge' : /\ edge'[a].source \in states' \cup {old}
                                   /\ edge'[a].target \in states' \cup {old}
       /\ (initial \cup final)' \subseteq states' \cup {old}
  BY <1>1, <1>2 DEF IdleStore, Avoids
<1>12. MovingStore'
  BY <1>3, <1>6, <1>7, <1>8, <1>9, <1>10, <1>11 DEF MovingStore
<1> QED
  BY <1>12, MovingIInv, PTL

\* One edge more starts at the new state; what the edge will be in the end is the same.
LEMMA ReplaceSourceIInv ==
  ASSUME IInv, phase' = phase, call.op = "sources", NEW a \in outgoing[call.state], ReplaceSource(a)
  PROVE  IInv'
<1>1. /\ MovingStore
      /\ outgoing' = [outgoing EXCEPT ![call.state] = @ \ {a}, ![call.by] = @ \cup {a}]
      /\ UNCHANGED <<states, edges, incoming, initial, final, call>>
  BY MovingIInv DEF ReplaceSource
<1>2. /\ call.state \in Names \ states /\ call.by \in states /\ call.by \in Names
      /\ call.state # call.by /\ Old = {call.state}
  BY <1>1 DEF MovingStore, Replacements, TypeOK, Old
<1>3. a \in DOMAIN edge /\ edge[a] \in EdgeObjects /\ edge[a].source = call.state
  BY <1>1, <1>2 DEF MovingStore, Left, TypeOK
<1>4. /\ DOMAIN edge' = DOMAIN edge
      /\ edge' \in [DOMAIN edge -> EdgeObjects]
      /\ \A b \in DOMAIN edge : /\ edge'[b].target = edge[b].target
                                /\ edge'[b].label = edge[b].label
                                /\ edge'[b].source = IF b = a THEN call.by ELSE edge[b].source
  <2>1. edge' = [edge EXCEPT ![a].source = call.by]
    BY DEF ReplaceSource
  <2> QED
    BY <1>1, <1>2, <1>3, <2>1 DEF MovingStore, TypeOK, EdgeObjects
<1>5. TypeOK'
  BY <1>1, <1>2, <1>3, <1>4 DEF MovingStore, TypeOK
<1>6. edges' = {b \in DOMAIN edge' : Avoids(b, {call.state, call.by})'}
  BY <1>1, <1>3, <1>4 DEF MovingStore, Avoids
<1>7. \A s \in Names : outgoing'[s] = Left(s)'
  BY <1>1, <1>2, <1>3, <1>4 DEF MovingStore, Left, TypeOK
<1>8. \A s \in Names : incoming'[s] = Entering(s)'
  BY <1>1, <1>3, <1>4 DEF MovingStore, Entering
<1>9. Entering(call.by)' = {}
  BY <1>1, <1>3, <1>4 DEF MovingStore, Entering
<1>10. \A b \in DOMAIN edge' : /\ edge'[b].source \in states \cup {call.state}
                              /\ edge'[b].target \in states \cup {call.state}
  BY <1>1, <1>2, <1>3, <1>4 DEF MovingStore, Avoids
<1>11. EdgesDistinct'
  <2>1. \A b \in DOMAIN edge : Triple(b)' = Triple(b)
    BY <1>1, <1>2, <1>3, <1>4 DEF Triple, New, Old
  <2> QED
    BY <1>1, <1>4, <2>1 DEF MovingStore, EdgesDistinct
<1>12. MovingStore'
  BY <1>1, <1>5, <1>6, <1>7, <1>8, <1>9, <1>10, <1>11 DEF MovingStore, Replacements
<1> QED
  BY <1>12, MovingIInv, PTL

\* No edge starts at the old state any more.
LEMMA ReplaceTargetsIInv ==
  ASSUME IInv, phase' = phase, ReplaceTargets
  PROVE  IInv'
<1>1. /\ MovingStore /\ outgoing[call.state] = {}
      /\ call' = [call EXCEPT !.op = "targets"]
      /\ UNCHANGED <<states, edge, edges, outgoing, incoming, initial, final>>
  BY MovingIInv DEF ReplaceTargets
<1>2. /\ call' \in Replacements' /\ call'.op = "targets"
      /\ call'.state = call.state /\ call'.by = call.by
  BY <1>1 DEF MovingStore, Replacements
<1>3. Left(call.state)' = {}
  BY <1>1, <1>2 DEF MovingStore, Replacements, Left
<1>4. EdgesDistinct'
  <2>1. Old' = Old
    BY <1>1, <1>2 DEF Old, MovingStore, Replacements
  <2> QED
    BY <1>1, <1>2, <2>1 DEF MovingStore, EdgesDistinct, Triple, New
<1>5. MovingStore'
  BY <1>1, <1>2, <1>3, <1>4 DEF MovingStore, TypeOK, Left, Entering, Avoids
<1> QED
  BY <1>5, MovingIInv, PTL

\* The same for the end of an edge.
LEMMA ReplaceTargetIInv ==
  ASSUME IInv, phase' = phase, call.op = "targets", NEW a \in incoming[call.state], ReplaceTarget(a)
  PROVE  IInv'
<1>1. /\ MovingStore
      /\ incoming' = [incoming EXCEPT ![call.state] = @ \ {a}, ![call.by] = @ \cup {a}]
      /\ UNCHANGED <<states, edges, outgoing, initial, final, call>>
  BY MovingIInv DEF ReplaceTarget
<1>2. /\ call.state \in Names \ states /\ call.by \in states /\ call.by \in Names
      /\ call.state # call.by /\ Old = {call.state}
  BY <1>1 DEF MovingStore, Replacements, TypeOK, Old
<1>3. a \in DOMAIN edge /\ edge[a] \in EdgeObjects /\ edge[a].target = call.state
  BY <1>1, <1>2 DEF MovingStore, Entering, TypeOK
<1>4. /\ DOMAIN edge' = DOMAIN edge
      /\ edge' \in [DOMAIN edge -> EdgeObjects]
      /\ \A b \in DOMAIN edge : /\ edge'[b].source = edge[b].source
                                /\ edge'[b].label = edge[b].label
                                /\ edge'[b].target = IF b = a THEN call.by ELSE edge[b].target
  <2>1. edge' = [edge EXCEPT ![a].target = call.by]
    BY DEF ReplaceTarget
  <2> QED
    BY <1>1, <1>2, <1>3, <2>1 DEF MovingStore, TypeOK, EdgeObjects
<1>5. TypeOK'
  BY <1>1, <1>2, <1>3, <1>4 DEF MovingStore, TypeOK
<1>6. edges' = {b \in DOMAIN edge' : Avoids(b, {call.state, call.by})'}
  BY <1>1, <1>3, <1>4 DEF MovingStore, Avoids
<1>7. \A s \in Names : outgoing'[s] = Left(s)'
  BY <1>1, <1>3, <1>4 DEF MovingStore, Left
<1>8. \A s \in Names : incoming'[s] = Entering(s)'
  BY <1>1, <1>2, <1>3, <1>4 DEF MovingStore, Entering, TypeOK
<1>9. Left(call.state)' = {}
  BY <1>1, <1>3, <1>4 DEF MovingStore, Left
<1>10. \A b \in DOMAIN edge' : /\ edge'[b].source \in states \cup {call.state}
                              /\ edge'[b].target \in states \cup {call.state}
  BY <1>1, <1>2, <1>3, <1>4 DEF MovingStore, Avoids
<1>11. EdgesDistinct'
  <2>1. \A b \in DOMAIN edge : Triple(b)' = Triple(b)
    BY <1>1, <1>2, <1>3, <1>4 DEF Triple, New, Old
  <2> QED
    BY <1>1, <1>4, <2>1 DEF MovingStore, EdgesDistinct
<1>12. MovingStore'
  BY <1>1, <1>5, <1>6, <1>7, <1>8, <1>9, <1>10, <1>11 DEF MovingStore, Replacements
<1> QED
  BY <1>12, MovingIInv, PTL

\* All edges are at the new state, so that what is put back into the tree is what it misses.
LEMMA FinishReplaceIInv ==
  ASSUME IInv, FinishReplace
  PROVE  IInv'
<1>1. /\ MovingStore /\ call.op = "targets" /\ incoming[call.state] = {}
      /\ edges'   = edges \cup EdgesAt(call.by)
      /\ initial' = Renamed(initial)
      /\ final'   = Renamed(final)
      /\ call'    = Idle
      /\ UNCHANGED <<states, edge, outgoing, incoming>>
  BY MovingIInv DEF FinishReplace
<1>2. /\ call.state \in Names \ states /\ call.by \in states /\ call.by \in Names
      /\ Old = {call.state} /\ Left(call.state) = {} /\ Entering(call.state) = {}
  BY <1>1 DEF MovingStore, Replacements, TypeOK, Old
<1>3. \A a \in DOMAIN edge : edge[a].source # call.state /\ edge[a].target # call.state
  BY <1>2 DEF Left, Entering
<1>4. edges' = DOMAIN edge
  BY <1>1, <1>2, <1>3 DEF MovingStore, EdgesAt, Left, Entering, Avoids
<1>5. initial' \cup final' \subseteq states
  BY <1>1, <1>2 DEF MovingStore, Renamed
<1>6. \A a, b \in DOMAIN edge : edge[a] = edge[b] => a = b
  BY <1>1 DEF MovingStore, EdgesDistinct, Triple
<1>7. \A a \in DOMAIN edge : edge[a].source \in states /\ edge[a].target \in states
  BY <1>1, <1>3 DEF MovingStore, Avoids
<1>8. TypeOK'
  BY <1>1, <1>5 DEF MovingStore, TypeOK
<1>9. IdleStore'
  BY <1>1, <1>4, <1>5, <1>6, <1>7, <1>8 DEF MovingStore, IdleStore, Left, Entering
<1> QED
  BY <1>9, IdleIInv, PTL

-----------------------------------------------------------------------------
\* A parser that gives up leaves nothing behind.
LEMMA RefuseIInv ==
  ASSUME IInv, phase # "built", Refuse
  PROVE  IInv'
<1>1. /\ call = Idle /\ call' = Idle /\ states' = {} /\ edges' = {} /\ edge' = <<>>
      /\ outgoing' = NoEdges /\ incoming' = NoEdges /\ initial' = {} /\ final' = {}
  BY DEF IInv, CallIsSound, Refuse
<1>2. DOMAIN edge' = {} /\ TypeOK'
  BY <1>1 DEF TypeOK, NoEdges
<1>3. IdleStore'
  BY <1>1, <1>2 DEF IdleStore, NoEdges, Left, Entering
<1> QED
  BY <1>3, IdleIInv, PTL

\* What a step of the parser or of a construction can be.
LEMMA StepCases ==
  ASSUME [Next]_vars, IInv
  PROVE  \/ UNCHANGED storeVars /\ (call = Idle \/ phase' = phase)
         \/ phase # "built" /\ Refuse
         \/ \E s \in Names : CreateState(s) \/ SetInitialState(s) \/ AddFinalState(s)
         \/ \E s, t \in Names, l \in Labels : Connect(s, l, t)
         \/ phase = "built" /\ phase' = phase /\ (Deletion \/ Replacement)
<1>1. CASE Parse
  <2>1. phase # "built" /\ call = Idle
    BY <1>1 DEF Parse, NoText, Begin, IInv, CallIsSound
  <2>2. CASE \E s \in Names : ParseState(s) \/ ParseInitialState(s) \/ ParseFinalState(s)
    BY <2>1, <2>2 DEF ParseState, ParseInitialState, ParseFinalState, Accept
  <2>3. ASSUME NEW s \in Names, NEW l \in Labels, NEW t \in Names, ParseTransition(s, l, t)
        PROVE  \/ UNCHANGED storeVars \/ Refuse \/ Connect(s, l, t)
    BY <2>3 DEF ParseTransition, Accept, Undefined
  <2> QED
    BY <1>1, <2>1, <2>2, <2>3 DEF Parse, NoText, Begin, Malformed, EndOfText
<1>2. CASE Construct
  BY <1>2 DEF Construct, StoreNext, Build
<1>3. CASE UNCHANGED vars
  BY <1>3 DEF vars, storeVars
<1> QED
  BY <1>1, <1>2, <1>3 DEF Next

\* IInv is inductive.
LEMMA NextIInv == IInv /\ [Next]_vars => IInv'
<1> SUFFICES ASSUME IInv, [Next]_vars PROVE IInv'
  OBVIOUS
<1>1. CASE UNCHANGED storeVars /\ (call = Idle \/ phase' = phase)
  BY <1>1 DEF storeVars, IInv, TypeOK, CallIsSound, Deletions, Replacements,
              EdgesListed, ListsAgree, Progress, EndsExist, EdgesDistinct,
              Left, Entering, Moving, Dying, Old, Triple, New
<1>2. CASE phase # "built" /\ Refuse
  BY <1>2, RefuseIInv
<1>3. CASE \E s \in Names : CreateState(s) \/ SetInitialState(s) \/ AddFinalState(s)
  BY <1>3, CreateStateIInv, MarkStateIInv
<1>4. CASE \E s, t \in Names, l \in Labels : Connect(s, l, t)
  BY <1>4, ConnectIInv
<1>5. CASE phase = "built" /\ phase' = phase /\ Deletion
  BY <1>5, DeleteStateIInv, DeleteIncomingEdgeIInv, DeleteOutgoingEdgesIInv,
     DeleteOutgoingEdgeIInv, EraseStateIInv DEF Deletion
<1>6. CASE phase = "built" /\ phase' = phase /\ Replacement
  BY <1>6, ReplaceStateIInv, ReplaceSourceIInv, ReplaceTargetsIInv, ReplaceTargetIInv,
     FinishReplaceIInv DEF Replacement
<1> QED
  BY <1>1, <1>2, <1>3, <1>4, <1>5, <1>6, StepCases

\* Whatever is called and in whatever order the lists are gone through, every point of every
\* operation is as IInv says.
THEOREM IInvHolds == Spec => []IInv
<1>1. Init => IInv
  BY InitIInv
<1> QED
  BY <1>1, NextIInv, PTL DEF Spec

\* Between the operations the tree, the lists and the marks agree; within them nobody but the
\* dying state holds an edge that is deleted.
THEOREM HoldersAgree == Spec => []StoresAgree
<1>1. IInv => StoresAgree
  <2> SUFFICES ASSUME IInv PROVE StoresAgree
    OBVIOUS
  <2>1. CASE call = Idle
    BY <2>1, IdleIInv, CallCases DEF IInv, IdleStore, StoresAgree, Left, Entering, EdgesAt
  <2>2. CASE call.op \in {"incoming", "outgoing"}
    <3>1. DyingStore /\ Dying = {call.state} /\ call # Idle
      BY <2>2, DyingIInv DEF Dying, Idle
    <3> QED
      BY <3>1 DEF DyingStore, Deletions, StoresAgree, EdgesAt, Left, Entering
  <2>3. CASE call.op \in {"sources", "targets"}
    <3>1. MovingStore /\ Dying = {} /\ call # Idle
      BY <2>3, MovingIInv DEF Dying, Idle
    <3> QED
      BY <3>1 DEF MovingStore, StoresAgree, EdgesAt, Left, Entering
  <2> QED
    BY <2>1, <2>2, <2>3, CallCases DEF IInv
<1> QED
  BY <1>1, IInvHolds, PTL

\* No edge changes or is deleted while it is in the tree that is ordered by what it is.
THEOREM TreeStaysSorted == Spec => EdgesStaySorted
<1> DEFINE Sorted == \A a \in edges \cap edges' : a \in DOMAIN edge' /\ edge'[a] = edge[a]
<1>1. IInv /\ IInv' /\ [Next]_vars => [Sorted]_storeVars
  <2> SUFFICES ASSUME IInv, IInv', [Next]_vars PROVE [Sorted]_storeVars
    OBVIOUS
  <2>1. edges \subseteq DOMAIN edge /\ edges' \subseteq DOMAIN edge'
    BY DEF IInv, EdgesListed
  <2>2. CASE UNCHANGED storeVars
    BY <2>2
  <2>3. CASE Refuse
    BY <2>3 DEF Refuse
  <2>4. CASE \E s \in Names : CreateState(s) \/ SetInitialState(s) \/ AddFinalState(s)
    BY <2>1, <2>4 DEF CreateState, SetInitialState, AddFinalState
  <2>5. CASE \E s, t \in Names, l \in Labels : Connect(s, l, t)
    BY <2>1, <2>5 DEF Connect
  <2>6. CASE Deletion
    <3>1. ASSUME NEW a \in call.todo, call.op \in {"incoming", "outgoing"},
                 DeleteIncomingEdge(a) \/ DeleteOutgoingEdge(a)
          PROVE  Sorted
      <4>1. edges' = DOMAIN edge \ {a} /\ edge' = [b \in DOMAIN edge \ {a} |-> edge[b]]
        BY <3>1, DyingIInv, OneErased DEF DeleteIncomingEdge, DeleteOutgoingEdge
      <4> QED
        BY <4>1
    <3> QED
      BY <2>1, <2>6, <3>1 DEF Deletion, DeleteState, DeleteOutgoingEdges, EraseState
  <2>7. CASE Replacement
    <3>1. ASSUME call.op = "sources", NEW a \in outgoing[call.state], ReplaceSource(a)
          PROVE  Sorted
      <4>1. MovingStore /\ edge' = [edge EXCEPT ![a].source = call.by] /\ edges' = edges
        BY <3>1, MovingIInv DEF ReplaceSource
      <4>2. a \notin edges
        BY <3>1, <4>1 DEF MovingStore, Replacements, Left, Avoids
      <4> QED
        BY <2>1, <4>1, <4>2
    <3>2. ASSUME call.op = "targets", NEW a \in incoming[call.state], ReplaceTarget(a)
          PROVE  Sorted
      <4>1. MovingStore /\ edge' = [edge EXCEPT ![a].target = call.by] /\ edges' = edges
        BY <3>2, MovingIInv DEF ReplaceTarget
      <4>2. a \notin edges
        BY <3>2, <4>1 DEF MovingStore, Replacements, Entering, Avoids
      <4> QED
        BY <2>1, <4>1, <4>2
    <3> QED
      BY <2>1, <2>7, <3>1, <3>2 DEF Replacement, ReplaceState, ReplaceTargets, FinishReplace
  <2> QED
    BY <2>2, <2>3, <2>4, <2>5, <2>6, <2>7, StepCases
<1> QED
  BY <1>1, IInvHolds, PTL DEF Spec, EdgesStaySorted

-----------------------------------------------------------------------------
\* The graph the store stands for, by the names AutomatonGraph has for its parts.
Nodes   == states \ Dying
Triples == {<<New(e.source), e.label, New(e.target)>> :
              e \in {f \in {edge[a] : a \in DOMAIN edge} : Dying \cap {f.source, f.target} = {}}}
Initial == {New(s) : s \in initial \ Dying}
Final   == {New(s) : s \in final \ Dying}

Plain(a) == <<edge[a].source, edge[a].label, edge[a].target>>

IdleView  == /\ Nodes = states /\ Initial = initial /\ Final = final
             /\ Triples = {Plain(a) : a \in DOMAIN edge}
DyingView == /\ Nodes = states \ {call.state}
             /\ Initial = initial \ {call.state} /\ Final = final \ {call.state}
             /\ Triples = {Plain(a) : a \in {b \in DOMAIN edge : Avoids(b, {call.state})}}
MovingView == /\ Nodes = states
              /\ Initial = {New(s) : s \in initial} /\ Final = {New(s) : s \in final}
              /\ Triples = {Triple(a) : a \in DOMAIN edge}

\* The triples are those of the edges not at a dying state.
LEMMA TheTriples ==
  Triples = {Triple(a) : a \in {b \in DOMAIN edge :
                                  Dying \cap {edge[b].source, edge[b].target} = {}}}
BY DEF Triples, Triple

\* Between the operations the graph is what the store holds.
LEMMA IdleViews == IdleStore => IdleView
<1> SUFFICES ASSUME IdleStore PROVE IdleView
  OBVIOUS
<1>1. Dying = {} /\ Old = {}
  BY DEF IdleStore, Idle, Dying, Old
<1>2. \A a : Triple(a) = Plain(a)
  BY <1>1 DEF Triple, Plain, New
<1> QED
  BY <1>1, <1>2, TheTriples DEF IdleView, Nodes, Initial, Final, New

\* While a state dies, the graph has neither it nor its edges.
LEMMA DyingViews == DyingStore => DyingView
<1> SUFFICES ASSUME DyingStore PROVE DyingView
  OBVIOUS
<1>1. Dying = {call.state} /\ Old = {}
  BY DEF DyingStore, Deletions, Dying, Old
<1>2. \A a : Triple(a) = Plain(a)
  BY <1>1 DEF Triple, Plain, New
<1> QED
  BY <1>1, <1>2, TheTriples DEF DyingView, Nodes, Initial, Final, New, Avoids

\* While a state is replaced, the graph has the new one everywhere.
LEMMA MovingViews == MovingStore => MovingView
<1> SUFFICES ASSUME MovingStore PROVE MovingView
  OBVIOUS
<1>1. Dying = {} /\ Old = {call.state}
  BY DEF MovingStore, Replacements, Dying, Old
<1> QED
  BY <1>1, TheTriples DEF MovingView, Nodes, Initial, Final

\* Steps between the operations, seen as steps of the graph.
LEMMA MarkStateRefines ==
  ASSUME IInv, IInv', NEW s \in Names, CreateState(s) \/ SetInitialState(s) \/ AddFinalState(s)
  PROVE  Graph!Create(s) \/ Graph!SetInitial(s) \/ Graph!AddFinal(s)
<1>1. call = Idle /\ call' = Idle /\ UNCHANGED edge
  BY DEF CreateState, SetInitialState, AddFinalState
<1>2. IdleView
  BY <1>1, IdleIInv, IdleViews
<1>3. IdleView'
  <2>1. (call = Idle)'
    BY <1>1 DEF Idle
  <2>2. IdleStore'
    BY <2>1, IdleIInv, PTL
  <2> QED
    BY <2>2, IdleViews, PTL
<1>4. UNCHANGED Triples
  BY <1>1, <1>2, <1>3 DEF IdleView, Plain
<1>5. CASE CreateState(s)
  BY <1>2, <1>3, <1>4, <1>5 DEF CreateState, IdleView, Nodes, Triples, Initial, Final, Graph!Create
<1>6. CASE SetInitialState(s)
  BY <1>2, <1>3, <1>4, <1>6 
     DEF SetInitialState, IdleView, Nodes, Triples, Initial, Final, Graph!SetInitial
<1>7. CASE AddFinalState(s)
  BY <1>2, <1>3, <1>4, <1>7 
     DEF AddFinalState, IdleView, Nodes, Triples, Initial, Final, Graph!AddFinal
<1> QED
  BY <1>5, <1>6, <1>7

\* connect joins two states.
LEMMA ConnectRefines ==
  ASSUME IInv, IInv', NEW s \in Names, NEW l \in Labels, NEW t \in Names, Connect(s, l, t)
  PROVE  Graph!Join(s, l, t)
<1> DEFINE new == [source |-> s, label |-> l, target |-> t]
<1>1. /\ call = Idle /\ call' = Idle /\ s \in states /\ t \in states
      /\ UNCHANGED <<states, initial, final>>
  BY DEF Connect
<1>2. PICK a \in Addresses \ DOMAIN edge :
         edge' = [b \in DOMAIN edge \cup {a} |-> IF b = a THEN new ELSE edge[b]]
  BY DEF Connect
<1>3. IdleView
  BY <1>1, IdleIInv, IdleViews
<1>4. IdleView'
  <2>1. (call = Idle)'
    BY <1>1 DEF Idle
  <2>2. IdleStore'
    BY <2>1, IdleIInv, PTL
  <2> QED
    BY <2>2, IdleViews, PTL
<1>5. Triples' = Triples \cup {<<s, l, t>>}
  <2>1. \A b \in DOMAIN edge : Plain(b)' = Plain(b)
    BY <1>2 DEF Plain
  <2>2. Plain(a)' = <<s, l, t>> /\ DOMAIN edge' = DOMAIN edge \cup {a}
    BY <1>2 DEF Plain
  <2>3. Triples' = {Plain(b)' : b \in DOMAIN edge'}
    BY <1>4 DEF IdleView
  <2>4. Triples = {Plain(b) : b \in DOMAIN edge}
    BY <1>3 DEF IdleView
  <2> HIDE DEF Plain
  <2> QED
    BY <2>1, <2>2, <2>3, <2>4
<1> QED
  BY <1>1, <1>3, <1>4, <1>5 DEF IdleView, Nodes, Triples, Initial, Final, Graph!Join

\* deleteState takes effect when it is called.
LEMMA DeleteStateRefines ==
  ASSUME IInv, IInv', NEW s \in Names, DeleteState(s)
  PROVE  Graph!Delete(s)
<1>1. /\ call = Idle /\ s \in states
      /\ call'.op = "incoming" /\ call'.state = s
      /\ UNCHANGED <<states, edge, edges, outgoing, incoming, initial, final>>
  BY DEF DeleteState
<1>2. IdleView
  BY <1>1, IdleIInv, IdleViews
<1>3. DyingView'
  <2>1. (call.op \in {"incoming", "outgoing"})'
    BY <1>1
  <2>2. DyingStore'
    BY <2>1, DyingIInv, PTL
  <2> QED
    BY <2>2, DyingViews, PTL
<1>4. Triples' = {e \in Triples : s \notin {e[1], e[3]}}
  <2>1. Triples' = {Plain(b) : b \in {c \in DOMAIN edge : Avoids(c, {s})}}
    BY <1>1, <1>3 DEF DyingView, Plain, Avoids
  <2>2. Triples = {Plain(b) : b \in DOMAIN edge}
    BY <1>2 DEF IdleView
  <2>3. \A b : Avoids(b, {s}) <=> s \notin {Plain(b)[1], Plain(b)[3]}
    BY DEF Avoids, Plain
  <2> HIDE DEF Plain, Avoids
  <2> QED
    BY <2>1, <2>2, <2>3
<1> QED
  BY <1>1, <1>2, <1>3, <1>4 DEF IdleView, DyingView, Nodes, Triples, Initial, Final, Graph!Delete

\* The edges the loops delete are none of the graph any more.
LEMMA DeletionStutters ==
  ASSUME IInv, IInv',
         \/ /\ call.op \in {"incoming", "outgoing"}
            /\ \E a \in call.todo : DeleteIncomingEdge(a) \/ DeleteOutgoingEdge(a)
         \/ DeleteOutgoingEdges \/ EraseState
  PROVE  UNCHANGED <<Nodes, Triples, Initial, Final>>
<1>1. DyingStore /\ DyingView
  BY DyingIInv, DyingViews DEF DeleteOutgoingEdges, EraseState
<1>2. ASSUME call.op \in {"incoming", "outgoing"}, NEW a \in call.todo,
             DeleteIncomingEdge(a) \/ DeleteOutgoingEdge(a)
      PROVE  UNCHANGED <<Nodes, Triples, Initial, Final>>
  <2>1. /\ edge' = [b \in DOMAIN edge \ {a} |-> edge[b]]
        /\ call' = [call EXCEPT !.todo = @ \ {a}]
        /\ UNCHANGED <<states, initial, final>>
    BY <1>1, <1>2, OneErased DEF DeleteIncomingEdge, DeleteOutgoingEdge
  <2>2. call'.op = call.op /\ call'.state = call.state
    BY <1>1, <2>1 DEF DyingStore, Deletions
  <2>3. (call.op \in {"incoming", "outgoing"})'
    BY <1>2, <2>2
  <2>4. DyingStore'
    BY <2>3, DyingIInv, PTL
  <2>5. DyingView'
    BY <2>4, DyingViews, PTL
  <2>6. ~ Avoids(a, {call.state})
    BY <1>1, <1>2 DEF DyingStore, Deletions, Avoids, Left, Entering
  <2>7. Triples' = Triples
    <3>1. Triples' = {Plain(b)' : b \in {c \in DOMAIN edge' : Avoids(c, {call.state})'}}
      BY <2>5 DEF DyingView
    <3>2. Triples = {Plain(b) : b \in {c \in DOMAIN edge : Avoids(c, {call.state})}}
      BY <1>1 DEF DyingView
    <3>3. \A b \in DOMAIN edge' : /\ b # a /\ b \in DOMAIN edge /\ Plain(b)' = Plain(b)
                                  /\ Avoids(b, {call.state})' <=> Avoids(b, {call.state})
      BY <2>1, <2>2 DEF Plain, Avoids
    <3>4. DOMAIN edge' = DOMAIN edge \ {a}
      BY <2>1
    <3> HIDE DEF Plain, Avoids
    <3> QED
      BY <2>6, <3>1, <3>2, <3>3, <3>4
  <2> QED
    BY <1>1, <2>1, <2>2, <2>5, <2>7 DEF DyingView
<1>3. CASE DeleteOutgoingEdges
  <2>1. /\ call'.op = "outgoing" /\ call'.state = call.state
        /\ UNCHANGED <<states, edge, initial, final>>
    BY <1>1, <1>3 DEF DeleteOutgoingEdges, DyingStore, Deletions
  <2>2. call.op = "incoming"
    BY <1>3 DEF DeleteOutgoingEdges
  <2> QED
    BY <2>1, <2>2 DEF Nodes, Triples, Initial, Final, Dying, New, Old
<1>4. CASE EraseState
  <2>1. /\ call' = Idle /\ UNCHANGED edge /\ states' = states \ {call.state}
        /\ initial' = initial \ {call.state} /\ final' = final \ {call.state}
        /\ Left(call.state) = {} /\ Entering(call.state) = {}
    BY <1>1, <1>4 DEF EraseState, DyingStore
  <2>2. IdleStore'
    <3>1. (call = Idle)'
      BY <2>1 DEF Idle
    <3> QED
      BY <3>1, IdleIInv, PTL
  <2>3. IdleView'
    BY <2>2, IdleViews, PTL
  <2>4. \A b \in DOMAIN edge : Avoids(b, {call.state})
    BY <2>1 DEF Left, Entering, Avoids
  <2>5. Triples' = Triples
    BY <1>1, <2>1, <2>3, <2>4 DEF IdleView, DyingView, Plain
  <2> QED
    BY <1>1, <2>1, <2>3, <2>5 DEF IdleView, DyingView
<1> QED
  BY <1>2, <1>3, <1>4

\* replaceState takes effect when it is called: what was at the old state will be at the new one.
LEMMA ReplaceStateRefines ==
  ASSUME IInv, IInv', NEW old \in Names, NEW new \in Names, ReplaceState(old, new)
  PROVE  Graph!Replace(old, new)
<1>1. /\ call = Idle /\ old \in states /\ new \notin states
      /\ states' = (states \cup {new}) \ {old}
      /\ call'.op = "sources" /\ call'.state = old /\ call'.by = new
      /\ UNCHANGED <<edge, initial, final>>
  BY DEF ReplaceState
<1>2. IdleView
  BY <1>1, IdleIInv, IdleViews
<1>3. MovingView'
  <2>1. (call.op \in {"sources", "targets"})'
    BY <1>1
  <2>2. MovingStore'
    BY <2>1, MovingIInv, PTL
  <2> QED
    BY <2>2, MovingViews, PTL
<1>4. \A x : New(x)' = Graph!Renaming(old, new, x)
  BY <1>1 DEF New, Old, Graph!Renaming
<1>5. Triples' = {<<Graph!Renaming(old, new, e[1]), e[2], Graph!Renaming(old, new, e[3])>> :
                    e \in Triples}
  <2>1. Triples' = {Triple(a)' : a \in DOMAIN edge}
    BY <1>1, <1>3 DEF MovingView
  <2>2. Triples = {Plain(a) : a \in DOMAIN edge}
    BY <1>2 DEF IdleView
  <2>3. \A a : Triple(a)' = <<Graph!Renaming(old, new, Plain(a)[1]), Plain(a)[2],
                              Graph!Renaming(old, new, Plain(a)[3])>>
    BY <1>1, <1>4 DEF Triple, Plain
  <2> HIDE DEF Triple, Plain
  <2> QED
    BY <2>1, <2>2, <2>3
<1>6. Nodes' = Graph!RenameAll(old, new, Nodes)
  BY <1>1, <1>2, <1>3 DEF IdleView, MovingView, Graph!RenameAll, Graph!Renaming
<1>7. Initial' = Graph!RenameAll(old, new, Initial) /\ Final' = Graph!RenameAll(old, new, Final)
  BY <1>1, <1>2, <1>3, <1>4 DEF IdleView, MovingView, Graph!RenameAll
<1> QED
  BY <1>1, <1>2, <1>5, <1>6, <1>7
     DEF IdleView, Nodes, Triples, Initial, Final, Graph!Replace

\* The rest of the replacement makes the store what the graph has been since.
LEMMA ReplacementStutters ==
  ASSUME IInv, IInv',
         \/ call.op = "sources" /\ \E a \in outgoing[call.state] : ReplaceSource(a)
         \/ call.op = "targets" /\ \E a \in incoming[call.state] : ReplaceTarget(a)
         \/ ReplaceTargets \/ FinishReplace
  PROVE  UNCHANGED <<Nodes, Triples, Initial, Final>>
<1>1. MovingStore /\ MovingView
  BY MovingIInv, MovingViews DEF ReplaceTargets, FinishReplace
<1>2. /\ Old = {call.state} /\ Dying = {} /\ call.state # call.by
      /\ call.state \notin states /\ call.by \in states /\ call.by \in Names
  BY <1>1 DEF MovingStore, Replacements, TypeOK, Old, Dying
<1>3. ASSUME UNCHANGED <<states, initial, final>>, call'.op \in {"sources", "targets"},
             call'.state = call.state, call'.by = call.by, DOMAIN edge' = DOMAIN edge,
             \A a \in DOMAIN edge : /\ edge'[a].label = edge[a].label
                                    /\ New(edge'[a].source) = New(edge[a].source)
                                    /\ New(edge'[a].target) = New(edge[a].target)
      PROVE  UNCHANGED <<Nodes, Triples, Initial, Final>>
  <2>1. (call.op \in {"sources", "targets"})'
    BY <1>3
  <2>2. MovingStore'
    BY <2>1, MovingIInv, PTL
  <2>3. MovingView'
    BY <2>2, MovingViews, PTL
  <2>4. \A x : New(x)' = New(x)
    BY <1>2, <1>3 DEF New, Old
  <2>5. \A a \in DOMAIN edge : Triple(a)' = Triple(a)
    BY <1>3, <2>4 DEF Triple
  <2> HIDE DEF Triple
  <2> QED
    BY <1>1, <1>3, <2>3, <2>4, <2>5 DEF MovingView
<1>4. ASSUME call.op = "sources", NEW a \in outgoing[call.state], ReplaceSource(a)
      PROVE  UNCHANGED <<Nodes, Triples, Initial, Final>>
  <2>1. /\ edge' = [edge EXCEPT ![a].source = call.by] /\ call' = call
        /\ UNCHANGED <<states, initial, final>>
    BY <1>4 DEF ReplaceSource
  <2>2. a \in DOMAIN edge /\ edge[a].source = call.state /\ edge \in [DOMAIN edge -> EdgeObjects]
    BY <1>1, <1>4 DEF MovingStore, Replacements, Left, TypeOK
  <2>3. \A b \in DOMAIN edge : /\ edge'[b].label = edge[b].label
                               /\ New(edge'[b].source) = New(edge[b].source)
                               /\ New(edge'[b].target) = New(edge[b].target)
    BY <1>2, <2>1, <2>2 DEF EdgeObjects, New
  <2> QED
    BY <1>3, <1>4, <2>1, <2>3
<1>5. ASSUME call.op = "targets", NEW a \in incoming[call.state], ReplaceTarget(a)
      PROVE  UNCHANGED <<Nodes, Triples, Initial, Final>>
  <2>1. /\ edge' = [edge EXCEPT ![a].target = call.by] /\ call' = call
        /\ UNCHANGED <<states, initial, final>>
    BY <1>5 DEF ReplaceTarget
  <2>2. a \in DOMAIN edge /\ edge[a].target = call.state /\ edge \in [DOMAIN edge -> EdgeObjects]
    BY <1>1, <1>5 DEF MovingStore, Replacements, Entering, TypeOK
  <2>3. \A b \in DOMAIN edge : /\ edge'[b].label = edge[b].label
                               /\ New(edge'[b].source) = New(edge[b].source)
                               /\ New(edge'[b].target) = New(edge[b].target)
    BY <1>2, <2>1, <2>2 DEF EdgeObjects, New
  <2> QED
    BY <1>3, <1>5, <2>1, <2>3
<1>6. CASE ReplaceTargets
  <2>1. /\ call'.op = "targets" /\ call'.state = call.state /\ call'.by = call.by
        /\ UNCHANGED <<states, edge, initial, final>>
    BY <1>1, <1>6 DEF ReplaceTargets, MovingStore, Replacements
  <2> QED
    BY <1>3, <2>1
<1>7. CASE FinishReplace
  <2>1. /\ UNCHANGED <<states, edge>> /\ call' = Idle
        /\ initial' = Renamed(initial) /\ final' = Renamed(final)
        /\ Left(call.state) = {} /\ Entering(call.state) = {}
    BY <1>1, <1>7 DEF FinishReplace, MovingStore, Replacements
  <2>2. IdleStore'
    <3>1. (call = Idle)'
      BY <2>1 DEF Idle
    <3> QED
      BY <3>1, IdleIInv, PTL
  <2>3. IdleView'
    BY <2>2, IdleViews, PTL
  <2>4. \A a \in DOMAIN edge : Plain(a)' = Triple(a)
    BY <1>2, <2>1 DEF Left, Entering, Plain, Triple, New
  <2>5. Triples' = Triples
    <3>1. Triples' = {Plain(a)' : a \in DOMAIN edge}
      BY <2>1, <2>3 DEF IdleView
    <3>2. Triples = {Triple(a) : a \in DOMAIN edge}
      BY <1>1 DEF MovingView
    <3> HIDE DEF Plain, Triple
    <3> QED
      BY <2>4, <3>1, <3>2
  <2>6. \A S : Renamed(S) = {New(s) : s \in S}
    BY <1>2 DEF Renamed, New
  <2> QED
    BY <1>1, <2>1, <2>3, <2>5, <2>6 DEF IdleView, MovingView
<1> QED
  BY <1>4, <1>5, <1>6, <1>7

\* The store implements the graph: each operation is one step of it, and the work the
\* operation goes on with is none.
THEOREM StoreImplementsGraph == Spec => ImplementsGraph
<1>1. Init => Graph!GraphInit
  BY DEF Init, StoreInit, Graph!GraphInit, Idle, Dying
<1>2. IInv /\ IInv' /\ [Next]_vars => [Graph!GraphNext]_Graph!graphVars
  <2> SUFFICES ASSUME IInv, IInv', [Next]_vars PROVE [Graph!GraphNext]_Graph!graphVars
    OBVIOUS
  <2>1. ASSUME UNCHANGED <<Nodes, Triples, Initial, Final>> PROVE UNCHANGED Graph!graphVars
    BY <2>1 DEF Nodes, Triples, Initial, Final, Graph!graphVars
  <2>2. CASE UNCHANGED storeVars
    BY <2>1, <2>2 DEF storeVars, Nodes, Triples, Initial, Final, Dying, New, Old
  <2>3. CASE phase # "built" /\ Refuse
    BY <2>3 DEF Refuse, IInv, CallIsSound, Idle, Dying, Graph!Discard, Graph!GraphNext
  <2>4. CASE \E s \in Names : CreateState(s) \/ SetInitialState(s) \/ AddFinalState(s)
    BY <2>4, MarkStateRefines DEF Graph!GraphNext
  <2>5. CASE \E s, t \in Names, l \in Labels : Connect(s, l, t)
    BY <2>5, ConnectRefines DEF Graph!GraphNext
  <2>6. CASE Deletion
    BY <2>1, <2>6, DeleteStateRefines, DeletionStutters DEF Deletion, Graph!GraphNext
  <2>7. CASE Replacement
    BY <2>1, <2>7, ReplaceStateRefines, ReplacementStutters DEF Replacement, Graph!GraphNext
  <2> QED
    BY <2>2, <2>3, <2>4, <2>5, <2>6, <2>7, StepCases
<1> QED
  BY <1>1, <1>2, IInvHolds, PTL DEF Spec, ImplementsGraph, Graph!GraphSpec
=============================================================================
