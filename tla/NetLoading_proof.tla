---------------------------- MODULE NetLoading_proof ----------------------------
(***************************************************************************)
(* What holds of a net whatever text it is read from, whoever edits it and *)
(* wherever ConstructMaximalNet stops: the three holders of an arc agree,  *)
(* and a net that nobody has edited has indexes and markings that fit.     *)
(* The operations of the net are functions from nets to nets, and so most  *)
(* lemmas are about nets, not about steps.                                 *)
(***************************************************************************)
EXTENDS NetLoading, FiniteSetTheorems, TLAPS

IsFunction(f) == f = [x \in DOMAIN f |-> f[x]]

\* The fields of a net and of its objects.
HasFields(r, fields) == IsFunction(r) /\ DOMAIN r = fields
AreNodes(nodes, fields) == IsFunction(nodes) /\ \A x \in DOMAIN nodes : HasFields(nodes[x], fields)

NetFields == {"placeList", "transitionList", "nextPlace", "nextTransition", "place",
              "transition", "arc", "consuming", "producing", "initial", "finals"}
PlaceFields      == {"index", "bound", "input", "output", "incoming", "outgoing"}
TransitionFields == {"index", "interval", "label", "incoming", "outgoing"}

IsNet(n) ==
  /\ HasFields(n, NetFields)
  /\ AreNodes(n.place, PlaceFields)
  /\ AreNodes(n.transition, TransitionFields)

\* What ArcsAgree says of the net in hand, of any net; an arc is of one kind only.
ArcsFit(n) ==
  /\ IsFiniteSet(DOMAIN n.arc)
  /\ n.consuming \cap n.producing = {}
  /\ n.consuming \cup n.producing = DOMAIN n.arc
  /\ \A a \in n.consuming : n.arc[a].source \in DOMAIN n.place
                            /\ n.arc[a].target \in DOMAIN n.transition
  /\ \A a \in n.producing : n.arc[a].source \in DOMAIN n.transition
                            /\ n.arc[a].target \in DOMAIN n.place
  /\ \A p \in DOMAIN n.place :
       /\ n.place[p].outgoing = {a \in n.consuming : n.arc[a].source = p}
       /\ n.place[p].incoming = {a \in n.producing : n.arc[a].target = p}
  /\ \A t \in DOMAIN n.transition :
       /\ n.transition[t].incoming = {a \in n.consuming : n.arc[a].target = t}
       /\ n.transition[t].outgoing = {a \in n.producing : n.arc[a].source = t}

IsSound(n) == IsNet(n) /\ ArcsFit(n)

-----------------------------------------------------------------------------
\* There is always an address for a new arc.
LEMMA FreshArcIsFresh ==
  ASSUME NEW n, IsFiniteSet(DOMAIN n.arc)
  PROVE  FreshArc(n) \notin DOMAIN n.arc
<1> DEFINE k == Cardinality(DOMAIN n.arc)
<1>1. k \in Nat
  BY FS_CardinalityType
<1>2. IsFiniteSet(1 .. k + 1) /\ Cardinality(1 .. k + 1) = k + 1
  <2>1. 1 \in Int /\ k + 1 \in Int /\ ~ 1 > k + 1 /\ (k + 1) - 1 + 1 = k + 1
    BY <1>1
  <2> QED
    BY <2>1, FS_Interval
<1>3. ~ (1 .. k + 1 \subseteq DOMAIN n.arc)
  BY <1>1, <1>2, FS_Subset
<1> QED
  BY <1>3 DEF FreshArc

\* Adding an object under a name.
LEMMA WithOne ==
  ASSUME NEW f, NEW x, NEW y
  PROVE  /\ IsFunction(With(f, x, y)) /\ DOMAIN With(f, x, y) = DOMAIN f \cup {x}
         /\ \A z \in DOMAIN f \cup {x} : With(f, x, y)[z] = IF z = x THEN y ELSE f[z]
BY DEF With, IsFunction

\* The objects that are created have the fields of their kind.
LEMMA NewPlaceFields ==
  ASSUME NEW index, NEW bound
  PROVE  HasFields([index |-> index, bound |-> bound, input |-> FALSE, output |-> FALSE,
                    incoming |-> {}, outgoing |-> {}], PlaceFields)
BY DEF HasFields, IsFunction, PlaceFields

\* A new place has no arcs.
LEMMA CreatePlaceSound ==
  ASSUME NEW n, IsSound(n), NEW p, ~ HasPlace(n, p), NEW bound
  PROVE  IsSound(CreatePlace(n, p, bound))
<1> DEFINE m == CreatePlace(n, p, bound)
<1>1. /\ m.place = With(n.place, p, [index |-> n.nextPlace, bound |-> bound,
                                  input |-> FALSE, output |-> FALSE,
                                  incoming |-> {}, outgoing |-> {}])
      /\ m.transition = n.transition /\ m.arc = n.arc
      /\ m.consuming = n.consuming /\ m.producing = n.producing
  BY DEF IsSound, IsNet, HasFields, IsFunction, NetFields, CreatePlace
<1>2. IsNet(m)
  <2>1. HasFields(m, NetFields)
    BY DEF IsSound, IsNet, HasFields, IsFunction, NetFields, CreatePlace
  <2>2. IsFunction(m.place)
    BY <1>1 DEF With, IsFunction
  <2>3. \A q \in DOMAIN m.place : HasFields(m.place[q], PlaceFields)
    <3> DEFINE new == [index |-> n.nextPlace, bound |-> bound, input |-> FALSE,
                       output |-> FALSE, incoming |-> {}, outgoing |-> {}]
    <3>1. HasFields(new, PlaceFields)
      BY NewPlaceFields
    <3>2. m.place = With(n.place, p, new)
      BY <1>1
    <3> HIDE DEF new, m
    <3>3. \A q \in DOMAIN m.place : m.place[q] = new \/ (q \in DOMAIN n.place /\ m.place[q] = n.place[q])
      BY <3>2 DEF With
    <3> QED
      BY <3>1, <3>3 DEF IsSound, IsNet, AreNodes
  <2> HIDE DEF m
  <2> QED
    BY <1>1, <2>1, <2>2, <2>3 DEF IsSound, IsNet, AreNodes
<1>3. ArcsFit(m)
  BY <1>1 DEF IsSound, ArcsFit, HasPlace, With
<1> QED
  BY <1>2, <1>3 DEF IsSound

LEMMA NewTransitionFields ==
  ASSUME NEW index, NEW interval, NEW label
  PROVE  HasFields([index |-> index, interval |-> interval, label |-> label,
                    incoming |-> {}, outgoing |-> {}], TransitionFields)
BY DEF HasFields, IsFunction, TransitionFields

LEMMA CreateTransitionSound ==
  ASSUME NEW n, IsSound(n), NEW t, ~ HasTransition(n, t), NEW interval
  PROVE  IsSound(CreateTransition(n, t, interval))
<1> DEFINE m == CreateTransition(n, t, interval)
<1>1. /\ m.transition = With(n.transition, t, [index |-> n.nextTransition, interval |-> interval,
                                       label |-> <<t>>, incoming |-> {}, outgoing |-> {}])
      /\ m.place = n.place /\ m.arc = n.arc
      /\ m.consuming = n.consuming /\ m.producing = n.producing
  BY DEF IsSound, IsNet, HasFields, IsFunction, NetFields, CreateTransition
<1>2. IsNet(m)
  <2>1. HasFields(m, NetFields)
    BY DEF IsSound, IsNet, HasFields, IsFunction, NetFields, CreateTransition
  <2>2. IsFunction(m.transition)
    BY <1>1 DEF With, IsFunction
  <2>3. \A s \in DOMAIN m.transition : HasFields(m.transition[s], TransitionFields)
    <3> DEFINE new == [index |-> n.nextTransition, interval |-> interval, label |-> <<t>>,
                       incoming |-> {}, outgoing |-> {}]
    <3>1. HasFields(new, TransitionFields)
      BY NewTransitionFields
    <3>2. m.transition = With(n.transition, t, new)
      BY <1>1
    <3> HIDE DEF new, m
    <3>3. \A s \in DOMAIN m.transition :
            m.transition[s] = new \/ (s \in DOMAIN n.transition /\ m.transition[s] = n.transition[s])
      BY <3>2 DEF With
    <3> QED
      BY <3>1, <3>3 DEF IsSound, IsNet, AreNodes
  <2> HIDE DEF m
  <2> QED
    BY <1>1, <2>1, <2>2, <2>3 DEF IsSound, IsNet, AreNodes
<1>3. ArcsFit(m)
  BY <1>1 DEF IsSound, ArcsFit, HasTransition, With
<1> QED
  BY <1>2, <1>3 DEF IsSound

\* The same places and transitions, under the same indexes.
SameObjects(m, n) ==
  /\ m.placeList = n.placeList /\ m.transitionList = n.transitionList
  /\ m.nextPlace = n.nextPlace /\ m.nextTransition = n.nextTransition
  /\ DOMAIN m.place = DOMAIN n.place /\ DOMAIN m.transition = DOMAIN n.transition
  /\ \A p \in DOMAIN n.place : m.place[p].index = n.place[p].index
  /\ \A t \in DOMAIN n.transition : /\ m.transition[t].index = n.transition[t].index
                                    /\ m.transition[t].interval = n.transition[t].interval

\* Nothing but the arcs differs.
SameNodes(m, n) ==
  /\ SameObjects(m, n) /\ m.initial = n.initial /\ m.finals = n.finals
  /\ \A p \in DOMAIN n.place : /\ m.place[p].input = n.place[p].input
                               /\ m.place[p].output = n.place[p].output
  /\ \A t \in DOMAIN n.transition : m.transition[t].label = n.transition[t].label

\* There is one arc more, which leads from the one node to the other.
ArcAdded(m, n, a, source, target) ==
  /\ a \notin DOMAIN n.arc /\ DOMAIN m.arc = DOMAIN n.arc \cup {a}
  /\ m.arc[a].source = source /\ m.arc[a].target = target
  /\ \A b \in DOMAIN n.arc : m.arc[b].source = n.arc[b].source /\ m.arc[b].target = n.arc[b].target

ConsumingAdded(m, n, p, t) ==
  \E a : /\ ArcAdded(m, n, a, p, t)
         /\ m.consuming = n.consuming \cup {a} /\ m.producing = n.producing

ProducingAdded(m, n, t, p) ==
  \E a : /\ ArcAdded(m, n, a, t, p)
         /\ m.producing = n.producing \cup {a} /\ m.consuming = n.consuming

\* Changing one field of one object.
Updated(nodes, x, field, value) == [nodes EXCEPT ![x] = [@ EXCEPT ![field] = value]]

IsUpdate(m, nodes, fields, x, field, value) ==
  /\ AreNodes(m, fields) /\ DOMAIN m = DOMAIN nodes
  /\ \A y \in DOMAIN nodes, f \in fields :
       m[y][f] = IF y = x /\ f = field THEN value ELSE nodes[y][f]

LEMMA NodeUpdate ==
  ASSUME NEW nodes, NEW fields, AreNodes(nodes, fields),
         NEW x \in DOMAIN nodes, NEW field \in fields, NEW value
  PROVE  IsUpdate(Updated(nodes, x, field, value), nodes, fields, x, field, value)
<1> DEFINE new == [nodes[x] EXCEPT ![field] = value]
           m   == Updated(nodes, x, field, value)
<1>1. HasFields(nodes[x], fields)
  BY DEF AreNodes
<1>2. HasFields(new, fields) /\ \A f \in fields : new[f] = IF f = field THEN value ELSE nodes[x][f]
  BY <1>1 DEF HasFields, IsFunction
<1>3. m = [nodes EXCEPT ![x] = new]
  BY DEF Updated
<1> HIDE DEF new, m
<1>4. IsFunction(m) /\ DOMAIN m = DOMAIN nodes
      /\ \A y \in DOMAIN nodes : m[y] = IF y = x THEN new ELSE nodes[y]
  BY <1>3 DEF IsFunction
<1>5. AreNodes(m, fields)
  BY <1>2, <1>4 DEF AreNodes
<1>6. \A y \in DOMAIN nodes, f \in fields :
        m[y][f] = IF y = x /\ f = field THEN value ELSE nodes[y][f]
  BY <1>2, <1>4
<1> QED
  BY <1>4, <1>5, <1>6 DEF IsUpdate, m

LEMMA ConnectToTransitionSound ==
  ASSUME NEW n, IsSound(n), NEW p, HasPlace(n, p), NEW t, HasTransition(n, t)
  PROVE  LET m == ConnectToTransition(n, p, t)
         IN  IsSound(m) /\ SameNodes(m, n) /\ ConsumingAdded(m, n, p, t)
<1> DEFINE a == FreshArc(n)
           m == ConnectToTransition(n, p, t)
<1>1. /\ m.arc = With(n.arc, a, [source |-> p, target |-> t])
      /\ m.place = [n.place EXCEPT ![p].outgoing = @ \cup {a}]
      /\ m.transition = [n.transition EXCEPT ![t].incoming = @ \cup {a}]
      /\ m.consuming = n.consuming \cup {a} /\ m.producing = n.producing
      /\ m.placeList = n.placeList /\ m.transitionList = n.transitionList
      /\ m.nextPlace = n.nextPlace /\ m.nextTransition = n.nextTransition
      /\ m.initial = n.initial /\ m.finals = n.finals
  BY DEF IsSound, IsNet, HasFields, IsFunction, NetFields, ConnectToTransition
<1>2. HasFields(m, NetFields)
  BY ZenonT(60) DEF IsSound, IsNet, HasFields, IsFunction, NetFields, ConnectToTransition
<1>3. a \notin DOMAIN n.arc
  BY FreshArcIsFresh DEF IsSound, ArcsFit
<1> HIDE DEF a, m
<1>4. /\ IsFunction(m.place) /\ DOMAIN m.place = DOMAIN n.place
      /\ \A q \in DOMAIN n.place :
           /\ HasFields(m.place[q], PlaceFields)
           /\ m.place[q].outgoing = IF q = p THEN n.place[q].outgoing \cup {a} ELSE n.place[q].outgoing
           /\ m.place[q].incoming = n.place[q].incoming
           /\ m.place[q].index = n.place[q].index
           /\ m.place[q].input = n.place[q].input
           /\ m.place[q].output = n.place[q].output
  <2> DEFINE v == n.place[p].outgoing \cup {a}
  <2>1. m.place = Updated(n.place, p, "outgoing", v)
    BY <1>1 DEF Updated
  <2> HIDE DEF v
  <2>2. IsUpdate(m.place, n.place, PlaceFields, p, "outgoing", v)
    <3>1. "outgoing" \in PlaceFields /\ p \in DOMAIN n.place
      BY DEF PlaceFields, HasPlace
    <3>2. AreNodes(n.place, PlaceFields)
      BY DEF IsSound, IsNet
    <3> QED
      BY <2>1, <3>1, <3>2, NodeUpdate
  <2> QED
    BY <2>2 DEF PlaceFields, v, IsUpdate, AreNodes
<1>5. /\ IsFunction(m.transition) /\ DOMAIN m.transition = DOMAIN n.transition
      /\ \A s \in DOMAIN n.transition :
           /\ HasFields(m.transition[s], TransitionFields)
           /\ m.transition[s].incoming
                = IF s = t THEN n.transition[s].incoming \cup {a} ELSE n.transition[s].incoming
           /\ m.transition[s].outgoing = n.transition[s].outgoing
           /\ m.transition[s].index = n.transition[s].index
           /\ m.transition[s].interval = n.transition[s].interval
           /\ m.transition[s].label = n.transition[s].label
  <2> DEFINE v == n.transition[t].incoming \cup {a}
  <2>1. m.transition = Updated(n.transition, t, "incoming", v)
    BY <1>1 DEF Updated
  <2> HIDE DEF v
  <2>2. IsUpdate(m.transition, n.transition, TransitionFields, t, "incoming", v)
    <3>1. "incoming" \in TransitionFields /\ t \in DOMAIN n.transition
      BY DEF TransitionFields, HasTransition
    <3>2. AreNodes(n.transition, TransitionFields)
      BY DEF IsSound, IsNet
    <3> QED
      BY <2>1, <3>1, <3>2, NodeUpdate
  <2> QED
    BY <2>2 DEF TransitionFields, v, IsUpdate, AreNodes
<1>6. /\ DOMAIN m.arc = DOMAIN n.arc \cup {a}
      /\ m.arc[a].source = p /\ m.arc[a].target = t
      /\ \A b \in DOMAIN n.arc : m.arc[b].source = n.arc[b].source /\ m.arc[b].target = n.arc[b].target
  BY <1>1, <1>3 DEF With
<1>7. IsNet(m)
  BY <1>2, <1>4, <1>5 DEF IsNet, AreNodes
<1>8. ArcsFit(m)
  <2>1. IsFiniteSet(DOMAIN m.arc)
    BY <1>6, FS_AddElement DEF IsSound, ArcsFit
  <2>2. m.consuming \cap m.producing = {} /\ m.consuming \cup m.producing = DOMAIN m.arc
    <3>1. /\ n.consuming \cap n.producing = {} /\ n.consuming \cup n.producing = DOMAIN n.arc
          /\ m.consuming = n.consuming \cup {a} /\ m.producing = n.producing
          /\ DOMAIN m.arc = DOMAIN n.arc \cup {a} /\ a \notin DOMAIN n.arc
      BY <1>1, <1>3, <1>6, SMTT(40) DEF IsSound, ArcsFit
    <3> QED
      BY ONLY <3>1
  <2>3. /\ \A b \in m.consuming : m.arc[b].source \in DOMAIN m.place
                                  /\ m.arc[b].target \in DOMAIN m.transition
        /\ \A b \in m.producing : m.arc[b].source \in DOMAIN m.transition
                                  /\ m.arc[b].target \in DOMAIN m.place
    BY <1>1, <1>4, <1>5, <1>6, SMTT(40) DEF IsSound, ArcsFit, HasPlace, HasTransition
  <2>4. \A q \in DOMAIN m.place :
          /\ m.place[q].outgoing = {b \in m.consuming : m.arc[b].source = q}
          /\ m.place[q].incoming = {b \in m.producing : m.arc[b].target = q}
    BY <1>1, <1>3, <1>4, <1>6, SMTT(40) DEF IsSound, ArcsFit
  <2>5. \A s \in DOMAIN m.transition :
          /\ m.transition[s].incoming = {b \in m.consuming : m.arc[b].target = s}
          /\ m.transition[s].outgoing = {b \in m.producing : m.arc[b].source = s}
    BY <1>1, <1>3, <1>5, <1>6, SMTT(40) DEF IsSound, ArcsFit
  <2> QED
    BY <2>1, <2>2, <2>3, <2>4, <2>5 DEF ArcsFit
<1>9. ConsumingAdded(m, n, p, t)
  BY <1>1, <1>3, <1>6 DEF ConsumingAdded, ArcAdded
<1>10. SameNodes(m, n)
  BY <1>1, <1>4, <1>5 DEF SameNodes, SameObjects
<1> QED
  BY <1>7, <1>8, <1>9, <1>10 DEF IsSound, m
LEMMA ConnectToPlaceSound ==
  ASSUME NEW n, IsSound(n), NEW p, HasPlace(n, p), NEW t, HasTransition(n, t)
  PROVE  LET m == ConnectToPlace(n, t, p)
         IN  IsSound(m) /\ SameNodes(m, n) /\ ProducingAdded(m, n, t, p)
<1> DEFINE a == FreshArc(n)
           m == ConnectToPlace(n, t, p)
<1>1. /\ m.arc = With(n.arc, a, [source |-> t, target |-> p])
      /\ m.place = [n.place EXCEPT ![p].incoming = @ \cup {a}]
      /\ m.transition = [n.transition EXCEPT ![t].outgoing = @ \cup {a}]
      /\ m.producing = n.producing \cup {a} /\ m.consuming = n.consuming
      /\ m.placeList = n.placeList /\ m.transitionList = n.transitionList
      /\ m.nextPlace = n.nextPlace /\ m.nextTransition = n.nextTransition
      /\ m.initial = n.initial /\ m.finals = n.finals
  BY DEF IsSound, IsNet, HasFields, IsFunction, NetFields, ConnectToPlace
<1>2. HasFields(m, NetFields)
  BY ZenonT(60) DEF IsSound, IsNet, HasFields, IsFunction, NetFields, ConnectToPlace
<1>3. a \notin DOMAIN n.arc
  BY FreshArcIsFresh DEF IsSound, ArcsFit
<1> HIDE DEF a, m
<1>4. /\ IsFunction(m.place) /\ DOMAIN m.place = DOMAIN n.place
      /\ \A q \in DOMAIN n.place :
           /\ HasFields(m.place[q], PlaceFields)
           /\ m.place[q].incoming = IF q = p THEN n.place[q].incoming \cup {a} ELSE n.place[q].incoming
           /\ m.place[q].outgoing = n.place[q].outgoing
           /\ m.place[q].index = n.place[q].index
           /\ m.place[q].input = n.place[q].input
           /\ m.place[q].output = n.place[q].output
  <2> DEFINE v == n.place[p].incoming \cup {a}
  <2>1. m.place = Updated(n.place, p, "incoming", v)
    BY <1>1 DEF Updated
  <2> HIDE DEF v
  <2>2. IsUpdate(m.place, n.place, PlaceFields, p, "incoming", v)
    <3>1. "incoming" \in PlaceFields /\ p \in DOMAIN n.place
      BY DEF PlaceFields, HasPlace
    <3>2. AreNodes(n.place, PlaceFields)
      BY DEF IsSound, IsNet
    <3> QED
      BY <2>1, <3>1, <3>2, NodeUpdate
  <2> QED
    BY <2>2 DEF PlaceFields, v, IsUpdate, AreNodes
<1>5. /\ IsFunction(m.transition) /\ DOMAIN m.transition = DOMAIN n.transition
      /\ \A s \in DOMAIN n.transition :
           /\ HasFields(m.transition[s], TransitionFields)
           /\ m.transition[s].outgoing
                = IF s = t THEN n.transition[s].outgoing \cup {a} ELSE n.transition[s].outgoing
           /\ m.transition[s].incoming = n.transition[s].incoming
           /\ m.transition[s].index = n.transition[s].index
           /\ m.transition[s].interval = n.transition[s].interval
           /\ m.transition[s].label = n.transition[s].label
  <2> DEFINE v == n.transition[t].outgoing \cup {a}
  <2>1. m.transition = Updated(n.transition, t, "outgoing", v)
    BY <1>1 DEF Updated
  <2> HIDE DEF v
  <2>2. IsUpdate(m.transition, n.transition, TransitionFields, t, "outgoing", v)
    <3>1. "outgoing" \in TransitionFields /\ t \in DOMAIN n.transition
      BY DEF TransitionFields, HasTransition
    <3>2. AreNodes(n.transition, TransitionFields)
      BY DEF IsSound, IsNet
    <3> QED
      BY <2>1, <3>1, <3>2, NodeUpdate
  <2> QED
    BY <2>2 DEF TransitionFields, v, IsUpdate, AreNodes
<1>6. /\ DOMAIN m.arc = DOMAIN n.arc \cup {a}
      /\ m.arc[a].source = t /\ m.arc[a].target = p
      /\ \A b \in DOMAIN n.arc : m.arc[b].source = n.arc[b].source /\ m.arc[b].target = n.arc[b].target
  BY <1>1, <1>3 DEF With
<1>7. IsNet(m)
  BY <1>2, <1>4, <1>5 DEF IsNet, AreNodes
<1>8. ArcsFit(m)
  <2>1. IsFiniteSet(DOMAIN m.arc)
    BY <1>6, FS_AddElement DEF IsSound, ArcsFit
  <2>2. m.consuming \cap m.producing = {} /\ m.consuming \cup m.producing = DOMAIN m.arc
    <3>1. /\ n.consuming \cap n.producing = {} /\ n.consuming \cup n.producing = DOMAIN n.arc
          /\ m.producing = n.producing \cup {a} /\ m.consuming = n.consuming
          /\ DOMAIN m.arc = DOMAIN n.arc \cup {a} /\ a \notin DOMAIN n.arc
      BY <1>1, <1>3, <1>6, SMTT(40) DEF IsSound, ArcsFit
    <3> QED
      BY ONLY <3>1
  <2>3. /\ \A b \in m.consuming : m.arc[b].source \in DOMAIN m.place
                                  /\ m.arc[b].target \in DOMAIN m.transition
        /\ \A b \in m.producing : m.arc[b].source \in DOMAIN m.transition
                                  /\ m.arc[b].target \in DOMAIN m.place
    BY <1>1, <1>4, <1>5, <1>6, SMTT(40) DEF IsSound, ArcsFit, HasPlace, HasTransition
  <2>4. \A q \in DOMAIN m.place :
          /\ m.place[q].outgoing = {b \in m.consuming : m.arc[b].source = q}
          /\ m.place[q].incoming = {b \in m.producing : m.arc[b].target = q}
    BY <1>1, <1>3, <1>4, <1>6, SMTT(40) DEF IsSound, ArcsFit
  <2>5. \A s \in DOMAIN m.transition :
          /\ m.transition[s].incoming = {b \in m.consuming : m.arc[b].target = s}
          /\ m.transition[s].outgoing = {b \in m.producing : m.arc[b].source = s}
    BY <1>1, <1>3, <1>5, <1>6, SMTT(40) DEF IsSound, ArcsFit
  <2> QED
    BY <2>1, <2>2, <2>3, <2>4, <2>5 DEF ArcsFit
<1>9. ProducingAdded(m, n, t, p)
  BY <1>1, <1>3, <1>6 DEF ProducingAdded, ArcAdded
<1>10. SameNodes(m, n)
  BY <1>1, <1>4, <1>5 DEF SameNodes, SameObjects
<1> QED
  BY <1>7, <1>8, <1>9, <1>10 DEF IsSound, m
-----------------------------------------------------------------------------
(***************************************************************************)
(* Deletions: the nodes forget arcs, and nothing else of them changes.     *)
(***************************************************************************)
Forgets(m, nodes, fields, field, A) ==
  /\ AreNodes(m, fields) /\ DOMAIN m = DOMAIN nodes
  /\ \A x \in DOMAIN nodes : /\ m[x][field] = nodes[x][field] \ A
                             /\ \A f \in fields \ {field} : m[x][f] = nodes[x][f]

LEMMA RemoveIncomingForgets ==
  ASSUME NEW nodes, NEW fields, AreNodes(nodes, fields), "incoming" \in fields, NEW A
  PROVE  Forgets(RemoveIncoming(nodes, A), nodes, fields, "incoming", A)
<1> DEFINE new(x) == [nodes[x] EXCEPT !["incoming"] = nodes[x].incoming \ A]
           m      == RemoveIncoming(nodes, A)
<1>1. \A x \in DOMAIN nodes :
        /\ HasFields(new(x), fields) /\ new(x).incoming = nodes[x].incoming \ A
        /\ \A f \in fields \ {"incoming"} : new(x)[f] = nodes[x][f]
  BY DEF AreNodes, HasFields, IsFunction
<1>2. m = [x \in DOMAIN nodes |-> new(x)]
  BY DEF RemoveIncoming
<1> HIDE DEF new, m
<1>3. IsFunction(m) /\ DOMAIN m = DOMAIN nodes /\ \A x \in DOMAIN nodes : m[x] = new(x)
  BY <1>2 DEF IsFunction
<1> QED
  BY <1>1, <1>3 DEF Forgets, AreNodes, m

LEMMA RemoveOutgoingForgets ==
  ASSUME NEW nodes, NEW fields, AreNodes(nodes, fields), "outgoing" \in fields, NEW A
  PROVE  Forgets(RemoveOutgoing(nodes, A), nodes, fields, "outgoing", A)
<1> DEFINE new(x) == [nodes[x] EXCEPT !["outgoing"] = nodes[x].outgoing \ A]
           m      == RemoveOutgoing(nodes, A)
<1>1. \A x \in DOMAIN nodes :
        /\ HasFields(new(x), fields) /\ new(x).outgoing = nodes[x].outgoing \ A
        /\ \A f \in fields \ {"outgoing"} : new(x)[f] = nodes[x][f]
  BY DEF AreNodes, HasFields, IsFunction
<1>2. m = [x \in DOMAIN nodes |-> new(x)]
  BY DEF RemoveOutgoing
<1> HIDE DEF new, m
<1>3. IsFunction(m) /\ DOMAIN m = DOMAIN nodes /\ \A x \in DOMAIN nodes : m[x] = new(x)
  BY <1>2 DEF IsFunction
<1> QED
  BY <1>1, <1>3 DEF Forgets, AreNodes, m

\* The node lists after both.
LEMMA RemoveBoth ==
  ASSUME NEW nodes, NEW fields, AreNodes(nodes, fields),
         "incoming" \in fields, "outgoing" \in fields, NEW A, NEW B
  PROVE  LET m == RemoveIncoming(RemoveOutgoing(nodes, A), B)
         IN  /\ AreNodes(m, fields) /\ DOMAIN m = DOMAIN nodes
             /\ \A x \in DOMAIN nodes : /\ m[x].outgoing = nodes[x].outgoing \ A
                                        /\ m[x].incoming = nodes[x].incoming \ B
<1> DEFINE k == RemoveOutgoing(nodes, A)
<1>1. Forgets(k, nodes, fields, "outgoing", A)
  BY RemoveOutgoingForgets
<1>2. AreNodes(k, fields)
  BY <1>1 DEF Forgets
<1> HIDE DEF k
<1>3. Forgets(RemoveIncoming(k, B), k, fields, "incoming", B)
  BY <1>2, RemoveIncomingForgets
<1>4. "incoming" \in fields \ {"outgoing"} /\ "outgoing" \in fields \ {"incoming"}
  OBVIOUS
<1> QED
  BY <1>1, <1>3, <1>4 DEF Forgets, k

LEMMA DisconnectSound ==
  ASSUME NEW n, IsSound(n), NEW a
  PROVE  IsSound(Disconnect(n, a))
<1> DEFINE m == Disconnect(n, a)
<1>1. /\ m.place = RemoveIncoming(RemoveOutgoing(n.place, {a}), {a})
      /\ m.transition = RemoveIncoming(RemoveOutgoing(n.transition, {a}), {a})
      /\ m.consuming = n.consuming \ {a} /\ m.producing = n.producing \ {a}
      /\ m.arc = WithoutArcs(n, {a})
  BY DEF IsSound, IsNet, HasFields, IsFunction, NetFields, Disconnect
<1>2. HasFields(m, NetFields)
  BY DEF IsSound, IsNet, HasFields, IsFunction, NetFields, Disconnect
<1>3. DOMAIN m.arc = DOMAIN n.arc \ {a} /\ \A b \in DOMAIN m.arc : m.arc[b] = n.arc[b]
  BY <1>1 DEF WithoutArcs, Restrict
<1> HIDE DEF m
<1>4. /\ AreNodes(m.place, PlaceFields) /\ DOMAIN m.place = DOMAIN n.place
      /\ \A q \in DOMAIN n.place : /\ m.place[q].outgoing = n.place[q].outgoing \ {a}
                                   /\ m.place[q].incoming = n.place[q].incoming \ {a}
  <2>1. "incoming" \in PlaceFields /\ "outgoing" \in PlaceFields /\ AreNodes(n.place, PlaceFields)
    BY DEF PlaceFields, IsSound, IsNet
  <2> QED
    BY <1>1, <2>1, RemoveBoth
<1>5. /\ AreNodes(m.transition, TransitionFields) /\ DOMAIN m.transition = DOMAIN n.transition
      /\ \A s \in DOMAIN n.transition : /\ m.transition[s].outgoing = n.transition[s].outgoing \ {a}
                                        /\ m.transition[s].incoming = n.transition[s].incoming \ {a}
  <2>1. /\ "incoming" \in TransitionFields /\ "outgoing" \in TransitionFields
        /\ AreNodes(n.transition, TransitionFields)
    BY DEF TransitionFields, IsSound, IsNet
  <2> QED
    BY <1>1, <2>1, RemoveBoth
<1>6. IsNet(m)
  BY <1>2, <1>4, <1>5 DEF IsNet
<1>7. ArcsFit(m)
  <2>1. IsFiniteSet(DOMAIN m.arc)
    BY <1>3, FS_Subset DEF IsSound, ArcsFit
  <2>2. m.consuming \cap m.producing = {} /\ m.consuming \cup m.producing = DOMAIN m.arc
    BY <1>1, <1>3 DEF IsSound, ArcsFit
  <2>3. /\ \A b \in m.consuming : m.arc[b].source \in DOMAIN m.place
                                  /\ m.arc[b].target \in DOMAIN m.transition
        /\ \A b \in m.producing : m.arc[b].source \in DOMAIN m.transition
                                  /\ m.arc[b].target \in DOMAIN m.place
    BY <1>1, <1>3, <1>4, <1>5, <2>2 DEF IsSound, ArcsFit
  <2>4. \A q \in DOMAIN m.place :
          /\ m.place[q].outgoing = {b \in m.consuming : m.arc[b].source = q}
          /\ m.place[q].incoming = {b \in m.producing : m.arc[b].target = q}
    <3>1. \A q \in DOMAIN m.place :
            /\ m.place[q].outgoing = {b \in n.consuming : n.arc[b].source = q} \ {a}
            /\ m.place[q].incoming = {b \in n.producing : n.arc[b].target = q} \ {a}
      BY <1>4 DEF IsSound, ArcsFit
    <3>2. \A b \in m.consuming \cup m.producing : m.arc[b] = n.arc[b]
      BY <1>3, <2>2
    <3>3. m.consuming = n.consuming \ {a} /\ m.producing = n.producing \ {a}
      BY <1>1
    <3> QED
      BY <3>1, <3>2, <3>3
  <2>5. \A s \in DOMAIN m.transition :
          /\ m.transition[s].incoming = {b \in m.consuming : m.arc[b].target = s}
          /\ m.transition[s].outgoing = {b \in m.producing : m.arc[b].source = s}
    <3>1. \A s \in DOMAIN m.transition :
            /\ m.transition[s].incoming = {b \in n.consuming : n.arc[b].target = s} \ {a}
            /\ m.transition[s].outgoing = {b \in n.producing : n.arc[b].source = s} \ {a}
      BY <1>5 DEF IsSound, ArcsFit
    <3>2. \A b \in m.consuming \cup m.producing : m.arc[b] = n.arc[b]
      BY <1>3, <2>2
    <3>3. m.consuming = n.consuming \ {a} /\ m.producing = n.producing \ {a}
      BY <1>1
    <3> QED
      BY <3>1, <3>2, <3>3
  <2> QED
    BY <2>1, <2>2, <2>3, <2>4, <2>5 DEF ArcsFit
<1> QED
  BY <1>6, <1>7 DEF IsSound, m
LEMMA DeletePlaceSound ==
  ASSUME NEW n, IsSound(n), NEW p \in DOMAIN n.place
  PROVE  IsSound(DeletePlace(n, p))
<1> DEFINE in  == n.place[p].incoming
           out == n.place[p].outgoing
           m   == DeletePlace(n, p)
<1>1. /\ m.place = Restrict(n.place, DOMAIN n.place \ {p})
      /\ m.transition = RemoveIncoming(RemoveOutgoing(n.transition, in), out)
      /\ m.consuming = n.consuming \ out /\ m.producing = n.producing \ in
      /\ m.arc = WithoutArcs(n, in \cup out)
  BY DEF IsSound, IsNet, HasFields, IsFunction, NetFields, DeletePlace
<1>2. HasFields(m, NetFields)
  BY DEF IsSound, IsNet, HasFields, IsFunction, NetFields, DeletePlace
<1>3. /\ DOMAIN m.arc = DOMAIN n.arc \ (in \cup out)
      /\ \A b \in DOMAIN m.arc : m.arc[b] = n.arc[b]
  BY <1>1 DEF WithoutArcs, Restrict
<1>4. /\ out = {a \in n.consuming : n.arc[a].source = p}
      /\ in = {a \in n.producing : n.arc[a].target = p}
  BY DEF IsSound, ArcsFit
<1> HIDE DEF m, in, out
<1>5. /\ AreNodes(m.place, PlaceFields) /\ DOMAIN m.place = DOMAIN n.place \ {p}
      /\ \A q \in DOMAIN m.place : m.place[q] = n.place[q]
  BY <1>1 DEF Restrict, IsSound, IsNet, AreNodes, IsFunction
<1>6. /\ AreNodes(m.transition, TransitionFields) /\ DOMAIN m.transition = DOMAIN n.transition
      /\ \A s \in DOMAIN n.transition : /\ m.transition[s].outgoing = n.transition[s].outgoing \ in
                                        /\ m.transition[s].incoming = n.transition[s].incoming \ out
  <2>1. /\ "incoming" \in TransitionFields /\ "outgoing" \in TransitionFields
        /\ AreNodes(n.transition, TransitionFields)
    BY DEF TransitionFields, IsSound, IsNet
  <2> QED
    BY <1>1, <2>1, RemoveBoth
<1>7. IsNet(m)
  BY <1>2, <1>5, <1>6 DEF IsNet
<1>8. ArcsFit(m)
  <2>1. IsFiniteSet(DOMAIN m.arc)
    BY <1>3, FS_Subset DEF IsSound, ArcsFit
  <2>2. m.consuming \cap m.producing = {} /\ m.consuming \cup m.producing = DOMAIN m.arc
    <3>1. n.consuming \cap n.producing = {} /\ n.consuming \cup n.producing = DOMAIN n.arc
      BY DEF IsSound, ArcsFit
    <3>2. out \subseteq n.consuming /\ in \subseteq n.producing
      BY <1>4
    <3> QED
      BY <1>1, <1>3, <3>1, <3>2
  <2>3. \A b \in m.consuming \cup m.producing : m.arc[b] = n.arc[b]
    BY <1>3, <2>2
  <2>4. /\ \A b \in m.consuming : n.arc[b].source # p
        /\ \A b \in m.producing : n.arc[b].target # p
    BY <1>1, <1>4
  <2>5. /\ \A b \in m.consuming : m.arc[b].source \in DOMAIN m.place
                                  /\ m.arc[b].target \in DOMAIN m.transition
        /\ \A b \in m.producing : m.arc[b].source \in DOMAIN m.transition
                                  /\ m.arc[b].target \in DOMAIN m.place
    BY <1>1, <1>5, <1>6, <2>3, <2>4 DEF IsSound, ArcsFit
  <2>6. \A q \in DOMAIN m.place :
          /\ m.place[q].outgoing = {b \in m.consuming : m.arc[b].source = q}
          /\ m.place[q].incoming = {b \in m.producing : m.arc[b].target = q}
    <3>1. \A q \in DOMAIN m.place :
            /\ q # p
            /\ m.place[q].outgoing = {b \in n.consuming : n.arc[b].source = q}
            /\ m.place[q].incoming = {b \in n.producing : n.arc[b].target = q}
      BY <1>5 DEF IsSound, ArcsFit
    <3>2. m.consuming = n.consuming \ out /\ m.producing = n.producing \ in
      BY <1>1
    <3> QED
      BY <1>4, <2>3, <3>1, <3>2
  <2>7. \A s \in DOMAIN m.transition :
          /\ m.transition[s].incoming = {b \in m.consuming : m.arc[b].target = s}
          /\ m.transition[s].outgoing = {b \in m.producing : m.arc[b].source = s}
    <3>1. \A s \in DOMAIN m.transition :
            /\ m.transition[s].incoming = {b \in n.consuming : n.arc[b].target = s} \ out
            /\ m.transition[s].outgoing = {b \in n.producing : n.arc[b].source = s} \ in
      BY <1>6 DEF IsSound, ArcsFit
    <3>2. m.consuming = n.consuming \ out /\ m.producing = n.producing \ in
      BY <1>1
    <3> QED
      BY <2>3, <3>1, <3>2
  <2> QED
    BY <2>1, <2>2, <2>5, <2>6, <2>7 DEF ArcsFit
<1> QED
  BY <1>7, <1>8 DEF IsSound, m

LEMMA DeleteTransitionSound ==
  ASSUME NEW n, IsSound(n), NEW t \in DOMAIN n.transition
  PROVE  IsSound(DeleteTransition(n, t))
<1> DEFINE in  == n.transition[t].incoming
           out == n.transition[t].outgoing
           m   == DeleteTransition(n, t)
<1>1. /\ m.transition = Restrict(n.transition, DOMAIN n.transition \ {t})
      /\ m.place = RemoveIncoming(RemoveOutgoing(n.place, in), out)
      /\ m.producing = n.producing \ out /\ m.consuming = n.consuming \ in
      /\ m.arc = WithoutArcs(n, in \cup out)
  BY DEF IsSound, IsNet, HasFields, IsFunction, NetFields, DeleteTransition
<1>2. HasFields(m, NetFields)
  BY DEF IsSound, IsNet, HasFields, IsFunction, NetFields, DeleteTransition
<1>3. /\ DOMAIN m.arc = DOMAIN n.arc \ (in \cup out)
      /\ \A b \in DOMAIN m.arc : m.arc[b] = n.arc[b]
  BY <1>1 DEF WithoutArcs, Restrict
<1>4. /\ out = {a \in n.producing : n.arc[a].source = t}
      /\ in = {a \in n.consuming : n.arc[a].target = t}
  BY DEF IsSound, ArcsFit
<1> HIDE DEF m, in, out
<1>5. /\ AreNodes(m.transition, TransitionFields) /\ DOMAIN m.transition = DOMAIN n.transition \ {t}
      /\ \A s \in DOMAIN m.transition : m.transition[s] = n.transition[s]
  BY <1>1 DEF Restrict, IsSound, IsNet, AreNodes, IsFunction
<1>6. /\ AreNodes(m.place, PlaceFields) /\ DOMAIN m.place = DOMAIN n.place
      /\ \A q \in DOMAIN n.place : /\ m.place[q].outgoing = n.place[q].outgoing \ in
                                        /\ m.place[q].incoming = n.place[q].incoming \ out
  <2>1. /\ "incoming" \in PlaceFields /\ "outgoing" \in PlaceFields
        /\ AreNodes(n.place, PlaceFields)
    BY DEF PlaceFields, IsSound, IsNet
  <2> QED
    BY <1>1, <2>1, RemoveBoth
<1>7. IsNet(m)
  BY <1>2, <1>5, <1>6 DEF IsNet
<1>8. ArcsFit(m)
  <2>1. IsFiniteSet(DOMAIN m.arc)
    BY <1>3, FS_Subset DEF IsSound, ArcsFit
  <2>2. m.producing \cap m.consuming = {} /\ m.producing \cup m.consuming = DOMAIN m.arc
    <3>1. n.producing \cap n.consuming = {} /\ n.producing \cup n.consuming = DOMAIN n.arc
      BY DEF IsSound, ArcsFit
    <3>2. out \subseteq n.producing /\ in \subseteq n.consuming
      BY <1>4
    <3> QED
      BY <1>1, <1>3, <3>1, <3>2
  <2>3. \A b \in m.producing \cup m.consuming : m.arc[b] = n.arc[b]
    BY <1>3, <2>2
  <2>4. /\ \A b \in m.producing : n.arc[b].source # t
        /\ \A b \in m.consuming : n.arc[b].target # t
    BY <1>1, <1>4
  <2>5. /\ \A b \in m.producing : m.arc[b].source \in DOMAIN m.transition
                                  /\ m.arc[b].target \in DOMAIN m.place
        /\ \A b \in m.consuming : m.arc[b].source \in DOMAIN m.place
                                  /\ m.arc[b].target \in DOMAIN m.transition
    BY <1>1, <1>5, <1>6, <2>3, <2>4 DEF IsSound, ArcsFit
  <2>6. \A s \in DOMAIN m.transition :
          /\ m.transition[s].outgoing = {b \in m.producing : m.arc[b].source = s}
          /\ m.transition[s].incoming = {b \in m.consuming : m.arc[b].target = s}
    <3>1. \A s \in DOMAIN m.transition :
            /\ s # t
            /\ m.transition[s].outgoing = {b \in n.producing : n.arc[b].source = s}
            /\ m.transition[s].incoming = {b \in n.consuming : n.arc[b].target = s}
      BY <1>5 DEF IsSound, ArcsFit
    <3>2. m.producing = n.producing \ out /\ m.consuming = n.consuming \ in
      BY <1>1
    <3> QED
      BY <1>4, <2>3, <3>1, <3>2
  <2>7. \A q \in DOMAIN m.place :
          /\ m.place[q].incoming = {b \in m.producing : m.arc[b].target = q}
          /\ m.place[q].outgoing = {b \in m.consuming : m.arc[b].source = q}
    <3>1. \A q \in DOMAIN m.place :
            /\ m.place[q].incoming = {b \in n.producing : n.arc[b].target = q} \ out
            /\ m.place[q].outgoing = {b \in n.consuming : n.arc[b].source = q} \ in
      BY <1>6 DEF IsSound, ArcsFit
    <3>2. m.producing = n.producing \ out /\ m.consuming = n.consuming \ in
      BY <1>1
    <3> QED
      BY <2>3, <3>1, <3>2
  <2> QED
    BY <2>1, <2>2, <2>5, <2>6, <2>7 DEF ArcsFit
<1> QED
  BY <1>7, <1>8 DEF IsSound, m
-----------------------------------------------------------------------------
(***************************************************************************)
(* The fields that the parser and ConstructMaximalNet set.                 *)
(***************************************************************************)
\* A change that the arcs and the lists are not concerned by.
SameGraph(m, n) ==
  /\ SameObjects(m, n)
  /\ m.arc = n.arc /\ m.consuming = n.consuming /\ m.producing = n.producing
  /\ \A p \in DOMAIN n.place : /\ m.place[p].incoming = n.place[p].incoming
                               /\ m.place[p].outgoing = n.place[p].outgoing
  /\ \A t \in DOMAIN n.transition : /\ m.transition[t].incoming = n.transition[t].incoming
                                    /\ m.transition[t].outgoing = n.transition[t].outgoing

LEMMA SameGraphSound ==
  ASSUME NEW n, IsSound(n), NEW m, IsNet(m), SameGraph(m, n)
  PROVE  IsSound(m)
BY DEF IsSound, ArcsFit, SameGraph, SameObjects

LEMMA PlaceFieldSet ==
  ASSUME NEW n, IsSound(n), NEW p \in DOMAIN n.place, NEW field \in {"input", "output"}
  PROVE  LET m == [n EXCEPT !.place = Updated(@, p, field, TRUE)]
         IN  IsSound(m) /\ SameGraph(m, n) /\ m.initial = n.initial /\ m.finals = n.finals
<1> DEFINE m == [n EXCEPT !.place = Updated(@, p, field, TRUE)]
<1>1. /\ m.place = Updated(n.place, p, field, TRUE)
      /\ m.placeList = n.placeList /\ m.transitionList = n.transitionList
      /\ m.nextPlace = n.nextPlace /\ m.nextTransition = n.nextTransition
      /\ m.arc = n.arc /\ m.consuming = n.consuming /\ m.producing = n.producing
      /\ m.transition = n.transition /\ m.initial = n.initial /\ m.finals = n.finals
  BY DEF IsSound, IsNet, HasFields, IsFunction, NetFields
<1>2. HasFields(m, NetFields)
  BY DEF IsSound, IsNet, HasFields, IsFunction, NetFields
<1> HIDE DEF m
<1>3. IsUpdate(m.place, n.place, PlaceFields, p, field, TRUE)
  <2>1. AreNodes(n.place, PlaceFields) /\ field \in PlaceFields
    BY DEF IsSound, IsNet, PlaceFields
  <2> QED
    BY <1>1, <2>1, NodeUpdate
<1>4. IsNet(m)
  BY <1>1, <1>2, <1>3 DEF IsNet, IsUpdate, IsSound
<1>5. SameGraph(m, n)
  BY <1>1, <1>3 DEF SameGraph, SameObjects, IsUpdate, PlaceFields
<1> QED
  BY <1>1, <1>4, <1>5, SameGraphSound DEF m

LEMMA InitialSet ==
  ASSUME NEW n, IsSound(n), NEW initial
  PROVE  LET m == [n EXCEPT !.initial = initial]
         IN  IsSound(m) /\ SameGraph(m, n) /\ m.initial = initial /\ m.finals = n.finals
<1> DEFINE m == [n EXCEPT !.initial = initial]
<1>1. HasFields(m, NetFields)
  BY DEF IsSound, IsNet, HasFields, IsFunction, NetFields
<1>2. /\ m.place = n.place /\ m.transition = n.transition
      /\ m.placeList = n.placeList /\ m.transitionList = n.transitionList
      /\ m.nextPlace = n.nextPlace /\ m.nextTransition = n.nextTransition
      /\ m.arc = n.arc /\ m.consuming = n.consuming /\ m.producing = n.producing
      /\ m.initial = initial /\ m.finals = n.finals
  BY DEF IsSound, IsNet, HasFields, IsFunction, NetFields
<1> HIDE DEF m
<1>3. IsNet(m) /\ SameGraph(m, n)
  BY <1>1, <1>2 DEF IsNet, IsSound, SameGraph, SameObjects
<1> QED
  BY <1>2, <1>3, SameGraphSound DEF m

LEMMA FinalsSet ==
  ASSUME NEW n, IsSound(n), NEW finals
  PROVE  LET m == [n EXCEPT !.finals = finals]
         IN  IsSound(m) /\ SameGraph(m, n) /\ m.initial = n.initial /\ m.finals = finals
<1> DEFINE m == [n EXCEPT !.finals = finals]
<1>1. HasFields(m, NetFields)
  BY DEF IsSound, IsNet, HasFields, IsFunction, NetFields
<1>2. /\ m.place = n.place /\ m.transition = n.transition
      /\ m.placeList = n.placeList /\ m.transitionList = n.transitionList
      /\ m.nextPlace = n.nextPlace /\ m.nextTransition = n.nextTransition
      /\ m.arc = n.arc /\ m.consuming = n.consuming /\ m.producing = n.producing
      /\ m.initial = n.initial /\ m.finals = finals
  BY DEF IsSound, IsNet, HasFields, IsFunction, NetFields
<1> HIDE DEF m
<1>3. IsNet(m) /\ SameGraph(m, n)
  BY <1>1, <1>2 DEF IsNet, IsSound, SameGraph, SameObjects
<1> QED
  BY <1>2, <1>3, SameGraphSound DEF m

LEMMA LabelsSet ==
  ASSUME NEW n, IsSound(n)
  PROVE  LET m == [n EXCEPT !.transition = [t \in DOMAIN @ |-> [@[t] EXCEPT !.label = Labelled(n, t)]]]
         IN  /\ IsSound(m) /\ SameGraph(m, n) /\ m.place = n.place
             /\ m.initial = n.initial /\ m.finals = n.finals
             /\ \A t \in DOMAIN n.transition : m.transition[t].label = Labelled(n, t)
<1> DEFINE new(t) == [n.transition[t] EXCEPT !["label"] = Labelled(n, t)]
           m == [n EXCEPT !.transition = [t \in DOMAIN @ |-> [@[t] EXCEPT !.label = Labelled(n, t)]]]
<1>1. /\ m.transition = [t \in DOMAIN n.transition |-> new(t)]
      /\ m.place = n.place
      /\ m.placeList = n.placeList /\ m.transitionList = n.transitionList
      /\ m.nextPlace = n.nextPlace /\ m.nextTransition = n.nextTransition
      /\ m.arc = n.arc /\ m.consuming = n.consuming /\ m.producing = n.producing
      /\ m.initial = n.initial /\ m.finals = n.finals
  BY DEF IsSound, IsNet, HasFields, IsFunction, NetFields
<1>2. HasFields(m, NetFields)
  BY DEF IsSound, IsNet, HasFields, IsFunction, NetFields
<1>3. \A t \in DOMAIN n.transition :
        /\ HasFields(new(t), TransitionFields) /\ new(t).label = Labelled(n, t)
        /\ \A f \in TransitionFields \ {"label"} : new(t)[f] = n.transition[t][f]
  <2>1. \A t \in DOMAIN n.transition : HasFields(n.transition[t], TransitionFields)
    BY DEF IsSound, IsNet, AreNodes
  <2>2. "label" \in TransitionFields
    BY DEF TransitionFields
  <2> QED
    BY <2>1, <2>2 DEF HasFields, IsFunction
<1> HIDE DEF new, m
<1>4. IsFunction(m.transition) /\ DOMAIN m.transition = DOMAIN n.transition
      /\ \A t \in DOMAIN n.transition : m.transition[t] = new(t)
  BY <1>1 DEF IsFunction
<1>5. IsNet(m)
  BY <1>1, <1>2, <1>3, <1>4 DEF IsNet, IsSound, AreNodes
<1>6. SameGraph(m, n)
  BY <1>1, <1>3, <1>4 DEF SameGraph, SameObjects, TransitionFields
<1>7. IsSound(m)
  BY <1>5, <1>6, SameGraphSound
<1> QED
  BY <1>1, <1>3, <1>4, <1>6, <1>7 DEF m
-----------------------------------------------------------------------------
(***************************************************************************)
(* Lists, indexes and intervals.                                           *)
(***************************************************************************)
PlaceAdded(m, n, p) ==
  /\ m.placeList = Append(n.placeList, p) /\ m.nextPlace = n.nextPlace + 1
  /\ DOMAIN m.place = DOMAIN n.place \cup {p} /\ m.place[p].index = n.nextPlace
  /\ \A q \in DOMAIN n.place : m.place[q] = n.place[q]
  /\ m.transitionList = n.transitionList /\ m.nextTransition = n.nextTransition
  /\ m.transition = n.transition /\ m.initial = n.initial /\ m.finals = n.finals

LEMMA CreatePlaceAdds ==
  ASSUME NEW n, IsSound(n), NEW p, ~ HasPlace(n, p), NEW bound
  PROVE  PlaceAdded(CreatePlace(n, p, bound), n, p)
<1> DEFINE m == CreatePlace(n, p, bound)
<1>1. /\ m.place = With(n.place, p, [index |-> n.nextPlace, bound |-> bound,
                                  input |-> FALSE, output |-> FALSE,
                                  incoming |-> {}, outgoing |-> {}])
      /\ m.placeList = Append(n.placeList, p) /\ m.nextPlace = n.nextPlace + 1
      /\ m.transitionList = n.transitionList /\ m.nextTransition = n.nextTransition
      /\ m.transition = n.transition /\ m.initial = n.initial /\ m.finals = n.finals
  BY DEF IsSound, IsNet, HasFields, IsFunction, NetFields, CreatePlace
<1> HIDE DEF m
<1> QED
  BY <1>1 DEF PlaceAdded, With, HasPlace, m

TransitionAdded(m, n, t, interval) ==
  /\ m.transitionList = Append(n.transitionList, t) /\ m.nextTransition = n.nextTransition + 1
  /\ DOMAIN m.transition = DOMAIN n.transition \cup {t}
  /\ m.transition[t].index = n.nextTransition /\ m.transition[t].interval = interval
  /\ m.transition[t].incoming = {} /\ m.transition[t].outgoing = {}
  /\ \A s \in DOMAIN n.transition : m.transition[s] = n.transition[s]
  /\ m.placeList = n.placeList /\ m.nextPlace = n.nextPlace
  /\ m.place = n.place /\ m.initial = n.initial /\ m.finals = n.finals
  /\ m.arc = n.arc /\ m.consuming = n.consuming /\ m.producing = n.producing

LEMMA CreateTransitionAdds ==
  ASSUME NEW n, IsSound(n), NEW t, ~ HasTransition(n, t), NEW interval
  PROVE  TransitionAdded(CreateTransition(n, t, interval), n, t, interval)
<1> DEFINE m == CreateTransition(n, t, interval)
<1>1. /\ m.transition = With(n.transition, t, [index |-> n.nextTransition, interval |-> interval,
                                       label |-> <<t>>, incoming |-> {}, outgoing |-> {}])
      /\ m.transitionList = Append(n.transitionList, t) /\ m.nextTransition = n.nextTransition + 1
      /\ m.placeList = n.placeList /\ m.nextPlace = n.nextPlace
      /\ m.place = n.place /\ m.initial = n.initial /\ m.finals = n.finals
      /\ m.arc = n.arc /\ m.consuming = n.consuming /\ m.producing = n.producing
  BY DEF IsSound, IsNet, HasFields, IsFunction, NetFields, CreateTransition
<1> HIDE DEF m
<1> QED
  BY <1>1 DEF TransitionAdded, With, HasTransition, m

\* A list names every object once, in the order of the indexes.
ListFits(list, next, nodes) ==
  /\ next = Len(list) /\ list \in Seq(DOMAIN nodes)
  /\ \A i \in 1 .. Len(list) : nodes[list[i]].index = i - 1
  /\ \A x \in DOMAIN nodes : \E i \in 1 .. Len(list) : list[i] = x

ListsFit(n) == /\ ListFits(n.placeList, n.nextPlace, n.place)
               /\ ListFits(n.transitionList, n.nextTransition, n.transition)

IntervalsFit(n) ==
  \A t \in DOMAIN n.transition : n.transition[t].interval[1] <= n.transition[t].interval[2]

LEMMA ListGrows ==
  ASSUME NEW list, NEW next, NEW nodes, ListFits(list, next, nodes),
         NEW x, NEW more, DOMAIN more = DOMAIN nodes \cup {x}, x \notin DOMAIN nodes,
         more[x].index = next, \A y \in DOMAIN nodes : more[y] = nodes[y]
  PROVE  ListFits(Append(list, x), next + 1, more)
<1> DEFINE new == Append(list, x)
<1>1. list \in Seq(DOMAIN nodes) /\ next = Len(list) /\ Len(list) \in Nat
  BY DEF ListFits
<1>2. /\ new \in Seq(DOMAIN more) /\ Len(new) = Len(list) + 1
      /\ \A i \in 1 .. Len(list) : new[i] = list[i] /\ list[i] \in DOMAIN nodes
      /\ new[Len(list) + 1] = x
  BY <1>1
<1> HIDE DEF new
<1>3. \A i \in 1 .. Len(new) : more[new[i]].index = i - 1
  <2> SUFFICES ASSUME NEW i \in 1 .. Len(new)
               PROVE  more[new[i]].index = i - 1
    OBVIOUS
  <2>1. CASE i \in 1 .. Len(list)
    BY <1>2, <2>1 DEF ListFits
  <2>2. CASE i = Len(list) + 1
    BY <1>1, <1>2, <2>2
  <2> QED
    BY <1>1, <1>2, <2>1, <2>2
<1>4. \A y \in DOMAIN more : \E i \in 1 .. Len(new) : new[i] = y
  <2> SUFFICES ASSUME NEW y \in DOMAIN more
               PROVE  \E i \in 1 .. Len(new) : new[i] = y
    OBVIOUS
  <2>1. CASE y = x
    BY <1>1, <1>2, <2>1
  <2>2. CASE y \in DOMAIN nodes
    <3>1. PICK i \in 1 .. Len(list) : list[i] = y
      BY <2>2 DEF ListFits
    <3> QED
      BY <1>1, <1>2, <3>1
  <2> QED
    BY <2>1, <2>2
<1> QED
  BY <1>1, <1>2, <1>3, <1>4 DEF ListFits, new

LEMMA PlaceAddedFits ==
  ASSUME NEW n, NEW m, NEW p, ~ HasPlace(n, p), PlaceAdded(m, n, p), ListsFit(n)
  PROVE  ListsFit(m)
BY ListGrows DEF PlaceAdded, ListsFit, HasPlace

LEMMA TransitionAddedFits ==
  ASSUME NEW n, NEW m, NEW t, ~ HasTransition(n, t), NEW interval,
         TransitionAdded(m, n, t, interval), ListsFit(n), IntervalsFit(n),
         interval[1] <= interval[2]
  PROVE  ListsFit(m) /\ IntervalsFit(m)
<1>1. ListFits(m.transitionList, m.nextTransition, m.transition)
  <2>1. /\ ListFits(n.transitionList, n.nextTransition, n.transition)
        /\ DOMAIN m.transition = DOMAIN n.transition \cup {t} /\ t \notin DOMAIN n.transition
        /\ m.transition[t].index = n.nextTransition
        /\ \A s \in DOMAIN n.transition : m.transition[s] = n.transition[s]
    BY DEF TransitionAdded, ListsFit, HasTransition
  <2>2. ListFits(Append(n.transitionList, t), n.nextTransition + 1, m.transition)
    BY <2>1, ListGrows
  <2> QED
    BY <2>2 DEF TransitionAdded
<1>2. ListFits(m.placeList, m.nextPlace, m.place)
  BY DEF TransitionAdded, ListsFit
<1> QED
  BY <1>1, <1>2 DEF TransitionAdded, ListsFit, IntervalsFit

LEMMA SameListFits ==
  ASSUME NEW list, NEW next, NEW nodes, ListFits(list, next, nodes),
         NEW other, DOMAIN other = DOMAIN nodes,
         \A x \in DOMAIN nodes : other[x].index = nodes[x].index
  PROVE  ListFits(list, next, other)
<1>1. \A i \in 1 .. Len(list) : list[i] \in DOMAIN nodes
  BY DEF ListFits
<1> QED
  BY <1>1 DEF ListFits

LEMMA SameObjectsFit ==
  ASSUME NEW n, NEW m, SameObjects(m, n), ListsFit(n), IntervalsFit(n)
  PROVE  ListsFit(m) /\ IntervalsFit(m)
<1>1. ListFits(n.placeList, n.nextPlace, m.place)
  BY SameListFits DEF SameObjects, ListsFit
<1>2. ListFits(n.transitionList, n.nextTransition, m.transition)
  <2>1. /\ DOMAIN m.transition = DOMAIN n.transition
        /\ \A t \in DOMAIN n.transition : m.transition[t].index = n.transition[t].index
        /\ ListFits(n.transitionList, n.nextTransition, n.transition)
    BY DEF SameObjects, ListsFit
  <2> QED
    BY <2>1, SameListFits
<1> QED
  BY <1>1, <1>2 DEF SameObjects, ListsFit, IntervalsFit

LEMMA NewNetFits == IsSound(NewNet) /\ ListsFit(NewNet) /\ IntervalsFit(NewNet)
<1>1. /\ NewNet.placeList = <<>> /\ NewNet.transitionList = <<>>
      /\ NewNet.nextPlace = 0 /\ NewNet.nextTransition = 0
      /\ NewNet.place = <<>> /\ NewNet.transition = <<>> /\ NewNet.arc = <<>>
      /\ NewNet.consuming = {} /\ NewNet.producing = {}
  BY DEF NewNet, EmptyFunction
<1>2. HasFields(NewNet, NetFields)
  BY DEF NewNet, HasFields, IsFunction, NetFields
<1>3. DOMAIN <<>> = {} /\ IsFunction(<<>>) /\ <<>> \in Seq({}) /\ Len(<<>>) = 0
  BY DEF IsFunction
<1> HIDE DEF NewNet
<1>4. IsNet(NewNet)
  BY <1>1, <1>2, <1>3 DEF IsNet, AreNodes
<1>5. ArcsFit(NewNet)
  <2>1. IsFiniteSet(DOMAIN NewNet.arc)
    BY <1>1, <1>3, FS_EmptySet
  <2> QED
    BY <1>1, <1>3, <2>1 DEF ArcsFit
<1>6. ListsFit(NewNet) /\ IntervalsFit(NewNet)
  BY <1>1, <1>3 DEF ListsFit, ListFits, IntervalsFit
<1> QED
  BY <1>4, <1>5, <1>6 DEF IsSound
-----------------------------------------------------------------------------
(***************************************************************************)
(* The inductive invariant.  The net is sound in every phase; its lists,   *)
(* intervals and markings fit until somebody edits it, for which the       *)
(* parser's order of sections is needed: there are no markings before all  *)
(* places are there.                                                       *)
(***************************************************************************)
Unedited == {"start", "text", "loaded", "closing", "closed"}

MarkingsFit(n) == \A m \in n.finals \cup ({n.initial} \ {EmptyFunction}) : DOMAIN m = Positions(n)

ParserInv ==
  phase \in {"start", "text"} =>
    /\ section \in DOMAIN Rank
    /\ Rank[section] < Rank["marking"] => net.initial = EmptyFunction /\ net.finals = {}
    /\ current \subseteq DOMAIN net.transition

IInv ==
  /\ IsSound(net)
  /\ phase \in Unedited => ListsFit(net) /\ IntervalsFit(net) /\ MarkingsFit(net)
                           /\ DOMAIN net.place \subseteq PlaceNames
  /\ ParserInv
  /\ visited \in Nat
  /\ phase \in {"start", "text", "loaded"} => visited = 0
  /\ phase = "closing" => visited <= Len(net.placeList)

LEMMA InitIInv == LoadInit => IInv
<1> SUFFICES ASSUME LoadInit PROVE IInv
  OBVIOUS
<1>1. net = NewNet /\ phase = "start" /\ section = "begin" /\ current = {} /\ visited = 0
  BY DEF LoadInit, Init
<1>2. NewNet.initial = EmptyFunction /\ NewNet.finals = {} /\ DOMAIN NewNet.place = {}
  BY DEF NewNet, EmptyFunction
<1>3. ParserInv
  BY <1>1, <1>2 DEF ParserInv, Rank
<1>4. MarkingsFit(NewNet)
  BY <1>2 DEF MarkingsFit
<1>5. DOMAIN NewNet.place \subseteq PlaceNames
  BY <1>2
<1> QED
  BY <1>1, <1>3, <1>4, <1>5, NewNetFits DEF IInv

\* A marking fits as long as the net has as many places as it had.
LEMMA MarkingsStayFit ==
  ASSUME NEW n, NEW m, MarkingsFit(n), m.placeList = n.placeList,
         m.initial = n.initial, m.finals = n.finals
  PROVE  MarkingsFit(m)
BY DEF MarkingsFit, Positions

LEMMA ReadTextIInv == IInv /\ ReadText => IInv'
<1> SUFFICES ASSUME IInv, ReadText PROVE IInv'
  OBVIOUS
<1>1. visited' = visited /\ visited \in Nat /\ Parse
  BY DEF ReadText, IInv
<1>2. phase \in {"start", "text"} =>
        /\ IsSound(net) /\ ListsFit(net) /\ IntervalsFit(net) /\ MarkingsFit(net)
        /\ DOMAIN net.place \subseteq PlaceNames /\ ParserInv
  BY DEF IInv, Unedited
<1>3. CASE EmptyText \/ TimeNet \/ EndOfText
  BY <1>1, <1>3 DEF IInv, Unedited, ParserInv, EmptyText, TimeNet, EndOfText
<1>4. CASE phase' = "refused" /\ net' = net
  BY <1>1, <1>4 DEF IInv, Unedited, ParserInv
<1>5. CASE Malformed
  BY <1>4, <1>5 DEF Malformed, Refuse
<1>6. ASSUME phase = "text", phase' = "text", IsSound(net'), ListsFit(net'), IntervalsFit(net'),
             MarkingsFit(net'), DOMAIN net'.place \subseteq PlaceNames, section' \in DOMAIN Rank,
             Rank[section'] < Rank["marking"] => net'.initial = EmptyFunction /\ net'.finals = {},
             current' \subseteq DOMAIN net'.transition
      PROVE  IInv'
  BY <1>1, <1>6 DEF IInv, Unedited, ParserInv
\* The section only moves on.
<1>7. ASSUME NEW s \in DOMAIN Rank, In(s)
      PROVE  /\ phase = "text" /\ section' = s
             /\ Rank[s] < Rank["marking"] => net.initial = EmptyFunction /\ net.finals = {}
  BY <1>2, <1>7 DEF In, ParserInv, Rank
<1>8. ASSUME NEW p \in PlaceNames, NEW bound \in Bounds, ParsePlace(p, bound) PROVE IInv'
  <2>1. CASE HasPlace(net, p)
    BY <1>4, <1>8, <2>1 DEF ParsePlace, Refuse
  <2>2. CASE ~ HasPlace(net, p)
    <3>1. /\ phase = "text" /\ phase' = "text" /\ section' = "place" /\ current' = current
          /\ net' = CreatePlace(net, p, bound)
          /\ net.initial = EmptyFunction /\ net.finals = {}
      BY <1>7, <1>8, <2>2 DEF ParsePlace, Accept, Rank
    <3>2. IsSound(net') /\ PlaceAdded(net', net, p)
      BY <1>2, <2>2, <3>1, CreatePlaceSound, CreatePlaceAdds
    <3>3. ListsFit(net')
      BY <1>2, <2>2, <3>1, <3>2, PlaceAddedFits
    <3>4. IntervalsFit(net')
      BY <1>2, <3>1, <3>2 DEF PlaceAdded, IntervalsFit
    <3>5. MarkingsFit(net') /\ net'.initial = EmptyFunction /\ net'.finals = {}
      BY <3>1, <3>2 DEF PlaceAdded, MarkingsFit
    <3>6. DOMAIN net'.place \subseteq PlaceNames
      BY <1>2, <3>1, <3>2 DEF PlaceAdded
    <3>7. current' \subseteq DOMAIN net'.transition
      BY <1>2, <3>1, <3>2 DEF PlaceAdded, ParserInv
    <3>8. section' \in DOMAIN Rank
      BY <3>1 DEF Rank
    <3> QED
      BY <1>6, <3>1, <3>2, <3>3, <3>4, <3>5, <3>6, <3>7, <3>8
  <2> QED
    BY <2>1, <2>2
\* Whatever leaves the places and the transitions as they are.
<1>9. ASSUME phase = "text", phase' = "text", IsSound(net'), SameObjects(net', net),
             MarkingsFit(net'), section' \in DOMAIN Rank, current' \subseteq current,
             Rank[section'] < Rank["marking"] => net'.initial = EmptyFunction /\ net'.finals = {}
      PROVE  IInv'
  <2>1. ListsFit(net') /\ IntervalsFit(net')
    BY <1>2, <1>9, SameObjectsFit
  <2>2. DOMAIN net'.place \subseteq PlaceNames /\ current' \subseteq DOMAIN net'.transition
    BY <1>2, <1>9 DEF SameObjects, ParserInv
  <2> QED
    BY <1>6, <1>9, <2>1, <2>2
<1>10. ASSUME NEW p \in PlaceNames, ParseInputPlace(p) PROVE IInv'
  <2>1. CASE ~ HasPlace(net, p)
    BY <1>4, <1>10, <2>1 DEF ParseInputPlace, Refuse
  <2>2. CASE HasPlace(net, p)
    <3>1. /\ phase = "text" /\ phase' = "text" /\ section' = "input" /\ current' = current
          /\ net' = [net EXCEPT !.place = Updated(@, p, "input", TRUE)]
          /\ net.initial = EmptyFunction /\ net.finals = {}
      BY <1>7, <1>10, <2>2 DEF ParseInputPlace, Accept, Rank, Updated
    <3>2. IsSound(net') /\ SameGraph(net', net) /\ net'.initial = net.initial /\ net'.finals = net.finals
      BY <1>2, <2>2, <3>1, PlaceFieldSet DEF HasPlace
    <3>3. MarkingsFit(net')
      BY <3>1, <3>2 DEF MarkingsFit
    <3> QED
      BY <1>9, <3>1, <3>2, <3>3 DEF SameGraph, Rank
  <2> QED
    BY <2>1, <2>2
<1>11. ASSUME NEW p \in PlaceNames, ParseOutputPlace(p) PROVE IInv'
  <2>1. CASE ~ HasPlace(net, p)
    BY <1>4, <1>11, <2>1 DEF ParseOutputPlace, Refuse
  <2>2. CASE HasPlace(net, p)
    <3>1. /\ phase = "text" /\ phase' = "text" /\ section' = "output" /\ current' = current
          /\ net' = [net EXCEPT !.place = Updated(@, p, "output", TRUE)]
          /\ net.initial = EmptyFunction /\ net.finals = {}
      BY <1>7, <1>11, <2>2 DEF ParseOutputPlace, Accept, Rank, Updated
    <3>2. IsSound(net') /\ SameGraph(net', net) /\ net'.initial = net.initial /\ net'.finals = net.finals
      BY <1>2, <2>2, <3>1, PlaceFieldSet DEF HasPlace
    <3>3. MarkingsFit(net')
      BY <3>1, <3>2 DEF MarkingsFit
    <3> QED
      BY <1>9, <3>1, <3>2, <3>3 DEF SameGraph, Rank
  <2> QED
    BY <2>1, <2>2
<1>12. ASSUME NEW p \in PlaceNames, ParseIncomingArc(p) PROVE IInv'
  <2>1. PICK t \in current : IF HasPlace(net, p) THEN Accept(ConnectToTransition(net, p, t)) ELSE Refuse
    BY <1>12 DEF ParseIncomingArc
  <2>2. phase = "text" /\ section' = "consume" /\ current' = current
    BY <1>7, <1>12 DEF ParseIncomingArc, Rank
  <2>3. CASE ~ HasPlace(net, p)
    BY <1>4, <2>1, <2>3 DEF Refuse
  <2>4. CASE HasPlace(net, p)
    <3>1. phase' = "text" /\ net' = ConnectToTransition(net, p, t)
      BY <2>1, <2>2, <2>4 DEF Accept
    <3>2. HasTransition(net, t)
      BY <1>2, <2>2 DEF ParserInv, HasTransition
    <3>3. IsSound(net') /\ SameNodes(net', net)
      BY <1>2, <2>2, <2>4, <3>1, <3>2, ConnectToTransitionSound
    <3>4. MarkingsFit(net')
      BY <1>2, <2>2, <3>3, MarkingsStayFit DEF SameNodes, SameObjects
    <3> QED
      BY <1>9, <2>2, <3>1, <3>3, <3>4 DEF SameNodes, Rank
  <2> QED
    BY <2>3, <2>4
<1>13. ASSUME NEW p \in PlaceNames, ParseOutgoingArc(p) PROVE IInv'
  <2>1. PICK t \in current : IF HasPlace(net, p) THEN Accept(ConnectToPlace(net, t, p)) ELSE Refuse
    BY <1>13 DEF ParseOutgoingArc
  <2>2. phase = "text" /\ section' = "produce" /\ current' = current
    BY <1>7, <1>13 DEF ParseOutgoingArc, Rank
  <2>3. CASE ~ HasPlace(net, p)
    BY <1>4, <2>1, <2>3 DEF Refuse
  <2>4. CASE HasPlace(net, p)
    <3>1. phase' = "text" /\ net' = ConnectToPlace(net, t, p)
      BY <2>1, <2>2, <2>4 DEF Accept
    <3>2. HasTransition(net, t)
      BY <1>2, <2>2 DEF ParserInv, HasTransition
    <3>3. IsSound(net') /\ SameNodes(net', net)
      BY <1>2, <2>2, <2>4, <3>1, <3>2, ConnectToPlaceSound
    <3>4. MarkingsFit(net')
      BY <1>2, <2>2, <3>3, MarkingsStayFit DEF SameNodes, SameObjects
    <3> QED
      BY <1>9, <2>2, <3>1, <3>3, <3>4 DEF SameNodes, Rank
  <2> QED
    BY <2>3, <2>4
<1>14. ASSUME NEW t \in TransitionNames, NEW interval \in Intervals, ParseTransition(t, interval)
       PROVE  IInv'
  <2>1. CASE interval[1] > interval[2] \/ HasTransition(net, t)
    BY <1>4, <1>14, <2>1 DEF ParseTransition, Refuse
  <2>2. CASE ~ (interval[1] > interval[2] \/ HasTransition(net, t))
    <3>1. /\ phase = "text" /\ phase' = "text" /\ section' = "transition" /\ current' = {t}
          /\ net' = CreateTransition(net, t, interval)
      BY <1>14, <2>2 DEF ParseTransition, InTransitions, Accept
    <3>2. interval[1] <= interval[2]
      BY <2>2, NumberAssumption
    <3>3. IsSound(net') /\ TransitionAdded(net', net, t, interval)
      BY <1>2, <2>2, <3>1, CreateTransitionSound, CreateTransitionAdds
    <3>4. ListsFit(net') /\ IntervalsFit(net')
      BY <1>2, <2>2, <3>1, <3>2, <3>3, TransitionAddedFits
    <3>5. MarkingsFit(net')
      BY <1>2, <3>1, <3>3, MarkingsStayFit DEF TransitionAdded
    <3>6. DOMAIN net'.place \subseteq PlaceNames /\ current' \subseteq DOMAIN net'.transition
      BY <1>2, <3>1, <3>3 DEF TransitionAdded
    <3>7. section' \in DOMAIN Rank /\ ~ Rank[section'] < Rank["marking"]
      BY <3>1 DEF Rank
    <3> QED
      BY <1>6, <3>1, <3>3, <3>4, <3>5, <3>6, <3>7
  <2> QED
    BY <2>1, <2>2
<1>15. CASE ParseMarking
  <2>1. PICK m \in MarkingsOver(net, Tokens) : Accept([net EXCEPT !.initial = m])
    BY <1>15 DEF ParseMarking
  <2>2. phase = "text" /\ section' = "marking" /\ current' = current
    BY <1>7, <1>15 DEF ParseMarking, Once, Rank
  <2>3. phase' = "text" /\ net' = [net EXCEPT !.initial = m]
    BY <2>1, <2>2 DEF Accept
  <2>4. IsSound(net') /\ SameGraph(net', net) /\ net'.initial = m /\ net'.finals = net.finals
    BY <1>2, <2>2, <2>3, InitialSet
  <2>5. MarkingsFit(net')
    BY <1>2, <2>2, <2>4 DEF MarkingsFit, MarkingsOver, Positions, SameGraph, SameObjects
  <2>6. section' \in DOMAIN Rank /\ ~ Rank[section'] < Rank["marking"]
    BY <2>2 DEF Rank
  <2> QED
    BY <1>9, <2>2, <2>3, <2>4, <2>5, <2>6 DEF SameGraph
<1>16. CASE ParseFinalMarking
  <2>1. PICK m \in MarkingsOver(net, Tokens) : Accept([net EXCEPT !.finals = @ \cup {m}])
    BY <1>16 DEF ParseFinalMarking
  <2>2. phase = "text" /\ section' = "final" /\ current' = {}
    BY <1>7, <1>16 DEF ParseFinalMarking, Rank
  <2>3. phase' = "text" /\ net' = [net EXCEPT !.finals = net.finals \cup {m}]
    BY <2>1, <2>2 DEF Accept
  <2>4. /\ IsSound(net') /\ SameGraph(net', net)
        /\ net'.initial = net.initial /\ net'.finals = net.finals \cup {m}
    BY <1>2, <2>2, <2>3, FinalsSet
  <2>5. MarkingsFit(net')
    BY <1>2, <2>2, <2>4 DEF MarkingsFit, MarkingsOver, Positions, SameGraph, SameObjects
  <2>6. section' \in DOMAIN Rank /\ ~ Rank[section'] < Rank["marking"]
    BY <2>2 DEF Rank
  <2> QED
    BY <1>9, <2>2, <2>3, <2>4, <2>5, <2>6 DEF SameGraph
<1> QED
  BY <1>1, <1>3, <1>5, <1>8, <1>10, <1>11, <1>12, <1>13, <1>14, <1>15, <1>16 DEF Parse

LEMMA EditNetIInv == IInv /\ EditNet => IInv'
<1> SUFFICES ASSUME IInv, EditNet PROVE IInv'
  OBVIOUS
<1>1. IsSound(net) /\ visited \in Nat
  BY DEF IInv
<1>2. ASSUME NEW n, IsSound(n), Edit(n) PROVE IInv'
  BY <1>1, <1>2 DEF Edit, IInv, Unedited, ParserInv
<1>3. ASSUME NEW p \in DOMAIN net.place, Edit(DeletePlace(net, p)) PROVE IInv'
  BY <1>1, <1>2, <1>3, DeletePlaceSound
<1>4. ASSUME NEW t \in DOMAIN net.transition, Edit(DeleteTransition(net, t)) PROVE IInv'
  BY <1>1, <1>2, <1>4, DeleteTransitionSound
<1>5. ASSUME NEW a \in DOMAIN net.arc, Edit(Disconnect(net, a)) PROVE IInv'
  BY <1>1, <1>2, <1>5, DisconnectSound
<1> QED
  BY <1>3, <1>4, <1>5 DEF EditNet

\* What a place gets for a partner: one transition, and one arc between the two.
LEMMA PartnerSound ==
  ASSUME NEW n, IsSound(n), NEW p, HasPlace(n, p), ~ HasTransition(n, PartnerName[p])
  PROVE  LET t == PartnerName[p]
             m == Partner(n, p)
         IN  /\ IsSound(m)
             /\ \E k : /\ IsSound(k) /\ TransitionAdded(k, n, t, <<0, MaxSize>>) /\ SameNodes(m, k)
                       /\ IF n.place[p].input THEN ProducingAdded(m, k, t, p)
                                              ELSE ConsumingAdded(m, k, p, t)
<1> DEFINE t == PartnerName[p]
           k == CreateTransition(n, t, <<0, MaxSize>>)
           m == Partner(n, p)
<1>1. IsSound(k) /\ TransitionAdded(k, n, t, <<0, MaxSize>>)
  BY CreateTransitionSound, CreateTransitionAdds
<1>2. m = IF n.place[p].input THEN ConnectToPlace(k, t, p) ELSE ConnectToTransition(k, p, t)
  BY DEF Partner
<1> HIDE DEF k, m
<1>3. HasPlace(k, p) /\ HasTransition(k, t)
  BY <1>1 DEF TransitionAdded, HasPlace, HasTransition
<1>4. IsSound(m) /\ SameNodes(m, k) /\ IF n.place[p].input THEN ProducingAdded(m, k, t, p)
                                                           ELSE ConsumingAdded(m, k, p, t)
  <2>1. CASE n.place[p].input
    BY <1>1, <1>2, <1>3, <2>1, ConnectToPlaceSound
  <2>2. CASE ~ n.place[p].input
    BY <1>1, <1>2, <1>3, <2>2, ConnectToTransitionSound
  <2> QED
    BY <2>1, <2>2
<1> QED
  BY <1>1, <1>4 DEF m

LEMMA VisitPlaceIInv == IInv /\ VisitPlace => IInv'
<1> SUFFICES ASSUME IInv, VisitPlace PROVE IInv'
  OBVIOUS
<1> DEFINE p == AtPlace
<1>1. /\ phase = "closing" /\ visited < Len(net.placeList) /\ visited \in Nat
      /\ visited' = visited + 1 /\ section' = section /\ current' = current
  BY DEF VisitPlace, IInv
<1>2. /\ IsSound(net) /\ ListsFit(net) /\ IntervalsFit(net) /\ MarkingsFit(net)
      /\ DOMAIN net.place \subseteq PlaceNames
  BY <1>1 DEF IInv, Unedited
<1>3. p \in DOMAIN net.place /\ net.placeList \in Seq(DOMAIN net.place)
  <2>1. net.placeList \in Seq(DOMAIN net.place) /\ visited + 1 \in 1 .. Len(net.placeList)
    BY <1>1, <1>2 DEF ListsFit, ListFits
  <2> QED
    BY <2>1 DEF AtPlace
<1> HIDE DEF p
<1>4. CASE net' = net /\ phase' \in {"closing", "asserted", "clash"}
  BY <1>1, <1>2, <1>3, <1>4 DEF IInv, Unedited, ParserInv
<1>5. CASE ~ HasTransition(net, PartnerName[p]) /\ Accept(Partner(net, p))
  <2>1. net' = Partner(net, p) /\ phase' = "closing"
    BY <1>1, <1>5 DEF Accept
  <2>2. IsSound(net')
    BY <1>2, <1>3, <1>5, <2>1, PartnerSound DEF HasPlace
  <2>3. PICK k : TransitionAdded(k, net, PartnerName[p], <<0, MaxSize>>) /\ SameNodes(net', k)
    BY <1>2, <1>3, <1>5, <2>1, PartnerSound DEF HasPlace
  <2>4. ListsFit(k) /\ IntervalsFit(k)
    <3>1. <<0, MaxSize>>[1] <= <<0, MaxSize>>[2]
      BY NumberAssumption
    <3> QED
      BY <1>2, <1>5, <2>3, <3>1, TransitionAddedFits
  <2>5. ListsFit(net') /\ IntervalsFit(net')
    BY <2>3, <2>4, SameObjectsFit DEF SameNodes
  <2>6. net'.placeList = net.placeList /\ net'.initial = net.initial /\ net'.finals = net.finals
        /\ DOMAIN net'.place = DOMAIN net.place
    BY <2>3 DEF TransitionAdded, SameNodes, SameObjects
  <2>7. MarkingsFit(net')
    BY <1>2, <2>6, MarkingsStayFit
  <2>8. visited' \in Nat /\ visited' <= Len(net'.placeList)
    BY <1>1, <1>3, <2>6
  <2> QED
    BY <1>2, <2>1, <2>2, <2>5, <2>6, <2>7, <2>8 DEF IInv, Unedited, ParserInv
<1> QED
  BY <1>1, <1>4, <1>5 DEF VisitPlace, Accept, p

LEMMA NextIInv == IInv /\ [Next]_vars => IInv'
<1> SUFFICES ASSUME IInv, [Next]_vars PROVE IInv'
  OBVIOUS
<1>1. CASE ReadText
  BY <1>1, ReadTextIInv
<1>2. CASE StartMaximal
  <2>1. phase = "loaded" /\ phase' = "closing" /\ net' = net /\ visited' = visited
    BY <1>2 DEF StartMaximal
  <2>2. Len(net.placeList) \in Nat
    BY <2>1 DEF IInv, Unedited, ListsFit, ListFits
  <2> QED
    BY <2>1, <2>2 DEF IInv, Unedited, ParserInv
<1>3. CASE VisitPlace
  BY <1>3, VisitPlaceIInv
<1>4. CASE SetTransitionLabels
  <2>1. /\ phase = "closing" /\ phase' = "closed" /\ visited' = visited
        /\ net' = [net EXCEPT !.transition = [t \in DOMAIN @ |-> [@[t] EXCEPT !.label = Labelled(net, t)]]]
    BY <1>4 DEF SetTransitionLabels
  <2>2. /\ IsSound(net') /\ SameGraph(net', net)
        /\ net'.initial = net.initial /\ net'.finals = net.finals
    BY <2>1, LabelsSet DEF IInv
  <2>3. SameObjects(net', net)
    BY <2>2 DEF SameGraph
  <2>4. ListsFit(net') /\ IntervalsFit(net')
    BY <2>1, <2>3, SameObjectsFit DEF IInv, Unedited
  <2>5. MarkingsFit(net')
    BY <2>1, <2>2, <2>3, MarkingsStayFit DEF IInv, Unedited, SameObjects
  <2>6. DOMAIN net'.place \subseteq PlaceNames
    BY <2>1, <2>3 DEF IInv, Unedited, SameObjects
  <2> QED
    BY <2>1, <2>2, <2>4, <2>5, <2>6 DEF IInv, Unedited, ParserInv
<1>5. CASE EditNet
  BY <1>5, EditNetIInv
<1>6. CASE UNCHANGED vars
  BY <1>6 DEF vars, IInv, ParserInv
<1> QED
  BY <1>1, <1>2, <1>3, <1>4, <1>5, <1>6 DEF Next

(***************************************************************************)
(* The invariant that the next two rest on: however the net was read,      *)
(* closed and edited, its arcs fit, and before it is edited its lists,     *)
(* intervals and markings do, too.                                         *)
(***************************************************************************)
THEOREM IInvHolds == LoadSpec => []IInv
<1> QED
  BY InitIInv, NextIInv, PTL DEF LoadSpec

(***************************************************************************)
(* The three holders of an arc agree in every state (Net::connect,         *)
(* disconnect, deletePlace, deleteTransition): no deletion leaves an arc   *)
(* that leads to a node that is gone, nor a node with an arc that is.      *)
(***************************************************************************)
THEOREM ArcsAlwaysAgree == LoadSpec => []ArcsAgree
<1>1. IInv => ArcsAgree
  BY DEF IInv, IsSound, ArcsFit, ArcsAgree
<1> QED
  BY <1>1, IInvHolds, PTL

(***************************************************************************)
(* A net that has been read, and closed by ConstructMaximalNet, is what    *)
(* the module IntervalNet assumes of a net, whatever the text was.         *)
(***************************************************************************)
THEOREM LoadedNetsAreSound == LoadSpec => []LoadedNetIsSound
<1>1. IInv => LoadedNetIsSound
  <2> SUFFICES ASSUME IInv, phase \in {"loaded", "closing", "closed"}
               PROVE  LoadedNetIsSound
    BY DEF LoadedNetIsSound
  <2>1. ListsFit(net) /\ IntervalsFit(net) /\ MarkingsFit(net)
    BY DEF IInv, Unedited
  <2>2. \A t \in DOMAIN net.transition : Earliest(net)[t] <= Latest(net)[t]
    BY <2>1 DEF IntervalsFit, Earliest, Latest
  <2>3. /\ DOMAIN net.placeList = 1 .. Len(net.placeList)
        /\ DOMAIN net.transitionList = 1 .. Len(net.transitionList)
    BY <2>1 DEF ListsFit, ListFits
  <2>4. /\ \A i \in DOMAIN net.placeList : net.place[net.placeList[i]].index = i - 1
        /\ \A i \in DOMAIN net.transitionList : net.transition[net.transitionList[i]].index = i - 1
    BY <2>1, <2>3 DEF ListsFit, ListFits
  <2> QED
    BY <2>1, <2>2, <2>4 DEF LoadedNetIsSound, MarkingsFit
<1> QED
  BY <1>1, IInvHolds, PTL

-----------------------------------------------------------------------------
(***************************************************************************)
(* ConstructMaximalNet.  How many of the arcs S end at a place p, and      *)
(* whether exactly one of them ends at a place of the interface I, are the *)
(* same question: the filter looks at the arcs, its definition at the      *)
(* numbers.                                                                *)
(***************************************************************************)
AtEnd(S, end, p)   == {a \in S : end[a] = p}
Ending(S, end, I)  == {a \in S : end[a] \in I}
EndPlaces(S, end, I) == {p \in I : Cardinality(AtEnd(S, end, p)) > 0}

LEMMA EndPlacesAreEnds ==
  ASSUME NEW S, IsFiniteSet(S), NEW end, NEW I
  PROVE  /\ \A p : IsFiniteSet(AtEnd(S, end, p))
         /\ \A p \in I : p \in EndPlaces(S, end, I) <=> \E a \in S : end[a] = p
<1>1. ASSUME NEW p PROVE IsFiniteSet(AtEnd(S, end, p))
  BY FS_Subset DEF AtEnd
<1>2. ASSUME NEW p \in I PROVE p \in EndPlaces(S, end, I) <=> \E a \in S : end[a] = p
  <2>1. /\ Cardinality(AtEnd(S, end, p)) \in Nat
        /\ Cardinality(AtEnd(S, end, p)) = 0 <=> AtEnd(S, end, p) = {}
    BY <1>1, FS_CardinalityType, FS_EmptySet
  <2>2. AtEnd(S, end, p) = {} <=> ~ \E a \in S : end[a] = p
    BY DEF AtEnd
  <2> QED
    BY <2>1, <2>2 DEF EndPlaces
<1> QED
  BY <1>1, <1>2

LEMMA OneArcCounts ==
  ASSUME NEW S, IsFiniteSet(S), NEW end, NEW I
  PROVE  LET pre == Ending(S, end, I)
             T   == EndPlaces(S, end, I)
         IN  /\ pre = {} <=> T = {}
             /\ Cardinality(pre) = 1
                  <=> Cardinality(T) = 1 /\ \A p \in T : Cardinality(AtEnd(S, end, p)) = 1
             /\ Cardinality(pre) = 1 => end[CHOOSE a \in pre : TRUE] = CHOOSE p \in T : TRUE
<1> DEFINE pre == Ending(S, end, I)
           T   == EndPlaces(S, end, I)
<1>1. \A p : p \in T <=> p \in I /\ \E a \in S : end[a] = p
  BY EndPlacesAreEnds DEF EndPlaces
<1>2. \A a : a \in pre <=> a \in S /\ end[a] \in I
  BY DEF Ending
<1>3. IsFiniteSet(pre)
  BY FS_Subset DEF Ending
<1>4. IsFiniteSet(T)
  <2> DEFINE f == [a \in pre |-> end[a]]
  <2> HIDE DEF pre, T
  <2>1. f \in Surjection(pre, T)
    BY <1>1, <1>2 DEF Surjection
  <2> QED
    BY <1>3, <2>1, FS_Surjection
<1> HIDE DEF pre, T
<1>5. pre = {} <=> T = {}
  BY <1>1, <1>2
<1>6. ASSUME Cardinality(pre) = 1
      PROVE  /\ Cardinality(T) = 1 /\ \A p \in T : Cardinality(AtEnd(S, end, p)) = 1
             /\ end[CHOOSE a \in pre : TRUE] = CHOOSE p \in T : TRUE
  <2>1. PICK a : pre = {a}
    BY <1>3, <1>6, FS_Singleton
  <2>2. T = {end[a]}
    BY <1>1, <1>2, <2>1
  <2>3. AtEnd(S, end, end[a]) = {a}
    BY <1>2, <2>1 DEF AtEnd
  <2> QED
    BY <2>1, <2>2, <2>3, FS_Singleton
<1>7. ASSUME Cardinality(T) = 1, \A p \in T : Cardinality(AtEnd(S, end, p)) = 1
      PROVE  Cardinality(pre) = 1
  <2>1. PICK p : T = {p}
    BY <1>4, <1>7, FS_Singleton
  <2>2. pre = AtEnd(S, end, p)
    BY <1>1, <1>2, <2>1 DEF AtEnd
  <2> QED
    BY <1>7, <2>1, <2>2
<1> QED
  BY <1>5, <1>6, <1>7 DEF pre, T

IsBothOf(n, p) == n.place[p].input /\ n.place[p].output
Interface(n) == InputPlacesOf(n) \cup OutputPlacesOf(n)

\* The partner of a place takes from it or puts on it, with its only arc.
ServesOnly(n, p) ==
  LET t == n.transition[PartnerName[p]]
  IN  IF n.place[p].input
      THEN t.incoming = {} /\ \E a : t.outgoing = {a} /\ n.arc[a].target = p
      ELSE t.outgoing = {} /\ \E a : t.incoming = {a} /\ n.arc[a].source = p

\* The net n is the net o and the partners of the places done.
IsClosedFor(n, o, done) ==
  /\ done \subseteq DOMAIN o.place
  /\ n.placeList = o.placeList /\ DOMAIN n.place = DOMAIN o.place
  /\ \A p \in DOMAIN o.place : n.place[p].input = o.place[p].input /\ n.place[p].output = o.place[p].output
  /\ DOMAIN n.transition = DOMAIN o.transition \cup {PartnerName[p] : p \in done}
  /\ \A p \in done : /\ PartnerName[p] \notin DOMAIN o.transition
                     /\ ~ (o.place[p].input /\ o.place[p].output)
                     /\ n.transition[PartnerName[p]].interval = <<0, MaxSize>>
                     /\ ServesOnly(n, p)
  /\ \A t \in DOMAIN o.transition : /\ n.transition[t].interval = o.transition[t].interval
                                    /\ n.transition[t].incoming = o.transition[t].incoming
                                    /\ n.transition[t].outgoing = o.transition[t].outgoing
  /\ DOMAIN o.arc \subseteq DOMAIN n.arc
  /\ \A a \in DOMAIN o.arc : /\ n.arc[a].source = o.arc[a].source
                             /\ n.arc[a].target = o.arc[a].target

LEMMA ClosedForNone ==
  ASSUME NEW o
  PROVE  IsClosedFor(o, o, {})
BY DEF IsClosedFor

\* The arc that ConnectToPlace and ConnectToTransition add, as the transitions see it.
LEMMA ArcOfTransition ==
  ASSUME NEW k, IsSound(k), NEW m, IsSound(m), SameNodes(m, k), NEW p, NEW t \in DOMAIN k.transition
  PROVE  /\ ConsumingAdded(m, k, p, t) =>
              /\ \E a : /\ m.transition[t].incoming = k.transition[t].incoming \cup {a}
                        /\ m.arc[a].source = p
              /\ m.transition[t].outgoing = k.transition[t].outgoing
              /\ \A s \in DOMAIN k.transition \ {t} :
                   m.transition[s].incoming = k.transition[s].incoming
                   /\ m.transition[s].outgoing = k.transition[s].outgoing
         /\ ProducingAdded(m, k, t, p) =>
              /\ \E a : /\ m.transition[t].outgoing = k.transition[t].outgoing \cup {a}
                        /\ m.arc[a].target = p
              /\ m.transition[t].incoming = k.transition[t].incoming
              /\ \A s \in DOMAIN k.transition \ {t} :
                   m.transition[s].incoming = k.transition[s].incoming
                   /\ m.transition[s].outgoing = k.transition[s].outgoing
<1>1. k.consuming \cup k.producing = DOMAIN k.arc
  BY DEF IsSound, ArcsFit
<1>2. \A s \in DOMAIN k.transition :
        /\ k.transition[s].incoming = {b \in k.consuming : k.arc[b].target = s}
        /\ k.transition[s].outgoing = {b \in k.producing : k.arc[b].source = s}
        /\ m.transition[s].incoming = {b \in m.consuming : m.arc[b].target = s}
        /\ m.transition[s].outgoing = {b \in m.producing : m.arc[b].source = s}
  BY DEF IsSound, ArcsFit, SameNodes, SameObjects
<1>3. ASSUME ConsumingAdded(m, k, p, t)
      PROVE  /\ \E a : /\ m.transition[t].incoming = k.transition[t].incoming \cup {a}
                       /\ m.arc[a].source = p
             /\ m.transition[t].outgoing = k.transition[t].outgoing
             /\ \A s \in DOMAIN k.transition \ {t} :
                  m.transition[s].incoming = k.transition[s].incoming
                  /\ m.transition[s].outgoing = k.transition[s].outgoing
  <2>1. PICK a : /\ ArcAdded(m, k, a, p, t)
                 /\ m.consuming = k.consuming \cup {a} /\ m.producing = k.producing
    BY <1>3 DEF ConsumingAdded
  <2>2. /\ a \notin k.consuming /\ a \notin k.producing
        /\ m.arc[a].source = p /\ m.arc[a].target = t
        /\ \A b \in k.consuming \cup k.producing :
             m.arc[b].source = k.arc[b].source /\ m.arc[b].target = k.arc[b].target
    BY <1>1, <2>1 DEF ArcAdded
  <2>3. \A s \in DOMAIN k.transition :
          /\ m.transition[s].incoming = IF s = t THEN k.transition[s].incoming \cup {a}
                                              ELSE k.transition[s].incoming
          /\ m.transition[s].outgoing = k.transition[s].outgoing
    <3> SUFFICES ASSUME NEW s \in DOMAIN k.transition
                 PROVE  /\ m.transition[s].incoming = IF s = t THEN k.transition[s].incoming \cup {a}
                                                            ELSE k.transition[s].incoming
                        /\ m.transition[s].outgoing = k.transition[s].outgoing
      OBVIOUS
    <3>1. {b \in m.consuming : m.arc[b].target = s}
            = IF s = t THEN {b \in k.consuming : k.arc[b].target = s} \cup {a}
                       ELSE {b \in k.consuming : k.arc[b].target = s}
      BY <2>1, <2>2
    <3>2. {b \in m.producing : m.arc[b].source = s} = {b \in k.producing : k.arc[b].source = s}
      BY <2>1, <2>2
    <3>3. /\ k.transition[s].incoming = {b \in k.consuming : k.arc[b].target = s}
          /\ k.transition[s].outgoing = {b \in k.producing : k.arc[b].source = s}
          /\ m.transition[s].incoming = {b \in m.consuming : m.arc[b].target = s}
          /\ m.transition[s].outgoing = {b \in m.producing : m.arc[b].source = s}
      BY <1>2
    <3> QED
      BY <3>1, <3>2, <3>3
  <2> QED
    BY <2>2, <2>3
<1>4. ASSUME ProducingAdded(m, k, t, p)
      PROVE  /\ \E a : /\ m.transition[t].outgoing = k.transition[t].outgoing \cup {a}
                       /\ m.arc[a].target = p
             /\ m.transition[t].incoming = k.transition[t].incoming
             /\ \A s \in DOMAIN k.transition \ {t} :
                  m.transition[s].incoming = k.transition[s].incoming
                  /\ m.transition[s].outgoing = k.transition[s].outgoing
  <2>1. PICK a : /\ ArcAdded(m, k, a, t, p)
                 /\ m.producing = k.producing \cup {a} /\ m.consuming = k.consuming
    BY <1>4 DEF ProducingAdded
  <2>2. /\ a \notin k.consuming /\ a \notin k.producing
        /\ m.arc[a].source = t /\ m.arc[a].target = p
        /\ \A b \in k.consuming \cup k.producing :
             m.arc[b].source = k.arc[b].source /\ m.arc[b].target = k.arc[b].target
    BY <1>1, <2>1 DEF ArcAdded
  <2>3. \A s \in DOMAIN k.transition :
          /\ m.transition[s].outgoing = IF s = t THEN k.transition[s].outgoing \cup {a}
                                              ELSE k.transition[s].outgoing
          /\ m.transition[s].incoming = k.transition[s].incoming
    <3> SUFFICES ASSUME NEW s \in DOMAIN k.transition
                 PROVE  /\ m.transition[s].outgoing = IF s = t THEN k.transition[s].outgoing \cup {a}
                                                            ELSE k.transition[s].outgoing
                        /\ m.transition[s].incoming = k.transition[s].incoming
      OBVIOUS
    <3>1. {b \in m.producing : m.arc[b].source = s}
            = IF s = t THEN {b \in k.producing : k.arc[b].source = s} \cup {a}
                       ELSE {b \in k.producing : k.arc[b].source = s}
      BY <2>1, <2>2
    <3>2. {b \in m.consuming : m.arc[b].target = s} = {b \in k.consuming : k.arc[b].target = s}
      BY <2>1, <2>2
    <3>3. /\ k.transition[s].incoming = {b \in k.consuming : k.arc[b].target = s}
          /\ k.transition[s].outgoing = {b \in k.producing : k.arc[b].source = s}
          /\ m.transition[s].incoming = {b \in m.consuming : m.arc[b].target = s}
          /\ m.transition[s].outgoing = {b \in m.producing : m.arc[b].source = s}
      BY <1>2
    <3> QED
      BY <3>1, <3>2, <3>3
  <2> QED
    BY <2>2, <2>3
<1> QED
  BY <1>3, <1>4

LEMMA PartnerCloses ==
  ASSUME NEW o, NEW n, IsSound(n), NEW done, IsClosedFor(n, o, done),
         NEW p, HasPlace(n, p), ~ IsBothOf(n, p), ~ HasTransition(n, PartnerName[p])
  PROVE  IsClosedFor(Partner(n, p), o, done \cup {p})
<1> DEFINE t == PartnerName[p]
           m == Partner(n, p)
<1>1. PICK k : /\ IsSound(k) /\ TransitionAdded(k, n, t, <<0, MaxSize>>) /\ SameNodes(m, k)
               /\ IF n.place[p].input THEN ProducingAdded(m, k, t, p) ELSE ConsumingAdded(m, k, p, t)
  BY PartnerSound
<1>2. IsSound(m)
  BY PartnerSound
<1> HIDE DEF m
<1>3. /\ t \in DOMAIN k.transition /\ t \notin DOMAIN n.transition
      /\ \A s \in DOMAIN n.transition : s \in DOMAIN k.transition \ {t} /\ k.transition[s] = n.transition[s]
      /\ k.transition[t].incoming = {} /\ k.transition[t].outgoing = {}
  BY <1>1 DEF TransitionAdded, HasTransition
<1>4. /\ m.placeList = n.placeList /\ DOMAIN m.place = DOMAIN n.place
      /\ \A q \in DOMAIN n.place : m.place[q].input = n.place[q].input /\ m.place[q].output = n.place[q].output
      /\ DOMAIN m.transition = DOMAIN n.transition \cup {t}
      /\ m.transition[t].interval = <<0, MaxSize>>
      /\ \A s \in DOMAIN n.transition : m.transition[s].interval = n.transition[s].interval
  BY <1>1, <1>3 DEF TransitionAdded, SameNodes, SameObjects
<1>5. /\ \A s \in DOMAIN n.transition : /\ m.transition[s].incoming = n.transition[s].incoming
                                        /\ m.transition[s].outgoing = n.transition[s].outgoing
      /\ IF n.place[p].input
         THEN m.transition[t].incoming = {} /\ \E a : m.transition[t].outgoing = {a} /\ m.arc[a].target = p
         ELSE m.transition[t].outgoing = {} /\ \E a : m.transition[t].incoming = {a} /\ m.arc[a].source = p
  <2>1. CASE n.place[p].input
    BY <1>1, <1>2, <1>3, <2>1, ArcOfTransition
  <2>2. CASE ~ n.place[p].input
    BY <1>1, <1>2, <1>3, <2>2, ArcOfTransition
  <2> QED
    BY <2>1, <2>2
<1>6. /\ DOMAIN n.arc \subseteq DOMAIN m.arc
      /\ \A a \in DOMAIN n.arc : m.arc[a].source = n.arc[a].source /\ m.arc[a].target = n.arc[a].target
  <2>1. k.arc = n.arc
    BY <1>1 DEF TransitionAdded
  <2> QED
    BY <1>1, <2>1 DEF ProducingAdded, ConsumingAdded, ArcAdded
<1>7. ServesOnly(m, p)
  BY <1>4, <1>5 DEF ServesOnly, HasPlace
<1>8. ASSUME NEW q \in done
      PROVE  /\ PartnerName[q] \in DOMAIN n.transition
             /\ ServesOnly(m, q)
  <2> DEFINE s == PartnerName[q]
  <2>1. /\ s \in DOMAIN n.transition /\ ServesOnly(n, q)
        /\ q \in DOMAIN n.place /\ m.place[q].input = n.place[q].input
    BY <1>4, <1>8 DEF IsClosedFor
  <2>2. /\ m.transition[s].incoming = n.transition[s].incoming
        /\ m.transition[s].outgoing = n.transition[s].outgoing
    BY <1>5, <2>1
  <2>3. \A a \in n.transition[s].incoming \cup n.transition[s].outgoing :
          m.arc[a].source = n.arc[a].source /\ m.arc[a].target = n.arc[a].target
    <3>1. n.transition[s].incoming \cup n.transition[s].outgoing \subseteq DOMAIN n.arc
      BY <2>1 DEF IsSound, ArcsFit
    <3> QED
      BY <1>6, <3>1
  <2> QED
    BY <2>1, <2>2, <2>3 DEF ServesOnly
<1>9. \A q \in done \cup {p} : /\ PartnerName[q] \notin DOMAIN o.transition
                               /\ ~ (o.place[q].input /\ o.place[q].output)
                               /\ m.transition[PartnerName[q]].interval = <<0, MaxSize>>
                               /\ ServesOnly(m, q)
  <2>1. ASSUME NEW q \in done
        PROVE  /\ PartnerName[q] \notin DOMAIN o.transition
               /\ ~ (o.place[q].input /\ o.place[q].output)
               /\ m.transition[PartnerName[q]].interval = <<0, MaxSize>>
    BY <1>4, <1>8, <2>1 DEF IsClosedFor
  <2>2. PartnerName[p] \notin DOMAIN o.transition /\ ~ (o.place[p].input /\ o.place[p].output)
    BY <1>3 DEF IsClosedFor, IsBothOf, HasPlace
  <2> QED
    BY <1>4, <1>7, <1>8, <2>1, <2>2
<1>10. \A s \in DOMAIN o.transition : /\ m.transition[s].interval = o.transition[s].interval
                                      /\ m.transition[s].incoming = o.transition[s].incoming
                                      /\ m.transition[s].outgoing = o.transition[s].outgoing
  BY <1>4, <1>5 DEF IsClosedFor
<1>11. /\ DOMAIN o.arc \subseteq DOMAIN m.arc
       /\ \A a \in DOMAIN o.arc : m.arc[a].source = o.arc[a].source /\ m.arc[a].target = o.arc[a].target
  BY <1>6 DEF IsClosedFor
<1>12. /\ done \cup {p} \subseteq DOMAIN o.place
       /\ m.placeList = o.placeList /\ DOMAIN m.place = DOMAIN o.place
       /\ \A q \in DOMAIN o.place : m.place[q].input = o.place[q].input /\ m.place[q].output = o.place[q].output
       /\ DOMAIN m.transition = DOMAIN o.transition \cup {PartnerName[q] : q \in done \cup {p}}
  BY <1>4 DEF IsClosedFor, HasPlace
<1> QED
  BY <1>9, <1>10, <1>11, <1>12 DEF IsClosedFor, m

\* Labels say nothing of it.
LEMMA SameGraphCloses ==
  ASSUME NEW o, NEW n, NEW done, IsClosedFor(n, o, done), NEW m, SameGraph(m, n), m.place = n.place
  PROVE  IsClosedFor(m, o, done)
BY DEF IsClosedFor, SameGraph, SameObjects, ServesOnly

\* The interface places among the first k.
Done(k) == {opened.placeList[i] : i \in 1 .. k} \cap Interface(opened)

ClosingInv ==
  /\ phase \in {"closing", "closed", "clash", "asserted"} =>
       IsSound(opened) /\ ListsFit(opened) /\ DOMAIN opened.place \subseteq PlaceNames
  /\ phase = "closing" => IsClosedFor(net, opened, Done(visited))
  /\ phase = "closed" => /\ IsClosedFor(net, opened, Interface(opened))
                         /\ \A t \in DOMAIN net.transition : net.transition[t].label = Labelled(net, t)
  /\ phase \in {"clash", "asserted"} =>
       /\ visited - 1 \in Nat /\ visited \in 1 .. Len(opened.placeList)
       /\ IsClosedFor(net, opened, Done(visited - 1))
  /\ phase = "asserted" => IsBothOf(opened, opened.placeList[visited])
  /\ phase = "clash" => /\ opened.placeList[visited] \in Interface(opened)
                        /\ HasTransition(net, PartnerName[opened.placeList[visited]])

\* One place more.
LEMMA DoneGrows ==
  ASSUME NEW k \in Nat
  PROVE  Done(k + 1) = Done(k) \cup ({opened.placeList[k + 1]} \cap Interface(opened))
<1>1. 1 .. k + 1 = (1 .. k) \cup {k + 1}
  OBVIOUS
<1> QED
  BY <1>1 DEF Done

LEMMA AllDone ==
  ASSUME ListsFit(opened)
  PROVE  Done(Len(opened.placeList)) = Interface(opened)
<1>1. \A p \in DOMAIN opened.place : \E i \in 1 .. Len(opened.placeList) : opened.placeList[i] = p
  BY DEF ListsFit, ListFits
<1>2. Interface(opened) \subseteq DOMAIN opened.place
  BY DEF Interface, InputPlacesOf, OutputPlacesOf
<1> QED
  BY <1>1, <1>2 DEF Done

LEMMA VisitPlaceClosing == IInv /\ ClosingInv /\ VisitPlace => ClosingInv'
<1> SUFFICES ASSUME IInv, ClosingInv, VisitPlace PROVE ClosingInv'
  OBVIOUS
<1> DEFINE p == AtPlace
<1>1. /\ phase = "closing" /\ visited \in Nat /\ visited' = visited + 1 /\ opened' = opened
      /\ visited < Len(net.placeList)
      /\ IsSound(net) /\ ListsFit(net) /\ IsSound(opened) /\ ListsFit(opened)
      /\ DOMAIN opened.place \subseteq PlaceNames
      /\ IsClosedFor(net, opened, Done(visited))
  BY DEF VisitPlace, IInv, ClosingInv, Unedited
<1>2. /\ p = opened.placeList[visited + 1] /\ visited + 1 \in 1 .. Len(opened.placeList)
      /\ net.placeList = opened.placeList
  <2>1. net.placeList = opened.placeList
    BY <1>1 DEF IsClosedFor
  <2>2. Len(opened.placeList) \in Nat
    BY <1>1 DEF ListsFit, ListFits
  <2> QED
    BY <1>1, <2>1, <2>2 DEF AtPlace
<1>3. p \in DOMAIN opened.place
  <2>1. opened.placeList \in Seq(DOMAIN opened.place)
    BY <1>1 DEF ListsFit, ListFits
  <2> QED
    BY <1>2, <2>1
<1>4. /\ p \in DOMAIN net.place
      /\ p \in InputPlacesOf(net) \cup OutputPlacesOf(net) <=> p \in Interface(opened)
      /\ IsBoth(p) <=> IsBothOf(opened, p)
      /\ IsBoth(p) <=> IsBothOf(net, p)
  BY <1>1, <1>3 DEF IsClosedFor, Interface, InputPlacesOf, OutputPlacesOf, IsBoth, IsBothOf
<1> HIDE DEF p
<1>5. visited' - 1 = visited /\ opened.placeList[visited'] = p /\ visited' \in 1 .. Len(opened.placeList)
  BY <1>1, <1>2
<1>6. CASE IsBoth(p) /\ phase' = "asserted" /\ net' = net
  BY <1>1, <1>4, <1>5, <1>6 DEF ClosingInv, Done
<1>7. CASE p \in Interface(opened) /\ HasTransition(net, PartnerName[p])
           /\ phase' = "clash" /\ net' = net
  BY <1>1, <1>5, <1>7 DEF ClosingInv, Done
<1>8. Done(visited + 1) = Done(visited) \cup ({p} \cap Interface(opened))
  BY <1>1, <1>2, DoneGrows
<1>9. CASE p \notin Interface(opened) /\ phase' = phase /\ net' = net
  <2>1. Done(visited + 1) = Done(visited)
    BY <1>8, <1>9
  <2>2. IsClosedFor(net', opened', Done(visited)')
    BY <1>1, <1>9, <2>1 DEF Done
  <2> QED
    BY <1>1, <1>9, <2>2 DEF ClosingInv
<1>10. CASE /\ p \in Interface(opened) /\ ~ IsBoth(p) /\ ~ HasTransition(net, PartnerName[p])
            /\ Accept(Partner(net, p))
  <2>1. Done(visited + 1) = Done(visited) \cup {p}
    BY <1>8, <1>10
  <2>2. IsClosedFor(Partner(net, p), opened, Done(visited) \cup {p})
    BY <1>1, <1>4, <1>10, PartnerCloses DEF HasPlace
  <2>3. net' = Partner(net, p) /\ phase' = "closing"
    BY <1>1, <1>10 DEF Accept
  <2>4. IsClosedFor(net', opened', Done(visited)')
    BY <1>1, <2>1, <2>2, <2>3 DEF Done
  <2> QED
    BY <1>1, <2>3, <2>4 DEF ClosingInv
<1> QED
  BY <1>4, <1>6, <1>7, <1>9, <1>10 DEF VisitPlace, p

LEMMA LabelsClosing == IInv /\ ClosingInv /\ SetTransitionLabels => ClosingInv'
<1> SUFFICES ASSUME IInv, ClosingInv, SetTransitionLabels PROVE ClosingInv'
  OBVIOUS
<1>1. /\ phase = "closing" /\ phase' = "closed" /\ visited' = visited /\ opened' = opened
      /\ visited = Len(net.placeList)
      /\ net' = [net EXCEPT !.transition = [t \in DOMAIN @ |-> [@[t] EXCEPT !.label = Labelled(net, t)]]]
  BY DEF SetTransitionLabels
<1>2. /\ IsSound(net) /\ IsSound(opened) /\ ListsFit(opened) /\ DOMAIN opened.place \subseteq PlaceNames
      /\ IsClosedFor(net, opened, Done(visited))
  BY <1>1 DEF IInv, ClosingInv
<1>3. Done(visited) = Interface(opened)
  <2>1. net.placeList = opened.placeList
    BY <1>2 DEF IsClosedFor
  <2> QED
    BY <1>1, <1>2, <2>1, AllDone
<1>4. /\ SameGraph(net', net) /\ net'.place = net.place
      /\ \A t \in DOMAIN net.transition : net'.transition[t].label = Labelled(net, t)
  BY <1>1, <1>2, LabelsSet
<1>5. IsClosedFor(net', opened, Interface(opened))
  BY <1>2, <1>3, <1>4, SameGraphCloses
<1>6. \A t \in DOMAIN net.transition : Labelled(net', t) = Labelled(net, t)
  <2>1. /\ InputPlacesOf(net') = InputPlacesOf(net) /\ OutputPlacesOf(net') = OutputPlacesOf(net)
        /\ net'.arc = net.arc
    BY <1>4 DEF InputPlacesOf, OutputPlacesOf, SameGraph
  <2>2. ASSUME NEW t \in DOMAIN net.transition
        PROVE  PresetIOArcs(net', t) = PresetIOArcs(net, t) /\ PostsetIOArcs(net', t) = PostsetIOArcs(net, t)
    <3>1. /\ net'.transition[t].incoming = net.transition[t].incoming
          /\ net'.transition[t].outgoing = net.transition[t].outgoing
      BY <1>4 DEF SameGraph
    <3> QED
      BY <2>1, <3>1 DEF PresetIOArcs, PostsetIOArcs
  <2> QED
    BY <2>1, <2>2 DEF Labelled
<1>7. \A t \in DOMAIN net'.transition : net'.transition[t].label = Labelled(net', t)
  BY <1>4, <1>6 DEF SameGraph, SameObjects
<1>8. IsClosedFor(net', opened', Interface(opened')) /\ IsSound(opened') /\ ListsFit(opened')
      /\ DOMAIN opened'.place \subseteq PlaceNames
  BY <1>1, <1>2, <1>5
<1> QED
  BY <1>1, <1>7, <1>8 DEF ClosingInv

LEMMA NextClosing == IInv /\ ClosingInv /\ [Next]_vars => ClosingInv'
<1> SUFFICES ASSUME IInv, ClosingInv, [Next]_vars PROVE ClosingInv'
  OBVIOUS
<1>1. CASE ReadText
  <2>1. phase' \in {"text", "loaded", "refused"}
    BY <1>1 DEF ReadText, Parse, EmptyText, TimeNet, EndOfText, Malformed, Accept, Refuse, In, Once,
                InTransitions, ParsePlace, ParseInputPlace, ParseOutputPlace, ParseIncomingArc,
                ParseOutgoingArc, ParseTransition, ParseMarking, ParseFinalMarking
  <2> QED
    BY <2>1 DEF ClosingInv
<1>2. CASE StartMaximal
  <2>1. /\ phase = "loaded" /\ phase' = "closing" /\ net' = net /\ opened' = net /\ visited' = 0
    BY <1>2 DEF StartMaximal, IInv
  <2>2. Done(visited)' = {}
    BY <2>1 DEF Done
  <2>3. IsClosedFor(net', opened', Done(visited)')
    BY <2>1, <2>2, ClosedForNone
  <2>4. IsSound(opened') /\ ListsFit(opened') /\ DOMAIN opened'.place \subseteq PlaceNames
    BY <2>1 DEF IInv, Unedited
  <2> QED
    BY <2>1, <2>3, <2>4 DEF ClosingInv
<1>3. CASE VisitPlace
  BY <1>3, VisitPlaceClosing
<1>4. CASE SetTransitionLabels
  BY <1>4, LabelsClosing
<1>5. CASE EditNet
  BY <1>5 DEF EditNet, Edit, ClosingInv
<1>6. CASE UNCHANGED vars
  <2>1. Done(visited)' = Done(visited) /\ Done(visited - 1)' = Done(visited - 1)
    BY <1>6 DEF vars, Done
  <2> QED
    BY <1>6, <2>1 DEF vars, ClosingInv
<1> QED
  BY <1>1, <1>2, <1>3, <1>4, <1>5, <1>6 DEF Next

-----------------------------------------------------------------------------
(***************************************************************************)
(* What the invariant says of a net that is closed, in the terms of the    *)
(* module ConstructMaximalNet.                                             *)
(***************************************************************************)
LEMMA NamesAreInjective ==
  ASSUME ClosingInv, phase \in {"closing", "closed", "clash", "asserted"},
         NEW p \in DOMAIN opened.place, NEW q \in DOMAIN opened.place,
         PartnerName[p] = PartnerName[q]
  PROVE  p = q
BY PartnerAssumption DEF ClosingInv

LEMMA InterfaceIsInterface ==
  /\ Maximal!InterfacePlaces = Interface(opened)
  /\ Interface(opened) \subseteq DOMAIN opened.place
  /\ Maximal!MaxTransitions = DOMAIN opened.transition \cup {PartnerName[p] : p \in Interface(opened)}
  /\ Maximal!NamesAreFree <=>
       /\ \A p \in DOMAIN opened.place : ~ IsBothOf(opened, p)
       /\ \A p \in Interface(opened) : PartnerName[p] \notin DOMAIN opened.transition
       /\ \A p, q \in Interface(opened) : PartnerName[p] = PartnerName[q] => p = q
BY DEF Maximal!InterfacePlaces, Maximal!MaxTransitions, Maximal!Partners, Maximal!NamesAreFree,
       Interface, InputPlacesOf, OutputPlacesOf, IsBothOf

LEMMA PartnersAreDone == \A k : PartnersOfFirst(k) = {PartnerName[p] : p \in Done(k)}
BY InterfaceIsInterface DEF PartnersOfFirst, Done

LEMMA FailureIsExact ==
  ASSUME IInv, ClosingInv, phase \in {"clash", "asserted"}
  PROVE  /\ ~ Maximal!NamesAreFree
         /\ DOMAIN net.transition = DOMAIN opened.transition \cup PartnersOfFirst(visited - 1)
<1> DEFINE p == opened.placeList[visited]
<1>1. /\ ListsFit(opened) /\ visited \in 1 .. Len(opened.placeList)
      /\ IsClosedFor(net, opened, Done(visited - 1))
  BY DEF ClosingInv
<1>2. DOMAIN net.transition = DOMAIN opened.transition \cup PartnersOfFirst(visited - 1)
  BY <1>1, PartnersAreDone DEF IsClosedFor
<1>3. p \in DOMAIN opened.place
  <2>1. opened.placeList \in Seq(DOMAIN opened.place)
    BY <1>1 DEF ListsFit, ListFits
  <2> QED
    BY <1>1, <2>1
<1>4. CASE phase = "asserted"
  BY <1>2, <1>3, <1>4, InterfaceIsInterface DEF ClosingInv
<1>5. CASE phase = "clash"
  <2>1. p \in Interface(opened) /\ PartnerName[p] \in DOMAIN net.transition
    BY <1>5 DEF ClosingInv, HasTransition
  <2>2. CASE PartnerName[p] \in DOMAIN opened.transition
    BY <1>2, <2>1, <2>2, InterfaceIsInterface
  <2>3. CASE PartnerName[p] \notin DOMAIN opened.transition
    <3>1. PICK q \in Done(visited - 1) : PartnerName[q] = PartnerName[p]
      BY <1>1, <2>1, <2>3 DEF IsClosedFor
    <3>2. q = p
      BY <1>3, <3>1, InterfaceIsInterface, NamesAreInjective DEF Done
    <3>3. PICK i \in 1 .. visited - 1 : opened.placeList[i] = p
      BY <3>1, <3>2 DEF Done
    <3>4. i \in 1 .. Len(opened.placeList) /\ i # visited
      BY <1>1, <3>3 DEF ListsFit, ListFits
    <3>5. opened.place[p].index = i - 1 /\ opened.place[p].index = visited - 1
      BY <1>1, <3>3, <3>4 DEF ListsFit, ListFits
    <3> QED
      BY <1>1, <3>4, <3>5
  <2> QED
    BY <2>2, <2>3
<1> QED
  BY <1>2, <1>4, <1>5

\* The transitions of a closed net, one by one: those there were and the partners.
LEMMA ClosedArcs ==
  ASSUME IInv, ClosingInv, phase = "closed"
  PROVE  /\ DOMAIN net.place = DOMAIN opened.place
         /\ InputPlacesOf(net) = InputPlacesOf(opened) /\ OutputPlacesOf(net) = OutputPlacesOf(opened)
         /\ DOMAIN net.transition = Maximal!MaxTransitions
         /\ Maximal!NamesAreFree
BY InterfaceIsInterface, NamesAreInjective
   DEF ClosingInv, IsClosedFor, InputPlacesOf, OutputPlacesOf, Interface, IsBothOf

LEMMA ClosedTimes ==
  ASSUME IInv, ClosingInv, phase = "closed"
  PROVE  Earliest(net) = Maximal!MaxMinTime /\ Latest(net) = Maximal!MaxMaxTime
<1>1. DOMAIN net.transition = Maximal!MaxTransitions
  BY ClosedArcs
<1>2. ASSUME NEW t \in Maximal!MaxTransitions
      PROVE  /\ t \in DOMAIN opened.transition => net.transition[t].interval = opened.transition[t].interval
             /\ t \notin DOMAIN opened.transition => net.transition[t].interval = <<0, MaxSize>>
  BY <1>2, InterfaceIsInterface DEF ClosingInv, IsClosedFor
<1>3. ASSUME NEW t \in Maximal!MaxTransitions
      PROVE  /\ net.transition[t].interval[1]
                  = IF t \in DOMAIN opened.transition THEN Earliest(opened)[t] ELSE 0
             /\ net.transition[t].interval[2]
                  = IF t \in DOMAIN opened.transition THEN Latest(opened)[t] ELSE MaxSize
  BY <1>2, <1>3 DEF Earliest, Latest
<1> QED
  BY <1>1, <1>3 DEF Earliest, Latest, Maximal!MaxMinTime, Maximal!MaxMaxTime

LEMMA ClosedCounts ==
  ASSUME IInv, ClosingInv, phase = "closed"
  PROVE  IncomingCount(net) = Maximal!MaxIncoming /\ OutgoingCount(net) = Maximal!MaxOutgoing
<1> DEFINE in(n, t, p)  == {a \in n.transition[t].incoming : n.arc[a].source = p}
           out(n, t, p) == {a \in n.transition[t].outgoing : n.arc[a].target = p}
<1>1. /\ DOMAIN net.transition = Maximal!MaxTransitions /\ DOMAIN net.place = DOMAIN opened.place
  BY ClosedArcs
<1>2. IsClosedFor(net, opened, Interface(opened)) /\ IsSound(opened)
  BY DEF ClosingInv
<1>3. ASSUME NEW t \in DOMAIN opened.transition, NEW p \in DOMAIN opened.place
      PROVE  in(net, t, p) = in(opened, t, p) /\ out(net, t, p) = out(opened, t, p)
  <2>1. /\ net.transition[t].incoming = opened.transition[t].incoming
        /\ net.transition[t].outgoing = opened.transition[t].outgoing
    BY <1>2 DEF IsClosedFor
  <2>2. opened.transition[t].incoming \cup opened.transition[t].outgoing \subseteq DOMAIN opened.arc
    BY <1>2 DEF IsSound, ArcsFit
  <2>3. \A a \in DOMAIN opened.arc : /\ net.arc[a].source = opened.arc[a].source
                                     /\ net.arc[a].target = opened.arc[a].target
    BY <1>2 DEF IsClosedFor
  <2> QED
    BY <2>1, <2>2, <2>3
<1>4. ASSUME NEW t \in Maximal!MaxTransitions, t \notin DOMAIN opened.transition,
             NEW p \in DOMAIN opened.place
      PROVE  /\ Cardinality(in(net, t, p)) = Maximal!ArcIf(p \in OutputPlacesOf(opened) /\ Maximal!Serves(t, p))
             /\ Cardinality(out(net, t, p)) = Maximal!ArcIf(p \in InputPlacesOf(opened) /\ Maximal!Serves(t, p))
  <2>1. PICK q \in Interface(opened) : PartnerName[q] = t
    BY <1>4, InterfaceIsInterface
  <2>2. q \in DOMAIN opened.place /\ (Maximal!Serves(t, p) <=> p = q)
    BY <2>1, InterfaceIsInterface, NamesAreInjective DEF Maximal!Serves
  <2>3. ServesOnly(net, q) /\ net.place[q].input = opened.place[q].input
        /\ ~ (opened.place[q].input /\ opened.place[q].output)
    BY <1>2, <2>1, <2>2 DEF IsClosedFor
  <2>4. Cardinality({}) = 0 /\ \A a : Cardinality({a}) = 1
    BY FS_EmptySet, FS_Singleton
  <2>5. CASE opened.place[q].input
    <3>1. PICK a : /\ net.transition[t].incoming = {} /\ net.transition[t].outgoing = {a}
                   /\ net.arc[a].target = q
      BY <2>1, <2>3, <2>5 DEF ServesOnly
    <3>2. in(net, t, p) = {} /\ out(net, t, p) = IF p = q THEN {a} ELSE {}
      BY <3>1
    <3>3. q \in InputPlacesOf(opened) /\ q \notin OutputPlacesOf(opened)
      BY <2>2, <2>3, <2>5 DEF InputPlacesOf, OutputPlacesOf
    <3> HIDE DEF in, out
    <3> QED
      BY <2>2, <2>4, <3>2, <3>3 DEF Maximal!ArcIf
  <2>6. CASE ~ opened.place[q].input
    <3>1. PICK a : /\ net.transition[t].outgoing = {} /\ net.transition[t].incoming = {a}
                   /\ net.arc[a].source = q
      BY <2>1, <2>3, <2>6 DEF ServesOnly
    <3>2. out(net, t, p) = {} /\ in(net, t, p) = IF p = q THEN {a} ELSE {}
      BY <3>1
    <3>3. q \notin InputPlacesOf(opened) /\ q \in OutputPlacesOf(opened)
      BY <2>1, <2>2, <2>6 DEF Interface, InputPlacesOf, OutputPlacesOf
    <3> HIDE DEF in, out
    <3> QED
      BY <2>2, <2>4, <3>2, <3>3 DEF Maximal!ArcIf
  <2> QED
    BY <2>5, <2>6
<1>5. IncomingCount(net) = Maximal!MaxIncoming
  <2>1. ASSUME NEW t \in Maximal!MaxTransitions
        PROVE  IncomingCount(net)[t] = Maximal!MaxIncoming[t]
    <3>1. IncomingCount(net)[t] = [p \in DOMAIN opened.place |-> Cardinality(in(net, t, p))]
      BY <1>1, <2>1 DEF IncomingCount
    <3>2. CASE t \in DOMAIN opened.transition
      <4>1. Maximal!MaxIncoming[t] = [p \in DOMAIN opened.place |-> Cardinality(in(opened, t, p))]
        BY <2>1, <3>2 DEF Maximal!MaxIncoming, IncomingCount
      <4> HIDE DEF in, out
      <4> QED
        BY <1>3, <3>1, <3>2, <4>1
    <3>3. CASE t \notin DOMAIN opened.transition
      <4>1. Maximal!MaxIncoming[t]
              = [p \in DOMAIN opened.place |-> Maximal!ArcIf(p \in OutputPlacesOf(opened) /\ Maximal!Serves(t, p))]
        BY <2>1, <3>3 DEF Maximal!MaxIncoming
      <4> HIDE DEF in, out
      <4>2. \A p \in DOMAIN opened.place :
              Cardinality(in(net, t, p)) = Maximal!ArcIf(p \in OutputPlacesOf(opened) /\ Maximal!Serves(t, p))
        BY <1>4, <2>1, <3>3
      <4> QED
        BY <3>1, <4>1, <4>2
    <3> QED
      BY <3>2, <3>3
  <2> QED
    BY <1>1, <2>1 DEF IncomingCount, Maximal!MaxIncoming
<1>6. OutgoingCount(net) = Maximal!MaxOutgoing
  <2>1. ASSUME NEW t \in Maximal!MaxTransitions
        PROVE  OutgoingCount(net)[t] = Maximal!MaxOutgoing[t]
    <3>1. OutgoingCount(net)[t] = [p \in DOMAIN opened.place |-> Cardinality(out(net, t, p))]
      BY <1>1, <2>1 DEF OutgoingCount
    <3>2. CASE t \in DOMAIN opened.transition
      <4>1. Maximal!MaxOutgoing[t] = [p \in DOMAIN opened.place |-> Cardinality(out(opened, t, p))]
        BY <2>1, <3>2 DEF Maximal!MaxOutgoing, OutgoingCount
      <4> HIDE DEF in, out
      <4> QED
        BY <1>3, <3>1, <3>2, <4>1
    <3>3. CASE t \notin DOMAIN opened.transition
      <4>1. Maximal!MaxOutgoing[t]
              = [p \in DOMAIN opened.place |-> Maximal!ArcIf(p \in InputPlacesOf(opened) /\ Maximal!Serves(t, p))]
        BY <2>1, <3>3 DEF Maximal!MaxOutgoing
      <4> HIDE DEF in, out
      <4>2. \A p \in DOMAIN opened.place :
              Cardinality(out(net, t, p)) = Maximal!ArcIf(p \in InputPlacesOf(opened) /\ Maximal!Serves(t, p))
        BY <1>4, <2>1, <3>3
      <4> QED
        BY <3>1, <4>1, <4>2
    <3> QED
      BY <3>2, <3>3
  <2> QED
    BY <1>1, <2>1 DEF OutgoingCount, Maximal!MaxOutgoing
<1> QED
  BY <1>5, <1>6

\* The module is an instance, and brings its own name for the size of a set.
LEMMA SizesAgree == \A S : Maximal!Cardinality(S) = Cardinality(S)
BY DEF Maximal!Cardinality, Cardinality

\* The interface places a transition takes from, by its arcs and by the numbers.
LEMMA ClosedTakesFrom ==
  ASSUME IInv, ClosingInv, phase = "closed", NEW t \in DOMAIN net.transition
  PROVE  LET arcs == PresetIOArcs(net, t)
             P    == Maximal!TakesFrom(t)
         IN  /\ arcs = {} <=> P = {}
             /\ Cardinality(arcs) = 1 <=> Maximal!OneArc(Maximal!MaxIncoming[t], P)
             /\ Cardinality(arcs) = 1 => net.arc[CHOOSE a \in arcs : TRUE].source = CHOOSE p \in P : TRUE
<1> DEFINE S   == net.transition[t].incoming
           end == [a \in DOMAIN net.arc |-> net.arc[a].source]
           I   == Interface(opened)
<1>1. /\ DOMAIN net.place = DOMAIN opened.place /\ DOMAIN net.transition = Maximal!MaxTransitions
      /\ InputPlacesOf(net) \cup OutputPlacesOf(net) = I
  BY ClosedArcs DEF Interface
<1>2. S \subseteq DOMAIN net.arc /\ IsFiniteSet(S)
  <2>1. S \subseteq DOMAIN net.arc /\ IsFiniteSet(DOMAIN net.arc)
    BY DEF IInv, IsSound, ArcsFit
  <2> QED
    BY <2>1, FS_Subset
<1>3. \A a \in S : end[a] = net.arc[a].source
  BY <1>2
<1>4. PresetIOArcs(net, t) = Ending(S, end, I)
  BY <1>1, <1>3 DEF PresetIOArcs, Ending
<1>5. \A p \in I : Maximal!MaxIncoming[t][p] = Cardinality(AtEnd(S, end, p))
  <2> SUFFICES ASSUME NEW p \in I
               PROVE  Maximal!MaxIncoming[t][p] = Cardinality(AtEnd(S, end, p))
    OBVIOUS
  <2>1. Maximal!MaxIncoming[t][p] = IncomingCount(net)[t][p] /\ p \in DOMAIN net.place
    BY <1>1, ClosedCounts, InterfaceIsInterface
  <2>2. IncomingCount(net)[t][p] = Cardinality({a \in S : net.arc[a].source = p})
    BY <2>1 DEF IncomingCount
  <2>3. AtEnd(S, end, p) = {a \in S : net.arc[a].source = p}
    BY <1>3 DEF AtEnd
  <2> QED
    BY <2>1, <2>2, <2>3
<1>6. Maximal!TakesFrom(t) = EndPlaces(S, end, I)
  BY <1>5, InterfaceIsInterface DEF Maximal!TakesFrom, EndPlaces
<1>7. \A p \in EndPlaces(S, end, I) : p \in I
  BY DEF EndPlaces
<1> HIDE DEF S, end, I
<1>8. Maximal!OneArc(Maximal!MaxIncoming[t], Maximal!TakesFrom(t))
        <=> Cardinality(EndPlaces(S, end, I)) = 1
            /\ \A p \in EndPlaces(S, end, I) : Cardinality(AtEnd(S, end, p)) = 1
  <2>1. Maximal!OneArc(Maximal!MaxIncoming[t], EndPlaces(S, end, I))
          <=> Cardinality(EndPlaces(S, end, I)) = 1
              /\ \A p \in EndPlaces(S, end, I) : Maximal!MaxIncoming[t][p] = 1
    BY SizesAgree DEF Maximal!OneArc
  <2>2. \A p \in EndPlaces(S, end, I) : Maximal!MaxIncoming[t][p] = Cardinality(AtEnd(S, end, p))
    BY <1>5, <1>7
  <2> QED
    BY <1>6, <2>1, <2>2
<1>9. ASSUME Cardinality(Ending(S, end, I)) = 1
      PROVE  net.arc[CHOOSE a \in Ending(S, end, I) : TRUE].source = CHOOSE p \in EndPlaces(S, end, I) : TRUE
  <2>1. Ending(S, end, I) # {}
    BY <1>9, FS_EmptySet
  <2>2. (CHOOSE a \in Ending(S, end, I) : TRUE) \in S
    BY <2>1 DEF Ending
  <2> QED
    BY <1>2, <1>3, <1>9, <2>2, OneArcCounts
<1> QED
  BY <1>2, <1>4, <1>6, <1>8, <1>9, OneArcCounts

\* The interface places a transition puts on, by its arcs and by the numbers.
LEMMA ClosedPutsOn ==
  ASSUME IInv, ClosingInv, phase = "closed", NEW t \in DOMAIN net.transition
  PROVE  LET arcs == PostsetIOArcs(net, t)
             P    == Maximal!PutsOn(t)
         IN  /\ arcs = {} <=> P = {}
             /\ Cardinality(arcs) = 1 <=> Maximal!OneArc(Maximal!MaxOutgoing[t], P)
             /\ Cardinality(arcs) = 1 => net.arc[CHOOSE a \in arcs : TRUE].target = CHOOSE p \in P : TRUE
<1> DEFINE S   == net.transition[t].outgoing
           end == [a \in DOMAIN net.arc |-> net.arc[a].target]
           I   == Interface(opened)
<1>1. /\ DOMAIN net.place = DOMAIN opened.place /\ DOMAIN net.transition = Maximal!MaxTransitions
      /\ InputPlacesOf(net) \cup OutputPlacesOf(net) = I
  BY ClosedArcs DEF Interface
<1>2. S \subseteq DOMAIN net.arc /\ IsFiniteSet(S)
  <2>1. S \subseteq DOMAIN net.arc /\ IsFiniteSet(DOMAIN net.arc)
    BY DEF IInv, IsSound, ArcsFit
  <2> QED
    BY <2>1, FS_Subset
<1>3. \A a \in S : end[a] = net.arc[a].target
  BY <1>2
<1>4. PostsetIOArcs(net, t) = Ending(S, end, I)
  BY <1>1, <1>3 DEF PostsetIOArcs, Ending
<1>5. \A p \in I : Maximal!MaxOutgoing[t][p] = Cardinality(AtEnd(S, end, p))
  <2> SUFFICES ASSUME NEW p \in I
               PROVE  Maximal!MaxOutgoing[t][p] = Cardinality(AtEnd(S, end, p))
    OBVIOUS
  <2>1. Maximal!MaxOutgoing[t][p] = OutgoingCount(net)[t][p] /\ p \in DOMAIN net.place
    BY <1>1, ClosedCounts, InterfaceIsInterface
  <2>2. OutgoingCount(net)[t][p] = Cardinality({a \in S : net.arc[a].target = p})
    BY <2>1 DEF OutgoingCount
  <2>3. AtEnd(S, end, p) = {a \in S : net.arc[a].target = p}
    BY <1>3 DEF AtEnd
  <2> QED
    BY <2>1, <2>2, <2>3
<1>6. Maximal!PutsOn(t) = EndPlaces(S, end, I)
  BY <1>5, InterfaceIsInterface DEF Maximal!PutsOn, EndPlaces
<1>7. \A p \in EndPlaces(S, end, I) : p \in I
  BY DEF EndPlaces
<1> HIDE DEF S, end, I
<1>8. Maximal!OneArc(Maximal!MaxOutgoing[t], Maximal!PutsOn(t))
        <=> Cardinality(EndPlaces(S, end, I)) = 1
            /\ \A p \in EndPlaces(S, end, I) : Cardinality(AtEnd(S, end, p)) = 1
  <2>1. Maximal!OneArc(Maximal!MaxOutgoing[t], EndPlaces(S, end, I))
          <=> Cardinality(EndPlaces(S, end, I)) = 1
              /\ \A p \in EndPlaces(S, end, I) : Maximal!MaxOutgoing[t][p] = 1
    BY SizesAgree DEF Maximal!OneArc
  <2>2. \A p \in EndPlaces(S, end, I) : Maximal!MaxOutgoing[t][p] = Cardinality(AtEnd(S, end, p))
    BY <1>5, <1>7
  <2> QED
    BY <1>6, <2>1, <2>2
<1>9. ASSUME Cardinality(Ending(S, end, I)) = 1
      PROVE  net.arc[CHOOSE a \in Ending(S, end, I) : TRUE].target = CHOOSE p \in EndPlaces(S, end, I) : TRUE
  <2>1. Ending(S, end, I) # {}
    BY <1>9, FS_EmptySet
  <2>2. (CHOOSE a \in Ending(S, end, I) : TRUE) \in S
    BY <2>1 DEF Ending
  <2> QED
    BY <1>2, <1>3, <1>9, <2>2, OneArcCounts
<1> QED
  BY <1>2, <1>4, <1>6, <1>8, <1>9, OneArcCounts

LEMMA ClosedLabels ==
  ASSUME IInv, ClosingInv, phase = "closed"
  PROVE  LabelsOf(net) = Maximal!MaxLabel
<1>1. DOMAIN net.transition = Maximal!MaxTransitions
  BY ClosedArcs
<1>2. ASSUME NEW t \in Maximal!MaxTransitions
      PROVE  LabelsOf(net)[t] = Maximal!MaxLabel[t]
  <2> DEFINE pre  == PresetIOArcs(net, t)
             post == PostsetIOArcs(net, t)
  <2>1. LabelsOf(net)[t] = Labelled(net, t)
    BY <1>1, <1>2 DEF LabelsOf, ClosingInv
  <2>2. /\ pre = {} <=> Maximal!TakesFrom(t) = {}
        /\ Cardinality(pre) = 1 <=> Maximal!OneArc(Maximal!MaxIncoming[t], Maximal!TakesFrom(t))
        /\ Cardinality(pre) = 1
             => net.arc[CHOOSE a \in pre : TRUE].source = CHOOSE p \in Maximal!TakesFrom(t) : TRUE
    BY <1>1, <1>2, ClosedTakesFrom
  <2>3. /\ post = {} <=> Maximal!PutsOn(t) = {}
        /\ Cardinality(post) = 1 <=> Maximal!OneArc(Maximal!MaxOutgoing[t], Maximal!PutsOn(t))
        /\ Cardinality(post) = 1
             => net.arc[CHOOSE a \in post : TRUE].target = CHOOSE p \in Maximal!PutsOn(t) : TRUE
    BY <1>1, <1>2, ClosedPutsOn
  <2>4. Labelled(net, t)
          = CASE Cardinality(pre) = 1 /\ post = {} -> <<net.arc[CHOOSE a \in pre : TRUE].source, "?">>
              [] pre = {} /\ Cardinality(post) = 1 -> <<net.arc[CHOOSE a \in post : TRUE].target, "!">>
              [] OTHER -> <<>>
    BY DEF Labelled
  <2>5. Maximal!MaxLabel[t]
          = CASE Maximal!OneArc(Maximal!MaxIncoming[t], Maximal!TakesFrom(t)) /\ Maximal!PutsOn(t) = {}
                   -> <<CHOOSE p \in Maximal!TakesFrom(t) : TRUE, "?">>
              [] Maximal!TakesFrom(t) = {} /\ Maximal!OneArc(Maximal!MaxOutgoing[t], Maximal!PutsOn(t))
                   -> <<CHOOSE p \in Maximal!PutsOn(t) : TRUE, "!">>
              [] OTHER -> <<>>
    BY <1>2 DEF Maximal!MaxLabel, Maximal!SilentLabel
  <2> HIDE DEF pre, post
  <2>6. ~ (Cardinality(pre) = 1 /\ pre = {})
    BY FS_EmptySet
  <2> QED
    BY <2>1, <2>2, <2>3, <2>4, <2>5, <2>6
<1> QED
  BY <1>1, <1>2 DEF LabelsOf, Maximal!MaxLabel

(***************************************************************************)
(* ConstructMaximalNet works in place and may stop half way; the net it    *)
(* ends with is the maximal net of the one it was given, arcs, times and   *)
(* labels, and it stops only where the names or the kinds of the places    *)
(* leave it no choice - for every text, every interface, every number of   *)
(* arcs between two nodes.                                                 *)
(***************************************************************************)
THEOREM MaximalNetsAreExact == LoadSpec => []MaximalNetIsExact
<1>1. LoadInit => ClosingInv
  BY DEF LoadInit, Init, ClosingInv
<1>2. IInv /\ ClosingInv => MaximalNetIsExact
  BY ClosedArcs, ClosedTimes, ClosedCounts, ClosedLabels, FailureIsExact DEF MaximalNetIsExact
<1>3. LoadSpec => []ClosingInv
  BY <1>1, IInvHolds, NextClosing, PTL DEF LoadSpec
<1> QED
  BY <1>2, <1>3, IInvHolds, PTL
=============================================================================
