--------------------------- MODULE ConstructBehavior ---------------------------
(***************************************************************************)
(* The filter ConstructBehavior and the Behavior it fills                  *)
(* (src/src/ConstructBehavior.cpp, Behavior.cpp, Automaton.h): the graph   *)
(* of the reachable net states of a labelled net, built depth first.       *)
(* handleState goes through the fireable transitions and then time; a net  *)
(* state met for the first time is handled at once, and the edge to it is  *)
(* added only when that has come back.  Net states beyond a bound are left *)
(* out, or all stand for one state without a net state.                    *)
(***************************************************************************)
EXTENDS FiringRule, Sequences

CONSTANTS Label,            \* Transition::getLabel, <<>> for the empty label
          TransitionList,   \* the order of Net::getTransitions
          Violation         \* m_boundViolationState

VARIABLES createViolation,  \* m_createBoundViolationState
          phase,            \* "start", "build" or "done"
          states,           \* m_states
          final,            \* m_finalStates
          edges,            \* m_edges; the empty label makes an edge unobservable
          stack             \* activations of handleState, innermost first
vars == <<createViolation, phase, states, final, edges, stack>>

\* The list has the transitions of the net, and a bound violation is no net state.
ASSUME ListAssumption      == /\ TransitionList \in Seq(Transitions)
                              /\ Transitions = {TransitionList[i] : i \in DOMAIN TransitionList}
ASSUME ViolationAssumption == Violation \notin NetStates

TimeLabel == <<"1">>

\* A job of handleState is the position of a fireable transition in the list, or time.
TimeJob == Len(TransitionList) + 1

Jobs(s) == {i \in DOMAIN TransitionList : IsFireable(TransitionList[i], s)}
             \cup (IF CanMakeTimeStep(s) THEN {TimeJob} ELSE {})

JobLabel(j)     == IF j = TimeJob THEN TimeLabel ELSE Label[TransitionList[j]]
Successor(j, s) == IF j = TimeJob THEN MakeTimeStep(s) ELSE FireTransition(TransitionList[j], s)

\* An activation of handleState has a state in hand and jobs left, and does them in order.
Activation(s) == [state |-> s, left |-> Jobs(s)]

Job(call)     == CHOOSE i \in call.left : \A k \in call.left : i <= k
JobDone(call) == [call EXCEPT !.left = @ \ {Job(call)}]

\* connect: edges are told apart by their ends and their label.
EdgeTo(s, j, target)  == [source |-> s, label |-> JobLabel(j), target |-> target]

Top   == Head(stack)
Below == Tail(stack)

-----------------------------------------------------------------------------
Init == /\ createViolation \in BOOLEAN
        /\ phase = "start"
        /\ states = {} /\ final = {} /\ edges = {} /\ stack = <<>>

Start == /\ phase = "start" /\ phase' = "build"
         /\ states' = {InitialState}
         /\ stack' = <<Activation(InitialState)>>
         /\ UNCHANGED <<createViolation, final, edges>>

\* A successor beyond a bound: nothing, or an edge to the one state that stands for all.
BeyondBound(s) ==
  /\ ~ IsBounded(s)
  /\ IF createViolation
     THEN /\ states' = states \cup {Violation}
          /\ edges' = edges \cup {EdgeTo(Top.state, Job(Top), Violation)}
     ELSE UNCHANGED <<states, edges>>
  /\ stack' = <<JobDone(Top)>> \o Below
  /\ UNCHANGED final

\* Variant: only new net states are connected.
KnownStateSkipped(s) ==
  /\ IsBounded(s) /\ s \in states
  /\ stack' = <<JobDone(Top)>> \o Below
  /\ UNCHANGED <<states, final, edges>>

KnownState(s) ==
  /\ IsBounded(s) /\ s \in states
  /\ edges' = edges \cup {EdgeTo(Top.state, Job(Top), s)}
  /\ stack' = <<JobDone(Top)>> \o Below
  /\ UNCHANGED <<states, final>>

\* Variant: the iterator is advanced before the call.
NewStateAdvanced(s) ==
  /\ IsBounded(s) /\ s \notin states
  /\ states' = states \cup {s}
  /\ final' = IF IsFinalMarking(s.place) THEN final \cup {s} ELSE final
  /\ stack' = <<Activation(s), JobDone(Top)>> \o Below
  /\ UNCHANGED edges

\* The job stays where it is: its edge is still to come.
NewState(s) ==
  /\ IsBounded(s) /\ s \notin states
  /\ states' = states \cup {s}
  /\ final' = IF IsFinalMarking(s.place) THEN final \cup {s} ELSE final
  /\ stack' = <<Activation(s)>> \o stack
  /\ UNCHANGED edges

HandleNetState ==
  /\ phase = "build" /\ Top.left # {}
  /\ \E s \in {Successor(Job(Top), Top.state)} :
       BeyondBound(s) \/ KnownState(s) \/ NewState(s)
  /\ UNCHANGED <<createViolation, phase>>

\* handleState returns: the caller connects, or the construction is over.
Return ==
  /\ phase = "build" /\ Top.left = {}
  /\ IF Len(stack) = 1
     THEN phase' = "done" /\ stack' = <<>> /\ UNCHANGED edges
     ELSE LET caller == stack[2]
          IN  /\ edges' = edges \cup {EdgeTo(caller.state, Job(caller), Top.state)}
              /\ stack' = <<JobDone(caller)>> \o Tail(Below)
              /\ UNCHANGED phase
  /\ UNCHANGED <<createViolation, states, final>>

Next == Start \/ HandleNetState \/ Return

Spec == Init /\ [][Next]_vars

-----------------------------------------------------------------------------
NetStatesOf(S) == S \ {Violation}

\* The edge a step of the net deserves, as a set: none for a step that is left out.
Deserved(s, j) ==
  LET r == Successor(j, s)
  IN  IF IsBounded(r) THEN {EdgeTo(s, j, r)}
      ELSE IF createViolation THEN {EdgeTo(s, j, Violation)} ELSE {}

(***************************************************************************)
(* While an inner call runs, its caller still stands at the job that led   *)
(* to it: connect then gets the right label, and no state is in the hands  *)
(* of two calls, which bounds the recursion by the number of states.       *)
(***************************************************************************)
CallersWait ==
  /\ \A i \in 1 .. Len(stack) - 1 :
       /\ stack[i + 1].left # {}
       /\ stack[i].state = Successor(Job(stack[i + 1]), stack[i + 1].state)
  /\ \A i, k \in DOMAIN stack : stack[i].state = stack[k].state => i = k

(***************************************************************************)
(* The finished behavior is the state graph of the net: the net states     *)
(* reachable within the bounds, exactly the steps between them, and the    *)
(* final markings - except at the initial state, which is never final.     *)
(***************************************************************************)
Onward(P) == {r \in UNION {{Successor(j, s) : j \in Jobs(s)} : s \in P} : IsBounded(r)}

Reachable ==
  LET R[n \in 0 .. Cardinality(states)] ==
        IF n = 0 THEN {InitialState} ELSE LET P == R[n - 1] IN P \cup Onward(P)
  IN  R[Cardinality(states)]

BehaviorIsExact ==
  phase = "done" =>
    /\ NetStatesOf(states) = Reachable
    /\ edges = UNION {UNION {Deserved(s, j) : j \in Jobs(s)} : s \in Reachable}
    /\ final = {s \in Reachable \ {InitialState} : IsFinalMarking(s.place)}
=============================================================================
