------------------------------ MODULE FiringSteps -----------------------------
(***************************************************************************)
(* FiringRule::fireTransition and makeTimeStep arc by arc.  fireTransition *)
(* copies the state and then runs four loops over the copy: consume a      *)
(* token per incoming arc, produce one per outgoing arc, reset and         *)
(* re-enable the consumers of every input place, enable the consumers of   *)
(* every output place.  The arc lists have the order in which the net file *)
(* named them, hence any order.  In between, the copy is inconsistent - a  *)
(* reset gives clock 0 to transitions that are not enabled at all - and    *)
(* the loops must leave nothing of it behind.                              *)
(***************************************************************************)
EXTENDS FiringRule

VARIABLES state,     \* the net state the caller holds
          copy,      \* newState in fireTransition
          loop,      \* which loop runs
          todo,      \* its places with the number of arcs still to visit
          firing     \* the transition, or none

vars == <<state, copy, loop, todo, firing>>

NoTransition == "none"

\* One entry of updateSiblings resets the whole postset before it enables it.
ResetPostset(p, time) ==
  [u \in Transitions |-> IF u \in ConsumersOf(p) THEN 0 ELSE time[u]]

EnableConsumers(p, m, time) ==
  [u \in Transitions |-> IF u \in ConsumersOf(p) THEN EnablePostset(u, m, time) ELSE time[u]]

IsExpanded(s) == IsBounded(s) \/ s = InitialState

Init == /\ state = InitialState
        /\ copy = InitialState
        /\ loop = "idle"
        /\ todo = [p \in Places |-> 0]
        /\ firing = NoTransition

Call(t) == /\ loop = "idle" /\ IsExpanded(state) /\ IsFireable(t, state)
           /\ copy' = state
           /\ loop' = "consume" /\ todo' = Incoming[t] /\ firing' = t
           /\ UNCHANGED state

\* Takes the next arc of the running loop.
Visit(p) == todo[p] > 0 /\ todo' = [todo EXCEPT ![p] = @ - 1]

Consume(p) == /\ loop = "consume" /\ Visit(p)
              /\ copy' = [copy EXCEPT !.place[p] = Minus(@, 1)]
              /\ UNCHANGED <<state, loop, firing>>

Produce(p) == /\ loop = "produce" /\ Visit(p)
              /\ copy' = [copy EXCEPT !.place[p] = Plus(@, 1)]
              /\ UNCHANGED <<state, loop, firing>>

\* Variant: the clocks are not reset before they are enabled.
SiblingKeepsClock(p) ==
  /\ loop = "siblings" /\ Visit(p)
  /\ copy' = [copy EXCEPT !.time = EnableConsumers(p, copy.place, copy.time)]
  /\ UNCHANGED <<state, loop, firing>>

Sibling(p) == /\ loop = "siblings" /\ Visit(p)
              /\ copy' = [copy EXCEPT !.time =
                            EnableConsumers(p, copy.place, ResetPostset(p, copy.time))]
              /\ UNCHANGED <<state, loop, firing>>

\* Variant: the call is forgotten.
SuccessorForgotten(p) == /\ loop = "successors" /\ Visit(p)
                         /\ UNCHANGED <<state, copy, loop, firing>>

Successor(p) == /\ loop = "successors" /\ Visit(p)
                /\ copy' = [copy EXCEPT !.time = EnableConsumers(p, copy.place, copy.time)]
                /\ UNCHANGED <<state, loop, firing>>

LoopEnds == \A p \in Places : todo[p] = 0

NextLoop == /\ loop \in {"consume", "produce", "siblings"} /\ LoopEnds
            /\ \/ loop = "consume"  /\ loop' = "produce"    /\ todo' = Outgoing[firing]
               \/ loop = "produce"  /\ loop' = "siblings"   /\ todo' = Incoming[firing]
               \/ loop = "siblings" /\ loop' = "successors" /\ todo' = Outgoing[firing]
            /\ UNCHANGED <<state, copy, firing>>

Return == /\ loop = "successors" /\ LoopEnds
          /\ state' = copy
          /\ loop' = "idle" /\ firing' = NoTransition
          /\ UNCHANGED <<copy, todo>>

TimeStep == /\ loop = "idle" /\ IsExpanded(state) /\ CanMakeTimeStep(state)
            /\ state' = MakeTimeStep(state)
            /\ UNCHANGED <<copy, loop, todo, firing>>

\* What fireTransition does between its call and its return.
Loops == \/ \E p \in Places : Consume(p) \/ Produce(p) \/ Sibling(p) \/ Successor(p)
         \/ NextLoop

Next == (\E t \in Transitions : Call(t)) \/ Loops \/ Return \/ TimeStep

Spec == Init /\ [][Next]_vars

=============================================================================
