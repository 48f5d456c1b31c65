--------------------------- MODULE ComputeComponents ---------------------------
(***************************************************************************)
(* The class ComputeComponents (src/src/Automaton.h), which finds the      *)
(* strongly connected components reachable from the initial state in one   *)
(* depth-first pass.  visitState numbers the states as it meets them and   *)
(* keeps in lowLink the smallest number it has seen a way back to; a state *)
(* whose own number that is closes a component, which is then popped off   *)
(* the stack.  Edges are visited in the order of the edge lists, which the *)
(* model leaves open.  MarkUnsafeStates and the renderer use the result.   *)
(***************************************************************************)
EXTENDS ClosureGraph, Sequences

VARIABLES infos,      \* m_infos: [state -> [index, lowLink, onStack]]
          stack,      \* m_stack, top first
          components, \* m_components
          visits      \* activations of visitState with the edges to visit, innermost first
passVars == <<automaton, infos, stack, components, visits>>

Min(a, b) == IF a <= b THEN a ELSE b

TopVisit == Head(visits)

Visited(e) == <<[TopVisit EXCEPT !.todo = @ \ {e}]>> \o Tail(visits)

Linked(f, s, link) == [f EXCEPT ![s].lowLink = Min(@, link)]

\* The head of visitState: m_index is the number of states met so far.
Enter(s, callers) ==
  /\ infos' = [r \in DOMAIN infos \cup {s} |->
                 IF r = s THEN [index   |-> Cardinality(DOMAIN infos),
                                lowLink |-> Cardinality(DOMAIN infos), onStack |-> TRUE]
                          ELSE infos[r]]
  /\ stack' = <<s>> \o stack
  /\ visits' = <<[state |-> s, todo |-> Out(automaton, s)]>> \o callers
  /\ UNCHANGED <<automaton, components>>

PassInit == /\ automaton \in Automata
            /\ infos = [s \in {} |-> 0]
            /\ stack = <<>> /\ components = <<>> /\ visits = <<>>

StartPass == /\ DOMAIN infos = {}
             /\ \E s \in automaton.initial : Enter(s, <<>>)

VisitNew(e) == e.target \notin DOMAIN infos /\ Enter(e.target, Visited(e))

\* Variant: a target counts whether it is on the stack or not.
VisitAnyKnown(e) ==
  /\ e.target \in DOMAIN infos
  /\ infos' = Linked(infos, e.source, infos[e.target].index)
  /\ visits' = Visited(e)
  /\ UNCHANGED <<automaton, stack, components>>

VisitKnown(e) ==
  /\ e.target \in DOMAIN infos
  /\ infos' = IF infos[e.target].onStack THEN Linked(infos, e.source, infos[e.target].index)
                                         ELSE infos
  /\ visits' = Visited(e)
  /\ UNCHANGED <<automaton, stack, components>>

VisitEdge == visits # <<>> /\ \E e \in TopVisit.todo : VisitNew(e) \/ VisitKnown(e)

\* The states on the stack from the top down to s.
Popped(s) == LET depth == CHOOSE i \in DOMAIN stack : stack[i] = s
             IN  [count |-> depth, states |-> {stack[i] : i \in 1 .. depth}]

CloseComponent(s) ==
  /\ infos[s].lowLink = infos[s].index
  /\ components' = Append(components, Popped(s).states)
  /\ stack' = SubSeq(stack, Popped(s).count + 1, Len(stack))

LeaveOpen(s) == infos[s].lowLink # infos[s].index /\ UNCHANGED <<components, stack>>

\* Taking the states of a component off the stack also clears their flags.
Cleared == [s \in DOMAIN infos |->
              [infos[s] EXCEPT !.onStack = \E i \in DOMAIN stack' : stack'[i] = s]]

\* Variant: the caller does not learn how far back its successor leads.
ReturnUnlinked ==
  /\ visits # <<>> /\ TopVisit.todo = {}
  /\ CloseComponent(TopVisit.state) \/ LeaveOpen(TopVisit.state)
  /\ infos' = Cleared /\ visits' = Tail(visits)
  /\ UNCHANGED automaton

ReturnVisit ==
  /\ visits # <<>> /\ TopVisit.todo = {}
  /\ CloseComponent(TopVisit.state) \/ LeaveOpen(TopVisit.state)
  /\ infos' = IF Len(visits) = 1 THEN Cleared
              ELSE Linked(Cleared, visits[2].state, infos[TopVisit.state].lowLink)
  /\ visits' = Tail(visits)
  /\ UNCHANGED automaton

PassNext == StartPass \/ VisitEdge \/ ReturnVisit

PassSpec == PassInit /\ [][PassNext]_passVars

-----------------------------------------------------------------------------
PassDone == DOMAIN infos # {} /\ visits = <<>>

(***************************************************************************)
(* The pass implements Components, which MarkUnsafeStates is modelled with:*)
(* at the end every reachable state is in a component and in only one.     *)
(***************************************************************************)
ResultIsComponents ==
  PassDone => /\ {components[i] : i \in DOMAIN components} = Components(automaton)
          /\ Len(components) = Cardinality(Components(automaton))

(***************************************************************************)
(* A component is closed after all those it leads to, and never before:    *)
(* one closed too early would miss the states on a way back to it.         *)
(***************************************************************************)
SuccessorsFirst ==
  \A i \in DOMAIN components : \A s \in components[i] : \A e \in Out(automaton, s) :
    \E k \in 1 .. i : e.target \in components[k]
=============================================================================
