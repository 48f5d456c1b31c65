----------------------------- MODULE ClosureGraph -----------------------------
(***************************************************************************)
(* A finished ClosureAutomaton as its filters see it (src/src/Closure.cpp, *)
(* Automaton.h): what a closure holds no longer matters, only whether it   *)
(* is empty, has the loop flag or breaks a bound.  An automaton is a       *)
(* record of states, initial (a set of at most one state: the pointer may  *)
(* be NULL), final, loop, violation, and edges [source, type, target].     *)
(***************************************************************************)
EXTENDS Naturals, FiniteSets

CONSTANTS EmptyState,    \* the state whose closure has no net states
          Automata       \* the automata ConstructClosureAutomaton may hand over

\* What every ClosureAutomaton has: finitely many states, at most one of them initial, which
\* holds the initial net state or breaks a bound, edges that join states of it, and the closure
\* without net states neither breaks a bound nor has the loop flag.
ASSUME AutomataAssumption ==
  \A a \in Automata :
    /\ a = [states |-> a.states, initial |-> a.initial, final |-> a.final,
            loop |-> a.loop, violation |-> a.violation, edges |-> a.edges]
    /\ IsFiniteSet(a.states) /\ a.initial \subseteq a.states \ {EmptyState}
    /\ \A s, t \in a.initial : s = t
    /\ \A e \in a.edges : e.source \in a.states /\ e.target \in a.states
    /\ EmptyState \notin a.violation \cup a.loop

VARIABLE automaton       \* the automaton at hand

ServiceTypes == {"OutputSend", "InputRead"}
PartnerTypes == {"InputSend", "OutputRead"}

IsServiceAction(e) == e.type \in ServiceTypes
IsPartnerAction(e) == e.type \in PartnerTypes
IsTimeAction(e)    == e.type = "Time"
IsLoop(e)          == e.source = e.target
ToEmpty(e)         == e.target = EmptyState

Out(a, s) == {e \in a.edges : e.source = s}
In(a, s)  == {e \in a.edges : e.target = s}

\* The service takes no action of its own here and time does not move on.
IsStable(a, s) ==
  \A e \in Out(a, s) :
    ToEmpty(e) \/ ~ (IsServiceAction(e) \/ (IsTimeAction(e) /\ ~ IsLoop(e)))

IsDeadlock(a, s) == \A e \in Out(a, s) : ToEmpty(e) \/ IsLoop(e)

-----------------------------------------------------------------------------
Successors(a, P) == {e.target : e \in {f \in a.edges : f.source \in P}}

\* The states that a set of states leads to.
ReachFrom(a, S) ==
  LET R[n \in 0 .. Cardinality(a.states)] ==
        IF n = 0 THEN S ELSE UNION {P \cup Successors(a, P) : P \in {R[n - 1]}}
  IN  R[Cardinality(a.states)]

\* computeComponents: the strongly connected components reachable from the initial state.
Component(a, s) == {r \in ReachFrom(a, {s}) : s \in ReachFrom(a, {r})}
Components(a)   == {Component(a, s) : s \in ReachFrom(a, a.initial)}

\* deleteState for every state of D: the edges go with their ends.
DeleteStates(a, D) ==
  [a EXCEPT !.states = @ \ D, !.initial = @ \ D, !.final = @ \ D, !.loop = @ \ D,
            !.violation = @ \ D,
            !.edges = {e \in @ : e.source \notin D /\ e.target \notin D}]

\* findUnreachableStates: states all of whose other predecessors are unreachable, over and over.
UnenteredInitial(a, U) ==       \* variant: the initial state is not spared
  {s \in a.states : \A e \in In(a, s) : IsLoop(e) \/ e.source \in U}

Unentered(a, U) ==
  {s \in a.states \ a.initial : \A e \in In(a, s) : IsLoop(e) \/ e.source \in U}

UnreachableStates(a) ==
  LET U[n \in 0 .. Cardinality(a.states)] ==
        IF n = 0 THEN {} ELSE UNION {Unentered(a, P) : P \in {U[n - 1]}}
  IN  U[Cardinality(a.states)]
=============================================================================
