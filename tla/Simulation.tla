------------------------------- MODULE Simulation -------------------------------
(***************************************************************************)
(* Automaton::simulates and Automaton::weaklySimulates (src/src/           *)
(* Automaton.h), as chksim calls them: does one automaton simulate         *)
(* another?  Both are one recursion over pairs of states.  A pair met      *)
(* before is taken for granted, a label the simulator cannot match ends    *)
(* everything, and only one of several matching successors is ever tried:  *)
(* the first in the order of the edges, which the model leaves open.       *)
(* An automaton is a record of states, initial (a set, empty when the      *)
(* pointer is NULL) and edges [source, label, target].                     *)
(***************************************************************************)
EXTENDS Naturals, FiniteSets, Sequences

CONSTANTS Pairs,        \* pairs <<simulator, simulatee>> of automata
          Unobservable  \* the empty label, which marks the unobservable edges

\* What Automaton makes sure of: edges join its states, and one of them may be initial.
IsAutomaton(a) == /\ IsFiniteSet(a.states)
                  /\ a.initial \subseteq a.states /\ \A s, r \in a.initial : s = r
                  /\ \A e \in a.edges : e.source \in a.states /\ e.target \in a.states

ASSUME PairsAssumption == \A p \in Pairs : IsAutomaton(p[1]) /\ IsAutomaton(p[2])

VARIABLES mine, other,  \* the simulator and the simulatee
          weak,         \* which of the two checks was called
          phase,        \* "start", "run", "yes", "no" or "overflow"
          relation,     \* the pairs of states inserted so far
          calls         \* activations with the edges still to visit, innermost first
vars == <<mine, other, weak, phase, relation, calls>>

Out(a, s) == {e \in a.edges : e.source = s}

-----------------------------------------------------------------------------
\* findDirectSuccessor may return any of these; the label alone is compared.
DirectSuccessors(a, s, label) == {e.target : e \in {f \in Out(a, s) : f.label = label}}

UnobservableSuccessors(a, s) == DirectSuccessors(a, s, Unobservable)

(***************************************************************************)
(* findIndirectSuccessor: a direct successor if there is one, otherwise    *)
(* what the same search finds behind the first unobservable edge that      *)
(* leads to anything.                                                      *)
(***************************************************************************)
IndirectSuccessors(a, s, label) ==
  LET F[n \in 0 .. Cardinality(a.states)] ==
        [r \in a.states |->
           IF n = 0 \/ DirectSuccessors(a, r, label) # {} THEN DirectSuccessors(a, r, label)
           ELSE UNION {F[n - 1][q] : q \in UnobservableSuccessors(a, r)}]
  IN  F[Cardinality(a.states)][s]

\* The search remembers no state: it never returns once it has found an unobservable cycle.
SearchIsEndless(a, s, label) ==
  LET E[n \in 0 .. Cardinality(a.states)] ==
        {r \in a.states :
           /\ DirectSuccessors(a, r, label) = {}
           /\ n > 0 => UnobservableSuccessors(a, r) \cap E[n - 1] # {}}
  IN  s \in E[Cardinality(a.states)]

-----------------------------------------------------------------------------
Init == /\ \E p \in Pairs : mine = p[1] /\ other = p[2]
        /\ weak \in BOOLEAN
        /\ phase = "start" /\ relation = {} /\ calls = <<>>

\* One call: a known pair returns true at once, a new one is worked through.
Enter(m, o, callers) ==
  /\ relation' = relation \cup {<<m, o>>}
  /\ calls' = IF <<m, o>> \in relation THEN callers
              ELSE <<[mine |-> m, other |-> o, todo |-> Out(other, o)]>> \o callers

Start ==
  /\ phase = "start"
  /\ IF mine.initial = {} \/ other.initial = {}
     THEN phase' = "no" /\ UNCHANGED <<relation, calls>>
     ELSE /\ \E m \in mine.initial, o \in other.initial : Enter(m, o, <<>>)
          /\ phase' = "run"
  /\ UNCHANGED <<mine, other, weak>>

Top == Head(calls)
AfterOne(e)  == <<[Top EXCEPT !.todo = {}]>> \o Tail(calls)    \* variant: the first edge decides
After(e) == <<[Top EXCEPT !.todo = @ \ {e}]>> \o Tail(calls)

Running == phase = "run" /\ calls # <<>>

\* The successors of the simulator the code may go on with.
Matches(e) == IF weak THEN IndirectSuccessors(mine, Top.mine, e.label)
                      ELSE DirectSuccessors(mine, Top.mine, e.label)

StaysNever(e) == FALSE     \* variant: unobservable edges are matched as well
StaysPut(e) == weak /\ e.label = Unobservable

FollowAlone(e) ==
  /\ StaysPut(e)
  /\ Enter(Top.mine, e.target, After(e))
  /\ UNCHANGED phase

FollowTogether(e) ==
  /\ ~ StaysPut(e)
  /\ \E m \in Matches(e) : Enter(m, e.target, After(e))
  /\ UNCHANGED phase

\* No match: false is handed down through all the callers.
Fail(e) ==
  /\ ~ StaysPut(e) /\ Matches(e) = {}
  /\ ~ (weak /\ SearchIsEndless(mine, Top.mine, e.label))
  /\ phase' = "no" /\ calls' = <<>>
  /\ UNCHANGED relation

\* The order of the edges sends the search round an unobservable cycle.
Overflow(e) ==
  /\ weak /\ e.label # Unobservable
  /\ SearchIsEndless(mine, Top.mine, e.label)
  /\ phase' = "overflow" /\ calls' = <<>>
  /\ UNCHANGED relation

VisitEdge ==
  /\ Running
  /\ \E e \in Top.todo : FollowAlone(e) \/ FollowTogether(e) \/ Fail(e) \/ Overflow(e)
  /\ UNCHANGED <<mine, other, weak>>

Return ==
  /\ Running /\ Top.todo = {}
  /\ calls' = Tail(calls)
  /\ phase' = IF Tail(calls) = <<>> THEN "yes" ELSE "run"
  /\ UNCHANGED <<mine, other, weak, relation>>

Next == Start \/ VisitEdge \/ Return

Spec == Init /\ [][Next]_vars

-----------------------------------------------------------------------------
(***************************************************************************)
(* For comparison, simulation as it is defined in the literature.          *)
(***************************************************************************)
Quietly(a, S) ==
  LET Q[n \in 0 .. Cardinality(a.states)] ==
        IF n = 0 THEN S
        ELSE LET P == Q[n - 1] IN P \cup UNION {UnobservableSuccessors(a, s) : s \in P}
  IN  Q[Cardinality(a.states)]

\* What a state of the simulator can do for a label: quiet steps before it, when weak.
Answers(m, label) ==
  UNION {DirectSuccessors(mine, q, label) : q \in IF weak THEN Quietly(mine, {m}) ELSE {m}}

Holds(R, m, o) ==
  \A e \in Out(other, o) :
    \E n \in IF ~ weak THEN Answers(m, e.label)
             ELSE IF e.label = Unobservable THEN Quietly(mine, {m})
             ELSE Quietly(mine, Answers(m, e.label)) : <<n, e.target>> \in R

GreatestSimulation ==
  LET All == mine.states \X other.states
      G[n \in 0 .. Cardinality(All)] ==
        IF n = 0 THEN All
        ELSE LET R == G[n - 1] IN {mo \in R : Holds(R, mo[1], mo[2])}
  IN  G[Cardinality(All)]

(***************************************************************************)
(* Taking a pair for granted while it is still being checked is sound: if  *)
(* the answer is yes, the pairs assumed are a simulation that relates the  *)
(* initial states.                                                         *)
(***************************************************************************)
AcceptedIsSimulation ==
  phase = "yes" => /\ mine.initial \X other.initial \subseteq relation
                   /\ \A mo \in relation : Holds(relation, mo[1], mo[2])

Deterministic ==
  \A m \in mine.states, e \in other.edges :
     (~ weak \/ e.label # Unobservable) => Cardinality(Answers(m, e.label)) <= 1

HasQuietCycle ==
  \E s \in mine.states : s \in Quietly(mine, UnobservableSuccessors(mine, s))

(***************************************************************************)
(* A no is right as well when there is never more than one answer to a     *)
(* label.  With several, the successor tried may be the wrong one.  No     *)
(* answer at all, because the recursion overflows the stack, comes only    *)
(* from the weak check of a simulator with a cycle of unobservable edges.  *)
(***************************************************************************)
RejectedIsJust ==
  /\ (phase = "no" /\ Deterministic) =>
       \/ mine.initial = {} \/ other.initial = {}
       \/ \A m \in mine.initial, o \in other.initial : <<m, o>> \notin GreatestSimulation
  /\ phase = "overflow" => weak /\ HasQuietCycle
=============================================================================
