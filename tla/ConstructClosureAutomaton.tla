----------------------- MODULE ConstructClosureAutomaton ----------------------
(***************************************************************************)
(* The filter ConstructClosureAutomaton and the ClosureAutomaton it fills  *)
(* (src/src/ConstructClosureAutomaton.cpp, Closure.cpp, Automaton.h): a    *)
(* subset construction over a labelled net.  A state of the automaton is a *)
(* closure, found again by its set of net states alone.  handleState works *)
(* through the observable transitions and then one time step, and calls    *)
(* itself for every closure it has not met; its activations are kept on a  *)
(* stack.  Closures with a bound violation are melted into one state,      *)
(* which is replaced by a larger one whenever a new violation is found.    *)
(***************************************************************************)
EXTENDS Closure

ASSUME FinalAssumption == IsFiniteSet(FinalMarkings)

VARIABLES phase,       \* "types", "build", "done", or "thrown"
          states,      \* m_states: [set of net states -> its flags]
          final,       \* the states with m_final set
          edges,       \* m_edges
          initial,     \* m_initialState, as a set of at most one key
          violating,   \* m_boundViolationState, as a set of at most one key
          stack        \* activations of handleState, innermost first
vars == <<phase, states, final, edges, initial, violating, stack>>

-----------------------------------------------------------------------------
\* The kinds of interface arcs a transition has.
Kinds(t) == {k \in {"InputSend", "InputRead", "OutputSend", "OutputRead"} :
               \/ k = "InputSend"  /\ IsInputSend(t)
               \/ k = "InputRead"  /\ IsInputRead(t)
               \/ k = "OutputSend" /\ IsOutputSend(t)
               \/ k = "OutputRead" /\ IsOutputRead(t)}

\* The check is an exclusive or of the four flags, true for one kind and for three.
TypeAccepted(t) == Cardinality(Kinds(t)) \in {0, 1, 3}

TypeOf(t) ==
  IF IsInputSend(t) THEN "InputSend" ELSE IF IsInputRead(t) THEN "InputRead"
  ELSE IF IsOutputSend(t) THEN "OutputSend" ELSE IF IsOutputRead(t) THEN "OutputRead"
  ELSE "Internal"

Observable == {t \in Transitions : TypeOf(t) # "Internal"}

TimeLabel == <<"1">>

\* A job of handleState is the position of an observable transition in the list, or time.
TimeJob == Len(TransitionList) + 1

Jobs == {i \in DOMAIN TransitionList : TransitionList[i] \in Observable} \cup {TimeJob}

JobLabel(j) == IF j = TimeJob THEN TimeLabel ELSE Label[TransitionList[j]]
JobType(j)  == IF j = TimeJob THEN "Time" ELSE TypeOf(TransitionList[j])

Fired(t, S) == {FireTransition(t, s) : s \in {r \in S : IsFireable(t, r)}}

\* Variant: time passes in net states that do not allow it.
SuccessorsUnasked(j, S) ==
  IF j = TimeJob THEN {MakeTimeStep(s) : s \in S} ELSE Fired(TransitionList[j], S)

SuccessorsFor(j, S) ==
  IF j = TimeJob THEN {MakeTimeStep(s) : s \in {r \in S : CanMakeTimeStep(r)}}
                 ELSE Fired(TransitionList[j], S)

-----------------------------------------------------------------------------
\* isFinalState walks the sorted final markings and the sorted net states in step.
AtEnd(at, markings, netStates) ==
  at.mark \notin DOMAIN markings \/ at.state \notin DOMAIN netStates

Advance(at, markings, netStates) ==
  IF AtEnd(at, markings, netStates) \/ netStates[at.state].place = markings[at.mark] THEN at
  ELSE IF MarkingLess(netStates[at.state].place, markings[at.mark])
       THEN [at EXCEPT !.state = @ + 1] ELSE [at EXCEPT !.mark = @ + 1]

IsFinalClosure(S) ==
  LET markings  == InOrder(FinalMarkings, MarkingLess)
      netStates == InOrder(S, StateLess)
      most == Cardinality(FinalMarkings) + Cardinality(S)
      Walk[i \in 0 .. most] ==
        IF i = 0 THEN [mark |-> 1, state |-> 1] ELSE Advance(Walk[i - 1], markings, netStates)
  IN  ~ AtEnd(Walk[most], markings, netStates)

\* connect: an edge with the same ends and label is kept, whatever its type.
ConnectOnce(E, source, label, type, target) ==   \* variant: one edge between two states
  IF \E e \in E : e.source = source /\ e.target = target THEN E
  ELSE E \cup {[source |-> source, label |-> label, type |-> type, target |-> target]}

Connect(E, source, label, type, target) ==
  IF \E e \in E : e.source = source /\ e.target = target /\ e.label = label THEN E
  ELSE E \cup {[source |-> source, label |-> label, type |-> type, target |-> target]}

AddState(f, key, loop, violation) ==
  [k \in DOMAIN f \cup {key} |->
     IF k = key THEN [loop |-> loop, violation |-> violation] ELSE f[k]]

\* An activation of handleState has a state in hand and jobs left, and does them in order.
Activation(key) == [state |-> key, left |-> Jobs]

-----------------------------------------------------------------------------
Init == /\ phase = "types"
        /\ states = [k \in {} |-> TRUE]
        /\ final = {} /\ edges = {} /\ initial = {} /\ violating = {} /\ stack = <<>>

\* updateTransitionTypes throws, or buildAutomaton sets up the initial state.
Start ==
  /\ phase = "types"
  /\ IF \A t \in Transitions : TypeAccepted(t)
     THEN LET c == CloseOver({InitialState})
          IN  /\ states' = AddState(states, c.states, c.loop, c.violation)
              /\ initial' = {c.states}
              /\ stack' = <<Activation(c.states)>>
              /\ phase' = "build"
     ELSE phase' = "thrown" /\ UNCHANGED <<states, initial, stack>>
  /\ UNCHANGED <<final, edges, violating>>

Top   == Head(stack)
Below == Tail(stack)
Job   == CHOOSE j \in Top.left : \A k \in Top.left : j <= k

JobAgain == stack            \* variant: the iterator is not advanced
JobDone == <<[Top EXCEPT !.left = @ \ {Job}]>> \o Below

Working == phase = "build" /\ stack # <<>> /\ Top.left # {}

\* findOrCreateState found the closure: only an edge is added.
KnownSuccessor(c) ==
  /\ ~ c.violation /\ c.states \in DOMAIN states
  /\ edges' = Connect(edges, Top.state, JobLabel(Job), JobType(Job), c.states)
  /\ stack' = JobDone
  /\ UNCHANGED <<phase, states, final, initial, violating>>

\* Variant: the state in hand is left when the first new closure turns up.
NewSuccessorOnly(c) ==
  /\ ~ c.violation /\ c.states \notin DOMAIN states
  /\ states' = AddState(states, c.states, c.loop, FALSE)
  /\ edges' = Connect(edges, Top.state, JobLabel(Job), JobType(Job), c.states)
  /\ final' = IF IsFinalClosure(c.states) THEN final \cup {c.states} ELSE final
  /\ stack' = <<Activation(c.states)>> \o Below
  /\ UNCHANGED <<phase, initial, violating>>

\* A closure met for the first time is handled at once, before the remaining jobs.
NewSuccessor(c) ==
  /\ ~ c.violation /\ c.states \notin DOMAIN states
  /\ states' = AddState(states, c.states, c.loop, FALSE)
  /\ edges' = Connect(edges, Top.state, JobLabel(Job), JobType(Job), c.states)
  /\ final' = IF IsFinalClosure(c.states) THEN final \cup {c.states} ELSE final
  /\ stack' = <<Activation(c.states)>> \o JobDone
  /\ UNCHANGED <<phase, initial, violating>>

\* boundViolationState, first call: createState throws if the key exists.
FirstViolation(c) ==
  /\ c.violation /\ violating = {}
  /\ IF c.states \in DOMAIN states
     THEN phase' = "thrown" /\ UNCHANGED <<states, edges, violating, stack>>
     ELSE /\ states' = AddState(states, c.states, c.loop, TRUE)
          /\ violating' = {c.states}
          /\ edges' = Connect(edges, Top.state, JobLabel(Job), JobType(Job), c.states)
          /\ stack' = JobDone
          /\ UNCHANGED phase
  /\ UNCHANGED <<final, initial>>

RenamedNot(key, old, new) == key          \* variant: references are left alone
Renamed(key, old, new) == IF key = old THEN new ELSE key

\* createState is called for a union that has grown; variant: for any.
TakenEvenIfSame(old, new) == new \in DOMAIN states
Taken(old, new) == new # old /\ new \in DOMAIN states

\* Later calls: replaceState moves edges and marks from the old state to the union.
FurtherViolation(c) ==
  /\ c.violation /\ violating # {}
  /\ LET old == CHOOSE k \in violating : TRUE
         new == old \cup c.states
         moved == {[e EXCEPT !.source = Renamed(@, old, new),
                             !.target = Renamed(@, old, new)] : e \in edges}
     IN  IF Taken(old, new)
         THEN phase' = "thrown" /\ UNCHANGED <<states, final, edges, initial, violating, stack>>
         ELSE /\ states' = IF new = old THEN states
                           ELSE AddState([k \in DOMAIN states \ {old} |-> states[k]],
                                         new, FALSE, TRUE)
              /\ violating' = {new}
              /\ edges' = Connect(moved, Renamed(Top.state, old, new),
                                  JobLabel(Job), JobType(Job), new)
              /\ initial' = {Renamed(k, old, new) : k \in initial}
              /\ final' = {Renamed(k, old, new) : k \in final}
              /\ stack' = JobDone
              /\ UNCHANGED phase

Return ==
  /\ phase = "build" /\ stack # <<>> /\ Top.left = {}
  /\ stack' = Below
  /\ phase' = IF Below = <<>> THEN "done" ELSE "build"
  /\ UNCHANGED <<states, final, edges, initial, violating>>

\* One turn of handleState: close over the successors of the next job, and file the closure.
HandleSuccessors ==
  /\ Working
  /\ \E c \in {CloseOver(SuccessorsFor(Job, Top.state))} :
       KnownSuccessor(c) \/ NewSuccessor(c) \/ FirstViolation(c) \/ FurtherViolation(c)

Next == Start \/ HandleSuccessors \/ Return

Spec == Init /\ [][Next]_vars /\ WF_vars(Next)

-----------------------------------------------------------------------------
Keys == DOMAIN states

(***************************************************************************)
(* Pointers into the automaton stay alive while the bound violation state  *)
(* is replaced and deleted: every edge joins two states of the automaton,  *)
(* and so do the initial state, the bound violation state, the final       *)
(* states and every activation of handleState, which goes on using its     *)
(* state after inner calls have come back.                                 *)
(***************************************************************************)
NothingDangles ==
  /\ \A e \in edges : e.source \in Keys /\ e.target \in Keys
  /\ initial \cup violating \cup final \subseteq Keys
  /\ \A i \in DOMAIN stack : stack[i].state \in Keys

(***************************************************************************)
(* The finished automaton misses nothing the net can do: whatever a net    *)
(* state of a closure can do visibly, an edge with that label leads to a   *)
(* closure holding the resulting net state, or to the bound violation; and *)
(* what it can do silently stays in the closure, unless a bound was broken *)
(* on the way and the search given up.                                     *)
(***************************************************************************)
Covers(key, label, result) ==
  \E e \in edges : /\ e.source = key /\ e.label = label
                   /\ result \in e.target \/ e.target \in violating

TracksNet ==
  phase = "done" =>
    \A key \in Keys \ violating : \A s \in key :
      /\ \A t \in Observable : IsFireable(t, s) => Covers(key, Label[t], FireTransition(t, s))
      /\ CanMakeTimeStep(s) => Covers(key, TimeLabel, MakeTimeStep(s))
      /\ \A t \in Silent : IsFireable(t, s) =>
           FireTransition(t, s) \in key \/ states[key].violation

(***************************************************************************)
(* And it invents nothing: every net state of a closure reached by an edge *)
(* is a visible step with that label from a net state of the source,       *)
(* followed by silent firings.                                             *)
(***************************************************************************)
VisibleSteps(label, S) ==
  {FireTransition(x[1], x[2]) :
     x \in {y \in Observable \X S : Label[y[1]] = label /\ IsFireable(y[1], y[2])}}
  \cup {MakeTimeStep(s) : s \in {r \in S : label = TimeLabel /\ CanMakeTimeStep(r)}}

InventsNothing ==
  phase = "done" =>
    \A e \in edges : e.target \notin violating =>
      e.target \subseteq SilentReach(VisibleSteps(e.label, e.source))

(***************************************************************************)
(* What the filters behind the construction may rely on, and               *)
(* MCMarkUnsafeStates enumerates: every state has an edge for each job,    *)
(* the closure without net states leads to itself alone, the bound         *)
(* violation, replaced again and again, leads nowhere, every other state   *)
(* is entered from another, and the walk of isFinalState over two sorted   *)
(* lists has found every closure with a final marking except the initial   *)
(* one, which is never marked final.                                       *)
(***************************************************************************)
\* Labels as ConstructMaximalNet gives them: jobs with the same label are of the same type.
LabelsTellTypes == \A i, j \in Jobs : JobLabel(i) = JobLabel(j) => JobType(i) = JobType(j)

Entered == initial \cup {e.target : e \in {f \in edges : f.source # f.target}}

ResultIsComplete ==
  phase = "done" =>
    /\ \A key \in Keys \ violating, j \in Jobs :
         \E e \in edges : e.source = key /\ e.label = JobLabel(j) /\ e.type = JobType(j)
    /\ \A e \in edges : e.source = {} => e.target = {}
    /\ \A e \in edges : e.source \notin violating
    /\ Keys \subseteq Entered
    /\ final \ violating =
         {key \in Keys \ (initial \cup violating) : \E s \in key : IsFinalMarking(s.place)}

(***************************************************************************)
(* createState is never asked for a closure that exists, provided the net  *)
(* breaks no bound before it does anything visible.                        *)
(***************************************************************************)
NeverThrowsTwice ==
  ((\A s \in SilentReach({InitialState}) : IsBounded(s)) /\ (\A t \in Transitions : TypeAccepted(t)))
     => phase # "thrown"

\* The recursion ends: there are finitely many closures, because clocks stop.
ConstructionEnds == <>(phase \in {"done", "thrown"})
=============================================================================
