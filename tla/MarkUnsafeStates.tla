---------------------------- MODULE MarkUnsafeStates ---------------------------
(***************************************************************************)
(* The filter MarkUnsafeStates (src/src/MarkUnsafeStates.cpp), and the     *)
(* rest of net2cl behind it (src/apps/net2cl.cpp): RemoveUnsafeStates and  *)
(* RemoveUnreachableStates.  Marking has three parts: components without a *)
(* way to finish become unsafe; then the deadlocks with a bound violation  *)
(* or the loop flag; and from those, backwards in rounds, each predecessor *)
(* that its successors decide.  A verdict is written in place, so that the *)
(* next predecessor of the same round already sees it.  The sets are       *)
(* walked in the order of the closures, which the model leaves open.       *)
(***************************************************************************)
EXTENDS ClosureGraph

VARIABLES given,      \* the automaton as it was handed over
          safety,     \* m_safety of each state
          phase,      \* "deadEnds", "deadlocks", "rounds", "marked", "safeOnly", "done"
          marked,     \* the states whose predecessors this round visits
          result,     \* the states it has marked so far
          waiting,    \* undetermined predecessors of the state in hand
          remarked    \* states setSafe was called on although they had a verdict
vars == <<given, automaton, safety, phase, marked, result, waiting, remarked>>

Known(v, s)  == s = EmptyState \/ v[s] # "unknown"
IsSafe(v, s) == s = EmptyState \/ v[s] = "safe"
IsUnsafe(v, s) == Known(v, s) /\ ~ IsSafe(v, s)

Condemn(v, S) == [s \in DOMAIN v |-> IF s \in S THEN "unsafe" ELSE v[s]]

-----------------------------------------------------------------------------
IsDeadEndComponent(a, v, C) ==
  \A s \in C :
    /\ ~ Known(v, s)
    /\ s \notin a.final /\ s # EmptyState /\ s \notin a.violation
    /\ \A e \in Out(a, s) :
         ToEmpty(e) \/ e.target \in a.violation \/ e.target \in C \/ ~ Known(v, e.target)
           \/ ~ IsSafe(v, e.target)

InitialUnsafe(a) == {s \in a.states : IsDeadlock(a, s) /\ s \in a.violation \cup a.loop}

AllPredecessors(a, v, s) == {e.source : e \in In(a, s)}     \* variant: without the check
UndeterminedPredecessors(a, v, s) == {e.source : e \in {f \in In(a, s) : ~ Known(v, f.source)}}

(***************************************************************************)
(* determineSafety.  A loop counts as a time edge whatever its type.       *)
(***************************************************************************)
Proper(a, s) == {e \in Out(a, s) : ~ IsLoop(e) /\ ~ ToEmpty(e)}
Service(a, s) == {e \in Proper(a, s) : IsServiceAction(e)}
Partner(a, s) == {e \in Proper(a, s) : IsPartnerAction(e)}
Time(a, s)    == {e \in Proper(a, s) : IsTimeAction(e)}
HasTimeEdge(a, s) == Time(a, s) # {} \/ \E e \in Out(a, s) : IsLoop(e)

SomeSafe(v, E)  == \E e \in E : IsSafe(v, e.target)
AllSafe(v, E)   == \A e \in E : IsSafe(v, e.target)
AllUnsafe(v, E) == \A e \in E : IsUnsafe(v, e.target)

IsFlawed(a, s) == s \in a.violation \cup a.loop

IsLost(a, v, s) ==
  \/ \E e \in Service(a, s) : IsUnsafe(v, e.target)
  \/ /\ AllUnsafe(v, Partner(a, s))
     /\ HasTimeEdge(a, s) /\ AllUnsafe(v, Time(a, s))

\* Variant: an undetermined service action is no obstacle.
IsSavedEarly(a, v, s) ==
  SomeSafe(v, Partner(a, s)) \/ ~ HasTimeEdge(a, s) \/ SomeSafe(v, Time(a, s))

IsSaved(a, v, s) ==
  /\ AllSafe(v, Service(a, s))
  /\ SomeSafe(v, Partner(a, s)) \/ ~ HasTimeEdge(a, s) \/ SomeSafe(v, Time(a, s))

\* Variant: a final state is safe, stable or not.
VerdictFinal(a, v, s) ==
  IF IsFlawed(a, s) THEN "unsafe"
  ELSE IF s \in a.final THEN "safe"
  ELSE IF IsLost(a, v, s) THEN "unsafe"
  ELSE IF IsSaved(a, v, s) THEN "safe" ELSE "unknown"

Verdict(a, v, s) ==
  IF IsFlawed(a, s) THEN "unsafe"
  ELSE IF s \in a.final THEN IF IsStable(a, s) THEN "safe" ELSE "unsafe"
  ELSE IF IsLost(a, v, s) THEN "unsafe"
  ELSE IF IsSaved(a, v, s) THEN "safe" ELSE "unknown"

-----------------------------------------------------------------------------
Init ==
  /\ given \in Automata /\ automaton = given
  /\ safety = [s \in given.states |-> "unknown"]
  /\ phase = "deadEnds"
  /\ marked = {} /\ result = {} /\ waiting = {} /\ remarked = {}

DeadEnds == {C \in Components(automaton) : IsDeadEndComponent(automaton, safety, C)}

MarkDeadEnd ==
  /\ phase = "deadEnds"
  /\ \E C \in DeadEnds : safety' = Condemn(safety, C)
  /\ UNCHANGED <<given, automaton, phase, marked, result, waiting, remarked>>

NoDeadEnd ==
  /\ phase = "deadEnds" /\ DeadEnds = {}
  /\ phase' = "deadlocks"
  /\ UNCHANGED <<given, automaton, safety, marked, result, waiting, remarked>>

FindInitialUnsafeStates ==
  /\ phase = "deadlocks"
  /\ LET found == InitialUnsafe(automaton)
     IN  /\ safety' = Condemn(safety, found)
         /\ remarked' = {s \in found : Known(safety, s)}
         /\ marked' = found
  /\ phase' = "rounds"
  /\ UNCHANGED <<given, automaton, result, waiting>>

\* markPredecessors takes the next state and finds its predecessors without verdict.
TakeMarked ==
  /\ phase = "rounds" /\ waiting = {}
  /\ \E s \in marked : /\ marked' = marked \ {s}
                       /\ waiting' = UndeterminedPredecessors(automaton, safety, s)
  /\ UNCHANGED <<given, automaton, safety, phase, result, remarked>>

\* Variant: only safe states are passed on to the next round.
DetermineSafetyOnly ==
  /\ phase = "rounds"
  /\ \E s \in waiting :
       LET verdict == Verdict(automaton, safety, s)
       IN  /\ waiting' = waiting \ {s}
           /\ safety' = [safety EXCEPT ![s] = verdict]
           /\ result' = IF verdict = "safe" THEN result \cup {s} ELSE result
  /\ UNCHANGED <<given, automaton, phase, marked, remarked>>

DetermineSafety ==
  /\ phase = "rounds"
  /\ \E s \in waiting :
       LET verdict == Verdict(automaton, safety, s)
       IN  /\ waiting' = waiting \ {s}
           /\ safety' = [safety EXCEPT ![s] = verdict]
           /\ result' = IF verdict = "unknown" THEN result ELSE result \cup {s}
  /\ UNCHANGED <<given, automaton, phase, marked, remarked>>

NextRound ==
  /\ phase = "rounds" /\ marked = {} /\ waiting = {}
  /\ marked' = result /\ result' = {}
  /\ phase' = IF result = {} THEN "marked" ELSE "rounds"
  /\ UNCHANGED <<given, automaton, safety, waiting, remarked>>

\* net2cl leaves the unsafe states in when it is asked to.
KeepUnsafeStates ==
  /\ phase = "marked" /\ phase' = "safeOnly"
  /\ UNCHANGED <<given, automaton, safety, marked, result, waiting, remarked>>

RemoveUnsafeStates ==
  /\ phase = "marked" /\ phase' = "safeOnly"
  /\ automaton' = DeleteStates(automaton, {s \in automaton.states : IsUnsafe(safety, s)})
  /\ UNCHANGED <<given, safety, marked, result, waiting, remarked>>

RemoveUnreachableStates ==
  /\ phase = "safeOnly" /\ phase' = "done"
  /\ automaton' = DeleteStates(automaton, UnreachableStates(automaton))
  /\ UNCHANGED <<given, safety, marked, result, waiting, remarked>>

Marking == \/ MarkDeadEnd \/ NoDeadEnd \/ FindInitialUnsafeStates
           \/ TakeMarked \/ DetermineSafety \/ NextRound

Next == Marking \/ KeepUnsafeStates \/ RemoveUnsafeStates \/ RemoveUnreachableStates

Spec == Init /\ [][Next]_vars /\ WF_vars(Next)

-----------------------------------------------------------------------------
(***************************************************************************)
(* A verdict is final: no later part of the marking, and no other          *)
(* predecessor of the same round, turns it round.                          *)
(***************************************************************************)
VerdictStays ==
  [][\A s \in given.states : Known(safety, s) => safety'[s] = safety[s]]_vars

(***************************************************************************)
(* What "safe" is worth: at a safe state that is not final the service has *)
(* no action that leads anywhere but to safe states, and the state can be  *)
(* left for a safe one or time cannot pass; a final one is stable.         *)
(* Verdicts given from half the evidence would break this later.           *)
(***************************************************************************)
SafeIsDeserved ==
  \A s \in given.states \ {EmptyState} : IsSafe(safety, s) =>
    /\ ~ IsFlawed(given, s)
    /\ IF s \in given.final THEN IsStable(given, s) ELSE IsSaved(given, safety, s)

(***************************************************************************)
(* The verdicts do not depend on the order in which a round visits states, *)
(* although each is given on what is known at that moment: they are the    *)
(* least fixed point of determineSafety over the states with a successor   *)
(* that has got a verdict after the dead ends.                             *)
(***************************************************************************)
DeadEndVerdicts ==
  LET v == [s \in given.states |-> "unknown"]
  IN  Condemn(v, UNION {C \in Components(given) : IsDeadEndComponent(given, v, C)})

FixedPoint ==
  LET start == [verdict |-> Condemn(DeadEndVerdicts, InitialUnsafe(given)),
                touched |-> InitialUnsafe(given)]
      Judged(r) == {s \in given.states :
                      /\ ~ Known(r.verdict, s)
                      /\ \E e \in Out(given, s) : e.target \in r.touched
                      /\ Verdict(given, r.verdict, s) # "unknown"}
      R[n \in 0 .. Cardinality(given.states)] ==
        IF n = 0 THEN start
        ELSE LET r == R[n - 1]
                 judged == Judged(r)
             IN  [verdict |-> [s \in given.states |->
                                 IF s \in judged THEN Verdict(given, r.verdict, s)
                                                 ELSE r.verdict[s]],
                  touched |-> r.touched \cup judged]
  IN  R[Cardinality(given.states)].verdict

OrderIrrelevant == phase = "marked" => safety = FixedPoint

(***************************************************************************)
(* The filters take nothing from the service: whatever it could do at a    *)
(* safe, not final state of the result it could do before and still can.   *)
(***************************************************************************)
ServiceKeepsItsActions ==
  phase = "done" =>
    \A s \in automaton.states \ {EmptyState} :
      (IsSafe(safety, s) /\ s \notin given.final) =>
        Service(automaton, s) = Service(given, s)

\* What can be reached without the unsafe states is still there.
ReachableStatesStay ==
  phase = "done" =>
    LET unsafe == {s \in given.states : IsUnsafe(safety, s)}
    IN  ReachFrom(DeleteStates(given, unsafe), given.initial \ unsafe) \subseteq automaton.states

\* setSafe asserts that the state has no verdict yet (Closure.cpp line 94).
SetSafeOnce == remarked = {}

\* The three filters come to an end: every round but the last gives a verdict.
FilteringEnds == <>(phase = "done")
=============================================================================
