------------------------- MODULE MarkUnsafeStates_proof -------------------------
(***************************************************************************)
(* What holds for every closure automaton, in whatever order sets and      *)
(* edges are gone through, of the filters of net2cl, of the region         *)
(* automaton, and of the pass that finds components.                       *)
(*                                                                         *)
(* The filter MarkUnsafeStates: a verdict is final, "safe" is deserved,    *)
(* and "unsafe" is what is left.  determineSafety only asks questions      *)
(* whose answers stay: more safe states can only make a state safe, and no *)
(* state that has a verdict is judged again.  So every order comes to the  *)
(* least fixed point.  What the filters delete is not reachable then.      *)
(***************************************************************************)
EXTENDS MarkUnsafeStates, ConstructRegionAutomaton, ComputeComponents, FiniteSetTheorems,
        SequenceTheorems, WellFoundedInduction, TLAPS

TypeOK ==
  /\ given \in Automata
  /\ safety \in [given.states -> {"unknown", "safe", "unsafe"}]
  /\ waiting \subseteq given.states

AutomatonKept  == phase \in {"deadEnds", "deadlocks", "rounds", "marked"} => automaton = given

\* The dead ends and deadlocks are found before anything is safe.
NothingSafeYet ==
  phase \in {"deadEnds", "deadlocks"} =>
    /\ waiting = {}
    /\ \A s \in given.states : safety[s] # "safe"

\* What waits to be judged has no verdict: it was asked for when the state was put there,
\* and only judging the state itself gives it one.
WaitingUnknown == \A s \in waiting : ~ Known(safety, s)

IInv == TypeOK /\ AutomatonKept /\ NothingSafeYet /\ WaitingUnknown /\ SafeIsDeserved

-----------------------------------------------------------------------------
\* More safe states save what was saved before.
LEMMA SavedStaysSaved ==
  ASSUME NEW a, NEW v, NEW w, NEW s,
         \A e \in a.edges : IsSafe(v, e.target) => IsSafe(w, e.target),
         IsSaved(a, v, s)
  PROVE  IsSaved(a, w, s)
<1>1. \A e \in Proper(a, s) : e \in a.edges
  BY DEF Proper, Out
<1>2. Service(a, s) \subseteq a.edges /\ Partner(a, s) \subseteq a.edges /\ Time(a, s) \subseteq a.edges
  BY <1>1 DEF Service, Partner, Time
<1> QED
  BY <1>2 DEF IsSaved, AllSafe, SomeSafe

\* A safe state has deserved it as long as it stays safe and others do.
LEMMA DesertStays ==
  ASSUME IInv, given' = given, NEW s \in given.states \ {EmptyState}, IsSafe(safety, s),
         \A r \in given.states : IsSafe(safety, r) => IsSafe(safety', r)
  PROVE  /\ ~ IsFlawed(given, s)
         /\ IF s \in given.final THEN IsStable(given, s) ELSE IsSaved(given, safety', s)
<1>1. \A e \in given.edges : IsSafe(safety, e.target) => IsSafe(safety', e.target)
  BY AutomataAssumption DEF IInv, TypeOK
<1> QED
  BY <1>1, SavedStaysSaved DEF IInv, SafeIsDeserved

\* What condemning does.
LEMMA Condemned ==
  ASSUME IInv, NEW S
  PROVE  /\ Condemn(safety, S) \in [given.states -> {"unknown", "safe", "unsafe"}]
         /\ \A s \in given.states :
              Condemn(safety, S)[s] = IF s \in S THEN "unsafe" ELSE safety[s]
BY DEF Condemn, IInv, TypeOK

\* A dead end has no verdict yet.
LEMMA MarkDeadEndIInv ==
  ASSUME IInv, MarkDeadEnd
  PROVE  IInv' /\ \A s \in given.states : Known(safety, s) => safety'[s] = safety[s]
<1>1. PICK C \in DeadEnds : safety' = Condemn(safety, C)
  BY DEF MarkDeadEnd
<1>2. /\ phase = "deadEnds"
      /\ UNCHANGED <<given, automaton, phase, marked, result, waiting, remarked>>
  BY DEF MarkDeadEnd
<1>3. \A s \in C : ~ Known(safety, s)
  BY DEF DeadEnds, IsDeadEndComponent
<1>4. \A s \in given.states : Known(safety, s) => safety'[s] = safety[s]
  BY <1>1, <1>3, Condemned
<1>5. \A s \in given.states : safety'[s] # "safe"
  BY <1>1, <1>2, Condemned DEF IInv, NothingSafeYet
<1>6. TypeOK' /\ waiting' = {}
  BY <1>1, <1>2, Condemned DEF IInv, TypeOK, NothingSafeYet
<1> QED
  BY <1>2, <1>4, <1>5, <1>6
     DEF IInv, AutomatonKept, NothingSafeYet, WaitingUnknown, SafeIsDeserved, IsSafe

\* Of the deadlocks, those that have a verdict already are dead ends, and stay unsafe.
LEMMA FindInitialUnsafeStatesIInv ==
  ASSUME IInv, FindInitialUnsafeStates
  PROVE  IInv' /\ \A s \in given.states : Known(safety, s) => safety'[s] = safety[s]
<1>1. /\ safety' = Condemn(safety, InitialUnsafe(automaton))
      /\ phase = "deadlocks" /\ phase' = "rounds"
      /\ UNCHANGED <<given, automaton, result, waiting>>
  BY DEF FindInitialUnsafeStates
<1>2. automaton = given /\ waiting = {} /\ given \in Automata
  BY <1>1 DEF IInv, TypeOK, AutomatonKept, NothingSafeYet
<1>3. EmptyState \notin InitialUnsafe(automaton)
  BY <1>2, AutomataAssumption DEF InitialUnsafe
<1>4. \A s \in given.states : safety[s] \in {"unknown", "unsafe"}
  BY <1>1 DEF IInv, TypeOK, NothingSafeYet
<1>5. \A s \in given.states : Known(safety, s) => safety'[s] = safety[s]
  BY <1>1, <1>3, <1>4, Condemned DEF Known
<1>6. \A s \in given.states : safety'[s] # "safe"
  BY <1>1, <1>4, Condemned
<1>7. TypeOK'
  BY <1>1, <1>2, Condemned DEF IInv, TypeOK
<1> QED
  BY <1>1, <1>2, <1>5, <1>6, <1>7
     DEF IInv, AutomatonKept, NothingSafeYet, WaitingUnknown, SafeIsDeserved, IsSafe

\* The predecessors that wait have no verdict.
LEMMA TakeMarkedIInv ==
  ASSUME IInv, TakeMarked
  PROVE  IInv'
<1>1. PICK s \in marked : waiting' = UndeterminedPredecessors(automaton, safety, s)
  BY DEF TakeMarked
<1>2. /\ phase = "rounds"
      /\ UNCHANGED <<given, automaton, safety, phase, result, remarked>>
  BY DEF TakeMarked
<1>3. automaton = given /\ given \in Automata
  BY <1>2 DEF IInv, TypeOK, AutomatonKept
<1>4. \A r \in waiting' : r \in given.states /\ ~ Known(safety, r)
  BY <1>1, <1>3, AutomataAssumption DEF UndeterminedPredecessors, In
<1> QED
  BY <1>2, <1>4
     DEF IInv, TypeOK, AutomatonKept, NothingSafeYet, WaitingUnknown, SafeIsDeserved

\* A verdict is written where there was none, and is deserved when it is written.
LEMMA DetermineSafetyIInv ==
  ASSUME IInv, DetermineSafety
  PROVE  IInv' /\ \A s \in given.states : Known(safety, s) => safety'[s] = safety[s]
<1>1. PICK r \in waiting :
         /\ waiting' = waiting \ {r}
         /\ safety' = [safety EXCEPT ![r] = Verdict(automaton, safety, r)]
  BY DEF DetermineSafety
<1>2. phase = "rounds" /\ UNCHANGED <<given, automaton, phase, marked, remarked>>
  BY DEF DetermineSafety
<1>3. /\ automaton = given /\ given \in Automata /\ r \in given.states
      /\ r # EmptyState /\ safety[r] = "unknown"
      /\ safety \in [given.states -> {"unknown", "safe", "unsafe"}]
  BY <1>2 DEF IInv, TypeOK, AutomatonKept, WaitingUnknown, Known
<1>4. Verdict(given, safety, r) \in {"unknown", "safe", "unsafe"}
  BY DEF Verdict
<1>5. \A s \in given.states : safety'[s] = IF s = r THEN Verdict(given, safety, r) ELSE safety[s]
  BY <1>1, <1>3
<1>6. \A s \in given.states : Known(safety, s) => safety'[s] = safety[s]
  BY <1>3, <1>5 DEF Known
<1>7. \A s \in given.states : IsSafe(safety, s) => IsSafe(safety', s)
  BY <1>3, <1>5 DEF IsSafe
<1>8. SafeIsDeserved'
  <2> SUFFICES ASSUME NEW s \in given.states \ {EmptyState}, IsSafe(safety', s)
               PROVE  /\ ~ IsFlawed(given, s)
                      /\ IF s \in given.final THEN IsStable(given, s)
                                              ELSE IsSaved(given, safety', s)
    BY <1>2 DEF SafeIsDeserved
  <2>1. CASE s = r
    <3>1. Verdict(given, safety, s) = "safe"
      BY <1>5, <2>1 DEF IsSafe
    <3>2. /\ ~ IsFlawed(given, s)
          /\ IF s \in given.final THEN IsStable(given, s) ELSE IsSaved(given, safety, s)
      BY <3>1 DEF Verdict
    <3>3. \A e \in given.edges : IsSafe(safety, e.target) => IsSafe(safety', e.target)
      BY <1>3, <1>7, AutomataAssumption
    <3> QED
      BY <3>2, <3>3, SavedStaysSaved
  <2>2. CASE s # r
    <3>1. IsSafe(safety, s)
      BY <1>5, <2>2 DEF IsSafe
    <3> QED
      BY <1>2, <1>7, <3>1, DesertStays
  <2> QED
    BY <2>1, <2>2
<1>9. TypeOK'
  BY <1>1, <1>2, <1>3, <1>4 DEF IInv, TypeOK
<1>10. WaitingUnknown'
  BY <1>1, <1>5 DEF IInv, TypeOK, WaitingUnknown, Known
<1> QED
  BY <1>2, <1>6, <1>8, <1>9, <1>10 DEF IInv, AutomatonKept, NothingSafeYet

\* The rest of net2cl gives no verdict.
LEMMA OtherIInv ==
  ASSUME IInv, \/ NoDeadEnd \/ NextRound \/ KeepUnsafeStates \/ RemoveUnsafeStates
               \/ RemoveUnreachableStates \/ UNCHANGED vars
  PROVE  IInv' /\ UNCHANGED <<given, safety>>
BY DEF NoDeadEnd, NextRound, KeepUnsafeStates, RemoveUnsafeStates, RemoveUnreachableStates, vars,
       IInv, TypeOK, AutomatonKept, NothingSafeYet, WaitingUnknown, SafeIsDeserved

\* Nothing has a verdict in the beginning.
LEMMA InitIInv == Init => IInv
BY DEF Init, IInv, TypeOK, AutomatonKept, NothingSafeYet, WaitingUnknown, SafeIsDeserved, IsSafe

\* What a step of the filters keeps to.
LEMMA NextIInv ==
  ASSUME IInv, [Next]_vars
  PROVE  IInv' /\ \A s \in given.states : Known(safety, s) => safety'[s] = safety[s]
<1>1. CASE TakeMarked
  BY <1>1, TakeMarkedIInv DEF TakeMarked
<1> QED
  BY <1>1, MarkDeadEndIInv, FindInitialUnsafeStatesIInv, DetermineSafetyIInv, OtherIInv
     DEF Next, Marking

\* The invariant holds in every run of the filters.
THEOREM IInvHolds == Spec => []IInv
<1>1. Init => IInv
  BY InitIInv
<1>2. IInv /\ [Next]_vars => IInv'
  BY NextIInv
<1> QED
  BY <1>1, <1>2, PTL DEF Spec

\* "Safe" is deserved in every state of every run, for every automaton and every order.
THEOREM SafeStatesAreSafe == Spec => []SafeIsDeserved
<1>1. IInv => SafeIsDeserved
  BY DEF IInv
<1> QED
  BY <1>1, IInvHolds, PTL

\* No verdict is turned round.
THEOREM VerdictsStay == Spec => VerdictStays
<1>1. IInv /\ [Next]_vars
        => [\A s \in given.states : Known(safety, s) => safety'[s] = safety[s]]_vars
  BY NextIInv
<1> QED
  BY <1>1, IInvHolds, PTL DEF Spec, VerdictStays

-----------------------------------------------------------------------------
(***************************************************************************)
(* The dead ends are looked for before any state is safe, so that the test *)
(* of isDeadEndComponent for a target that is safe never fails: whatever   *)
(* a component leads to, it is a dead end if none of its states has a      *)
(* verdict, is final, is empty or breaks a bound.                          *)
(***************************************************************************)
EdgesDoNotMatter ==
  phase = "deadEnds" =>
    \A C \in SUBSET given.states :
      IsDeadEndComponent(automaton, safety, C)
        <=> \A s \in C : ~ Known(safety, s) /\ s \notin given.final \cup given.violation

\* isDeadEndComponent only ever looks at the states of the component.
THEOREM DeadEndsIgnoreEdges == Spec => []EdgesDoNotMatter
<1>1. IInv => EdgesDoNotMatter
  <2> SUFFICES ASSUME IInv, phase = "deadEnds", NEW C \in SUBSET given.states
               PROVE  IsDeadEndComponent(automaton, safety, C)
                        <=> \A s \in C : /\ ~ Known(safety, s)
                                         /\ s \notin given.final \cup given.violation
    BY DEF EdgesDoNotMatter
  <2>1. automaton = given /\ given \in Automata
    BY DEF IInv, TypeOK, AutomatonKept
  <2>2. \A e \in given.edges : ToEmpty(e) \/ ~ IsSafe(safety, e.target)
    BY <2>1, AutomataAssumption DEF IInv, NothingSafeYet, ToEmpty, IsSafe
  <2>3. \A s \in C : ~ Known(safety, s) => s # EmptyState
    BY DEF Known
  <2> QED
    BY <2>1, <2>2, <2>3 DEF IsDeadEndComponent, Out
<1> QED
  BY <1>1, IInvHolds, PTL

(***************************************************************************)
(* What "unsafe" is worth: the state breaks a bound or may go on for ever, *)
(* it is final but not stable, the service has an action to an unsafe      *)
(* state or every way on leads to one, or it is in a component without     *)
(* final state that is condemned as a whole.                               *)
(***************************************************************************)
InDeadEnd(s) ==
  \E C \in Components(given) :
    s \in C /\ \A r \in C : r \notin given.final /\ (r \in given.states => safety[r] = "unsafe")

UnsafeIsDeserved ==
  \A s \in given.states \ {EmptyState} : safety[s] = "unsafe" =>
    \/ IsFlawed(given, s)
    \/ s \in given.final /\ ~ IsStable(given, s)
    \/ IsLost(given, safety, s)
    \/ InDeadEnd(s)

\* More unsafe states lose what was lost before.
LEMMA LostStaysLost ==
  ASSUME NEW a, NEW v, NEW w, NEW s,
         \A e \in a.edges : IsUnsafe(v, e.target) => IsUnsafe(w, e.target),
         IsLost(a, v, s)
  PROVE  IsLost(a, w, s)
<1>1. \A e \in Proper(a, s) : e \in a.edges
  BY DEF Proper, Out
<1>2. Service(a, s) \subseteq a.edges /\ Partner(a, s) \subseteq a.edges /\ Time(a, s) \subseteq a.edges
  BY <1>1 DEF Service, Partner, Time
<1> QED
  BY <1>2 DEF IsLost, AllUnsafe

\* An unsafe verdict stays as justified as it was.
LEMMA JustUnsafeStays ==
  ASSUME IInv, given' = given, UnsafeIsDeserved, NEW s \in given.states \ {EmptyState},
         safety[s] = "unsafe",
         \A r \in given.states : Known(safety, r) => safety'[r] = safety[r]
  PROVE  \/ IsFlawed(given, s)
         \/ s \in given.final /\ ~ IsStable(given, s)
         \/ IsLost(given, safety', s)
         \/ InDeadEnd(s)'
<1>1. \A e \in given.edges : IsUnsafe(safety, e.target) => IsUnsafe(safety', e.target)
  BY AutomataAssumption DEF IInv, TypeOK, IsUnsafe, Known, IsSafe
<1>2. InDeadEnd(s) => InDeadEnd(s)'
  BY DEF InDeadEnd, Known
<1> QED
  BY <1>1, <1>2, LostStaysLost DEF UnsafeIsDeserved

\* The automaton that was handed over is remembered.
LEMMA GivenStays ==
  ASSUME [Next]_vars
  PROVE  given' = given
<1>1. CASE Marking
  BY <1>1 DEF Marking, MarkDeadEnd, NoDeadEnd, FindInitialUnsafeStates, TakeMarked,
              DetermineSafety, NextRound
<1>2. CASE KeepUnsafeStates \/ RemoveUnsafeStates \/ RemoveUnreachableStates
  BY <1>2 DEF KeepUnsafeStates, RemoveUnsafeStates, RemoveUnreachableStates
<1>3. CASE UNCHANGED vars
  BY <1>3 DEF vars
<1> QED
  BY <1>1, <1>2, <1>3 DEF Next

\* No state is condemned without a reason, and the reasons last.
THEOREM UnsafeStatesAreUnsafe == Spec => []UnsafeIsDeserved
<1>1. Init => UnsafeIsDeserved
  BY DEF Init, UnsafeIsDeserved
<1>2. IInv /\ UnsafeIsDeserved /\ [Next]_vars => UnsafeIsDeserved'
  <2> SUFFICES ASSUME IInv, UnsafeIsDeserved, [Next]_vars,
                      NEW s \in given.states \ {EmptyState}, safety'[s] = "unsafe"
               PROVE  \/ IsFlawed(given, s)
                      \/ s \in given.final /\ ~ IsStable(given, s)
                      \/ IsLost(given, safety', s)
                      \/ InDeadEnd(s)'
    BY GivenStays DEF UnsafeIsDeserved
  <2>1. \A r \in given.states : Known(safety, r) => safety'[r] = safety[r]
    BY NextIInv
  <2>2. given' = given
    BY GivenStays
  <2>3. CASE safety[s] = "unsafe"
    BY <2>1, <2>2, <2>3, JustUnsafeStays
  <2>4. CASE MarkDeadEnd /\ safety[s] # "unsafe"
    <3>1. PICK C \in DeadEnds : safety' = Condemn(safety, C)
      BY <2>4 DEF MarkDeadEnd
    <3>2. automaton = given
      BY <2>4 DEF MarkDeadEnd, IInv, AutomatonKept
    <3>3. s \in C /\ \A r \in C : r \in given.states => safety'[r] = "unsafe"
      BY <2>4, <3>1, Condemned
    <3>4. C \in Components(given) /\ \A r \in C : r \notin given.final
      BY <3>1, <3>2 DEF DeadEnds, IsDeadEndComponent
    <3> QED
      BY <2>2, <3>3, <3>4 DEF InDeadEnd
  <2>5. CASE FindInitialUnsafeStates /\ safety[s] # "unsafe"
    <3>1. safety' = Condemn(safety, InitialUnsafe(given))
      BY <2>5 DEF FindInitialUnsafeStates, IInv, AutomatonKept
    <3>2. s \in InitialUnsafe(given)
      BY <2>5, <3>1, Condemned
    <3> QED
      BY <3>2 DEF InitialUnsafe, IsFlawed
  <2>6. CASE DetermineSafety /\ safety[s] # "unsafe"
    <3>1. PICK r \in waiting : safety' = [safety EXCEPT ![r] = Verdict(given, safety, r)]
      BY <2>6 DEF DetermineSafety, IInv, AutomatonKept
    <3>2. s = r /\ Verdict(given, safety, s) = "unsafe"
      BY <2>6, <3>1 DEF IInv, TypeOK
    <3>3. \/ IsFlawed(given, s)
          \/ s \in given.final /\ ~ IsStable(given, s)
          \/ IsLost(given, safety, s)
      BY <3>2 DEF Verdict
    <3>4. \A e \in given.edges : IsUnsafe(safety, e.target) => IsUnsafe(safety', e.target)
      BY <2>1, AutomataAssumption DEF IInv, TypeOK, IsUnsafe, Known, IsSafe
    <3> QED
      BY <3>3, <3>4, LostStaysLost
  <2>7. CASE UNCHANGED safety
    BY <2>3, <2>7
  <2> QED
    BY <2>3, <2>4, <2>5, <2>6, <2>7
       DEF Next, Marking, NoDeadEnd, TakeMarked, NextRound, KeepUnsafeStates,
           RemoveUnsafeStates, RemoveUnreachableStates, vars
<1> QED
  BY <1>1, <1>2, IInvHolds, PTL DEF Spec

-----------------------------------------------------------------------------
(***************************************************************************)
(* What the rest of net2cl removes.                                        *)
(***************************************************************************)
Unsafe == {s \in given.states : IsUnsafe(safety, s)}

\* The automaton is still the one that was handed over, then perhaps without the unsafe states,
\* and at last without the states this leaves unreachable.
RemovedAsTold ==
  /\ phase = "safeOnly" => automaton \in {given, DeleteStates(given, Unsafe)}
  /\ phase = "done" =>
       \E a \in {given, DeleteStates(given, Unsafe)} :
         automaton = DeleteStates(a, UnreachableStates(a))

\* What is removed is what the verdicts and the edges told to remove.
LEMMA RemovedAsToldHolds == Spec => []RemovedAsTold
<1>1. Init => RemovedAsTold
  BY DEF Init, RemovedAsTold
<1>2. IInv /\ RemovedAsTold /\ [Next]_vars => RemovedAsTold'
  <2> SUFFICES ASSUME IInv, RemovedAsTold, [Next]_vars PROVE RemovedAsTold'
    OBVIOUS
  <2>1. CASE Marking
    BY <2>1 DEF RemovedAsTold, Marking, MarkDeadEnd, NoDeadEnd, FindInitialUnsafeStates,
                TakeMarked, DetermineSafety, NextRound
  <2>2. CASE KeepUnsafeStates
    BY <2>2 DEF RemovedAsTold, KeepUnsafeStates, IInv, AutomatonKept
  <2>3. CASE RemoveUnsafeStates
    BY <2>3 DEF RemovedAsTold, RemoveUnsafeStates, IInv, AutomatonKept, Unsafe
  <2>4. CASE RemoveUnreachableStates
    BY <2>4 DEF RemovedAsTold, RemoveUnreachableStates, Unsafe
  <2>5. CASE UNCHANGED vars
    BY <2>5 DEF RemovedAsTold, vars, Unsafe
  <2> QED
    BY <2>1, <2>2, <2>3, <2>4, <2>5 DEF Next
<1> QED
  BY <1>1, <1>2, IInvHolds, PTL DEF Spec

(***************************************************************************)
(* The end of net2cl, RemoveUnreachableStates.  Both searches it is about  *)
(* go on for as many rounds as the automaton has states, so that the       *)
(* argument is an induction over rounds.                                   *)
(***************************************************************************)
\* A set of numbers that has 0 and the successor of each of its members has them all.
LEMMA SetInduction ==
  ASSUME NEW S, 0 \in S, \A n \in Nat : n \in S => n + 1 \in S
  PROVE  \A n \in Nat : n \in S
<1> SUFFICES ASSUME NEW k \in Nat, k \notin S PROVE FALSE
  OBVIOUS
<1> DEFINE T == {n \in Nat : n \notin S}
           R == OpToRel(<, Nat)
<1>1. T \subseteq Nat /\ T # {}
  OBVIOUS
<1>2. \A x, y \in Nat : x < y => <<x, y>> \in R
  BY DEF OpToRel
<1>3. IsWellFoundedOn(R, Nat)
  BY NatLessThanWellFounded
<1> HIDE DEF R
<1>4. PICK x \in T : \A y \in T : ~ (<<y, x>> \in R)
  <2> HIDE DEF T
  <2> QED
    BY <1>1, <1>3, WFMin
<1>5. x # 0 /\ x \in Nat
  OBVIOUS
<1>6. x - 1 \in Nat /\ x - 1 < x /\ (x - 1) + 1 = x
  BY <1>5
<1>7. x - 1 \notin T
  BY <1>2, <1>4, <1>5, <1>6
<1> QED
  BY <1>4, <1>6, <1>7

\* The states that a round of FixedPoint gives a verdict, and what it leaves.
JudgedIn(a, r) ==
  {s \in a.states : /\ ~ Known(r.verdict, s)
                    /\ \E e \in Out(a, s) : e.target \in r.touched
                    /\ Verdict(a, r.verdict, s) # "unknown"}

JudgeAll(a, r) ==
  [verdict |-> [s \in a.states |-> IF s \in JudgedIn(a, r) THEN Verdict(a, r.verdict, s)
                                                          ELSE r.verdict[s]],
   touched |-> r.touched \cup JudgedIn(a, r)]

\* One round of the search for what can be reached, or for what nothing leads to, of the
\* verdicts, or of a growing region, for which a is an automaton with what was visited.
Round(kind, a, P) ==
  IF kind = "reach" THEN P \cup Successors(a, P)
  ELSE IF kind = "enter" THEN Unentered(a, P)
  ELSE IF kind = "judge" THEN JudgeAll(a, P)
  ELSE (P \cup Neighbours(a[1], P)) \ (a[2] \cup {EmptyState})

IsRounds(f, kind, a, S, n) ==
  f = [k \in 0 .. n |-> IF k = 0 THEN S ELSE Round(kind, a, f[k - 1])]

\* The rounds exist, whatever their number.
LEMMA RoundsExist ==
  ASSUME NEW kind, NEW a, NEW S
  PROVE  \A n \in Nat : \E f : IsRounds(f, kind, a, S, n)
<1> DEFINE T == {n \in Nat : \E f : IsRounds(f, kind, a, S, n)}
<1>1. 0 \in T
  <2>1. IsRounds([k \in 0 .. 0 |-> S], kind, a, S, 0)
    BY DEF IsRounds
  <2> QED
    BY <2>1
<1>2. \A n \in Nat : n \in T => n + 1 \in T
  <2> SUFFICES ASSUME NEW n \in Nat, NEW f, IsRounds(f, kind, a, S, n)
               PROVE  \E g : IsRounds(g, kind, a, S, n + 1)
    OBVIOUS
  <2> DEFINE g == [k \in 0 .. (n + 1) |-> IF k = n + 1 THEN Round(kind, a, f[n]) ELSE f[k]]
  <2>1. \A k \in 0 .. n : g[k] = f[k] /\ k \in 0 .. (n + 1)
    OBVIOUS
  <2>2. \A k \in 0 .. n : f[k] = IF k = 0 THEN S ELSE Round(kind, a, f[k - 1])
    BY DEF IsRounds
  <2>3. ASSUME NEW k \in 0 .. (n + 1)
        PROVE  g[k] = IF k = 0 THEN S ELSE Round(kind, a, g[k - 1])
    <3>1. CASE k = n + 1
      BY <2>1, <3>1
    <3>2. CASE k \in 0 .. n
      <4>1. k = 0 \/ k - 1 \in 0 .. n
        BY <3>2
      <4> QED
        BY <2>1, <2>2, <3>2, <4>1
    <3> QED
      BY <3>1, <3>2
  <2>4. IsRounds(g, kind, a, S, n + 1)
    BY <2>3 DEF IsRounds
  <2> QED
    BY <2>4
<1> HIDE DEF T
<1>3. \A n \in Nat : n \in T
  BY <1>1, <1>2, SetInduction
<1> QED
  BY <1>3 DEF T

\* Round by round, from the first to the last.
LEMMA RoundByRound ==
  ASSUME NEW f, NEW kind, NEW a, NEW S, NEW n \in Nat, IsRounds(f, kind, a, S, n)
  PROVE  f[0] = S /\ \A k \in Nat : k + 1 <= n => f[k + 1] = Round(kind, a, f[k])
<1>1. \A k \in 0 .. n : f[k] = IF k = 0 THEN S ELSE Round(kind, a, f[k - 1])
  BY DEF IsRounds
<1>2. \A k \in Nat : k + 1 <= n => k + 1 \in 0 .. n /\ k + 1 # 0 /\ (k + 1) - 1 = k
  OBVIOUS
<1> QED
  BY <1>1, <1>2

\* The rounds of ReachFrom.
LEMMA ReachRounds ==
  ASSUME NEW a, NEW S, IsFiniteSet(a.states)
  PROVE  \E f : /\ f[0] = S
                /\ \A k \in Nat : k + 1 <= Cardinality(a.states)
                                    => f[k + 1] = f[k] \cup Successors(a, f[k])
                /\ ReachFrom(a, S) = f[Cardinality(a.states)]
<1> DEFINE n == Cardinality(a.states)
           g == CHOOSE h : h = [k \in 0 .. n |->
                  IF k = 0 THEN S ELSE UNION {P \cup Successors(a, P) : P \in {h[k - 1]}}]
<1>1. n \in Nat
  BY FS_CardinalityType
<1>2. ReachFrom(a, S) = g[n]
  BY DEF ReachFrom
<1> HIDE DEF n
<1>3. \A Q : UNION {P \cup Successors(a, P) : P \in {Q}} = Round("reach", a, Q)
  BY DEF Round
<1>4. PICK f : IsRounds(f, "reach", a, S, n)
  BY <1>1, RoundsExist
<1>5. f = [k \in 0 .. n |->
             IF k = 0 THEN S ELSE UNION {P \cup Successors(a, P) : P \in {f[k - 1]}}]
  BY <1>3, <1>4 DEF IsRounds
<1>6. g = [k \in 0 .. n |->
             IF k = 0 THEN S ELSE UNION {P \cup Successors(a, P) : P \in {g[k - 1]}}]
  BY <1>5
<1>7. IsRounds(g, "reach", a, S, n)
  BY <1>3, <1>6 DEF IsRounds
<1>8. g[0] = S /\ \A k \in Nat : k + 1 <= n => g[k + 1] = Round("reach", a, g[k])
  <2> HIDE DEF g
  <2> QED
    BY <1>1, <1>7, RoundByRound
<1>9. \A P : Round("reach", a, P) = P \cup Successors(a, P)
  BY DEF Round
<1> HIDE DEF g
<1> QED
  BY <1>2, <1>8, <1>9 DEF n

\* The rounds of findUnreachableStates.
LEMMA UnreachableRounds ==
  ASSUME NEW a, IsFiniteSet(a.states)
  PROVE  \E f : /\ f[0] = {}
                /\ \A k \in Nat : k + 1 <= Cardinality(a.states)
                                    => f[k + 1] = Unentered(a, f[k])
                /\ UnreachableStates(a) = f[Cardinality(a.states)]
<1> DEFINE n == Cardinality(a.states)
           g == CHOOSE h : h = [k \in 0 .. n |->
                  IF k = 0 THEN {} ELSE UNION {Unentered(a, P) : P \in {h[k - 1]}}]
<1>1. n \in Nat
  BY FS_CardinalityType
<1>2. UnreachableStates(a) = g[n]
  BY DEF UnreachableStates
<1> HIDE DEF n
<1>3. \A Q : UNION {Unentered(a, P) : P \in {Q}} = Round("enter", a, Q)
  BY DEF Round
<1>4. PICK f : IsRounds(f, "enter", a, {}, n)
  BY <1>1, RoundsExist
<1>5. f = [k \in 0 .. n |-> IF k = 0 THEN {} ELSE UNION {Unentered(a, P) : P \in {f[k - 1]}}]
  BY <1>3, <1>4 DEF IsRounds
<1>6. g = [k \in 0 .. n |-> IF k = 0 THEN {} ELSE UNION {Unentered(a, P) : P \in {g[k - 1]}}]
  BY <1>5
<1>7. IsRounds(g, "enter", a, {}, n)
  BY <1>3, <1>6 DEF IsRounds
<1>8. g[0] = {} /\ \A k \in Nat : k + 1 <= n => g[k + 1] = Round("enter", a, g[k])
  <2> HIDE DEF g
  <2> QED
    BY <1>1, <1>7, RoundByRound
<1>9. \A P : Round("enter", a, P) = Unentered(a, P)
  BY DEF Round
<1> HIDE DEF g
<1> QED
  BY <1>2, <1>8, <1>9 DEF n

\* Nothing but states is reached.
LEMMA ReachIsWithin ==
  ASSUME NEW a, NEW S, IsFiniteSet(a.states), S \subseteq a.states,
         \A e \in a.edges : e.target \in a.states
  PROVE  ReachFrom(a, S) \subseteq a.states
<1> DEFINE n == Cardinality(a.states)
<1>1. n \in Nat
  BY FS_CardinalityType
<1>2. PICK f : /\ f[0] = S
               /\ \A k \in Nat : k + 1 <= n => f[k + 1] = f[k] \cup Successors(a, f[k])
               /\ ReachFrom(a, S) = f[n]
  BY ReachRounds
<1> HIDE DEF n
<1> DEFINE T == {k \in Nat : k <= n => f[k] \subseteq a.states}
<1>3. 0 \in T
  BY <1>2
<1>4. \A P : Successors(a, P) \subseteq a.states
  BY DEF Successors
<1>5. \A k \in Nat : k \in T => k + 1 \in T
  BY <1>1, <1>2, <1>4
<1> HIDE DEF T
<1>6. n \in T
  BY <1>1, <1>3, <1>5, SetInduction
<1> QED
  BY <1>1, <1>2, <1>6 DEF T

\* What an automaton reaches from its initial state, with all of its edges or fewer, is not
\* among its unreachable states.
LEMMA ReachedIsEntered ==
  ASSUME NEW a, NEW b, NEW S, IsFiniteSet(a.states), IsFiniteSet(b.states),
         b.edges \subseteq a.edges, S \subseteq a.initial
  PROVE  \A s \in ReachFrom(b, S) : s \notin UnreachableStates(a)
<1> DEFINE m == Cardinality(b.states)
           n == Cardinality(a.states)
<1>1. m \in Nat /\ n \in Nat
  BY FS_CardinalityType
<1>2. PICK f : /\ f[0] = S
               /\ \A k \in Nat : k + 1 <= m => f[k + 1] = f[k] \cup Successors(b, f[k])
               /\ ReachFrom(b, S) = f[m]
  BY ReachRounds
<1>3. PICK u : /\ u[0] = {}
               /\ \A k \in Nat : k + 1 <= n => u[k + 1] = Unentered(a, u[k])
               /\ UnreachableStates(a) = u[n]
  BY UnreachableRounds
<1> HIDE DEF m, n
<1> DEFINE Apart(i) == \A k \in Nat : k <= m => \A s \in f[k] : s \notin u[i]
           T == {i \in Nat : i <= n => Apart(i)}
<1>4. 0 \in T
  BY <1>3
<1>5. \A i \in Nat : i \in T => i + 1 \in T
  <2> SUFFICES ASSUME NEW i \in Nat, i + 1 <= n, Apart(i) PROVE Apart(i + 1)
    BY <1>1
  <2>1. u[i + 1] = Unentered(a, u[i])
    BY <1>3
  <2> DEFINE Q == {k \in Nat : k <= m => \A s \in f[k] : s \notin u[i + 1]}
  <2>2. 0 \in Q
    BY <1>2, <2>1 DEF Unentered
  <2>3. \A k \in Nat : k \in Q => k + 1 \in Q
    <3> SUFFICES ASSUME NEW k \in Nat, k \in Q, k + 1 <= m, NEW s \in f[k + 1]
                 PROVE  s \notin u[i + 1]
      OBVIOUS
    <3>1. k <= m
      BY <1>1
    <3>2. CASE s \in f[k]
      BY <3>1, <3>2
    <3>3. CASE s \in Successors(b, f[k])
      <4>1. PICK e \in a.edges : e.source \in f[k] /\ e.target = s
        BY <3>3 DEF Successors
      <4>2. e.source \notin u[i]
        BY <3>1, <4>1
      <4>3. CASE IsLoop(e)
        BY <3>1, <4>1, <4>3 DEF IsLoop
      <4>4. CASE ~ IsLoop(e)
        BY <2>1, <4>1, <4>2, <4>4 DEF Unentered, In
      <4> QED
        BY <4>3, <4>4
    <3> QED
      BY <1>2, <3>2, <3>3
  <2> HIDE DEF Q
  <2>4. \A k \in Nat : k \in Q
    BY <2>2, <2>3, SetInduction
  <2> QED
    BY <2>4 DEF Q
<1> HIDE DEF T
<1>6. n \in T
  BY <1>1, <1>4, <1>5, SetInduction
<1> QED
  BY <1>1, <1>2, <1>3, <1>6 DEF T

\* An unreachable state is entered from unreachable states alone.
LEMMA EnteredFromUnreachable ==
  ASSUME NEW a, IsFiniteSet(a.states), NEW s \in UnreachableStates(a), NEW e \in In(a, s),
         ~ IsLoop(e)
  PROVE  e.source \in UnreachableStates(a)
<1> DEFINE n == Cardinality(a.states)
<1>1. n \in Nat
  BY FS_CardinalityType
<1>2. PICK u : UnreachableStates(a) = u[n] /\ u[0] = {}
               /\ \A k \in Nat : k + 1 <= n => u[k + 1] = Unentered(a, u[k])
  BY UnreachableRounds
<1> HIDE DEF n
<1>3. u[0] = {} /\ \A k \in Nat : k + 1 <= n => u[k + 1] = Unentered(a, u[k])
  BY <1>2
<1> DEFINE T == {k \in Nat : k + 1 <= n => u[k] \subseteq u[k + 1]}
<1>4. 0 \in T
  BY <1>3
<1>5. \A k \in Nat : k \in T => k + 1 \in T
  <2> SUFFICES ASSUME NEW k \in Nat, k \in T, (k + 1) + 1 <= n
               PROVE  u[k + 1] \subseteq u[(k + 1) + 1]
    OBVIOUS
  <2>1. u[k] \subseteq u[k + 1] /\ k + 1 <= n /\ k + 1 \in Nat
    BY <1>1
  <2>2. u[k + 1] = Unentered(a, u[k]) /\ u[(k + 1) + 1] = Unentered(a, u[k + 1])
    BY <1>3, <2>1
  <2> QED
    BY <2>1, <2>2 DEF Unentered
<1> HIDE DEF T
<1>6. \A k \in Nat : k \in T
  BY <1>4, <1>5, SetInduction
<1>7. n # 0 /\ n - 1 \in Nat /\ (n - 1) + 1 = n
  BY <1>1, <1>2, <1>3
<1>8. u[n] = Unentered(a, u[n - 1]) /\ u[n - 1] \subseteq u[n]
  BY <1>1, <1>3, <1>6, <1>7 DEF T
<1> QED
  BY <1>2, <1>8 DEF Unentered

-----------------------------------------------------------------------------
(***************************************************************************)
(* What is left of the automaton.                                          *)
(***************************************************************************)
\* An automaton has six fields.
HasFields(a) ==
  a = [states |-> a.states, initial |-> a.initial, final |-> a.final,
       loop |-> a.loop, violation |-> a.violation, edges |-> a.edges]
\* Whichever field is changed.
LEMMA FieldsStay ==
  ASSUME NEW a, HasFields(a), NEW X
  PROVE  /\ HasFields([a EXCEPT !.states = X]) /\ HasFields([a EXCEPT !.initial = X])
         /\ HasFields([a EXCEPT !.final = X]) /\ HasFields([a EXCEPT !.loop = X])
         /\ HasFields([a EXCEPT !.violation = X]) /\ HasFields([a EXCEPT !.edges = X])
<1> SUFFICES ASSUME NEW S, NEW I, NEW F, NEW L, NEW V, NEW E,
                    a = [states |-> S, initial |-> I, final |-> F, loop |-> L, violation |-> V,
                         edges |-> E]
             PROVE  /\ HasFields([a EXCEPT !.states = X]) /\ HasFields([a EXCEPT !.initial = X])
                    /\ HasFields([a EXCEPT !.final = X]) /\ HasFields([a EXCEPT !.loop = X])
                    /\ HasFields([a EXCEPT !.violation = X])
                    /\ HasFields([a EXCEPT !.edges = X])
  BY DEF HasFields
<1> QED
  BY DEF HasFields

\* And when states are deleted.
LEMMA DeletedHasFields ==
  ASSUME NEW a, HasFields(a), NEW D
  PROVE  HasFields(DeleteStates(a, D))
<1> DEFINE b == [a EXCEPT !.states = @ \ D]
           c == [b EXCEPT !.initial = @ \ D]
           d == [c EXCEPT !.final = @ \ D]
           g == [d EXCEPT !.loop = @ \ D]
           h == [g EXCEPT !.violation = @ \ D]
           k == [h EXCEPT !.edges = {e \in @ : e.source \notin D /\ e.target \notin D}]
<1>1. HasFields(b)
  BY FieldsStay
<1> HIDE DEF b
<1>2. HasFields(c)
  BY <1>1, FieldsStay
<1> HIDE DEF c
<1>3. HasFields(d)
  BY <1>2, FieldsStay
<1> HIDE DEF d
<1>4. HasFields(g)
  BY <1>3, FieldsStay
<1> HIDE DEF g
<1>5. HasFields(h)
  BY <1>4, FieldsStay
<1> HIDE DEF h
<1>6. HasFields(k)
  BY <1>5, FieldsStay
<1>7. DeleteStates(a, D) = k
  BY DEF DeleteStates, b, c, d, g, h, k
<1> QED
  BY <1>6, <1>7

\* Edges of a graph join states of it, which are finitely many.
IsGraph(a) ==
  /\ HasFields(a)
  /\ IsFiniteSet(a.states) /\ a.initial \subseteq a.states
  /\ \A e \in a.edges : e.source \in a.states /\ e.target \in a.states

\* What deleteState leaves.
LEMMA WhatIsLeft ==
  ASSUME NEW a, IsGraph(a), NEW D
  PROVE  LET b == DeleteStates(a, D)
         IN  /\ IsGraph(b)
             /\ b.states = a.states \ D /\ b.initial = a.initial \ D
             /\ b.edges = {e \in a.edges : e.source \notin D /\ e.target \notin D}
<1>1. IsFiniteSet(a.states \ D)
  BY FS_Difference DEF IsGraph
<1> DEFINE b == DeleteStates(a, D)
<1>2. /\ b.states = a.states \ D /\ b.initial = a.initial \ D
      /\ b.edges = {e \in a.edges : e.source \notin D /\ e.target \notin D}
  BY DEF IsGraph, HasFields, DeleteStates
<1>3. HasFields(b)
  BY DeletedHasFields DEF IsGraph
<1> HIDE DEF b
<1>4. IsGraph(b)
  BY <1>1, <1>2, <1>3 DEF IsGraph
<1> QED
  BY <1>2, <1>4 DEF b

\* The automaton that was handed over is a graph.
LEMMA GivenIsGraph == IInv => IsGraph(given)
BY AutomataAssumption DEF IInv, TypeOK, IsGraph, HasFields

\* So are the two automata that RemoveUnreachableStates may find; the one without the unsafe
\* states is the smaller one.
LEMMA WhatIsSearched ==
  ASSUME IInv, NEW a \in {given, DeleteStates(given, Unsafe)}
  PROVE  LET b == DeleteStates(given, Unsafe)
         IN  /\ IsGraph(a) /\ a.states \subseteq given.states
             /\ b.states \subseteq a.states /\ b.edges \subseteq a.edges
             /\ given.initial \ Unsafe \subseteq a.initial
<1> DEFINE b == DeleteStates(given, Unsafe)
<1>1. IsGraph(given)
  BY GivenIsGraph
<1>2. /\ IsGraph(b) /\ b.states = given.states \ Unsafe /\ b.initial = given.initial \ Unsafe
      /\ b.edges = {e \in given.edges : e.source \notin Unsafe /\ e.target \notin Unsafe}
  BY <1>1, WhatIsLeft
<1> QED
  BY <1>1, <1>2

\* An edge of the service leads from a safe state to a safe one, and goes with neither.
LEMMA DeletionSparesService ==
  ASSUME IInv, NEW s \in given.states \ {EmptyState}, IsSafe(safety, s), s \notin given.final,
         NEW a \in {given, DeleteStates(given, Unsafe)}
  PROVE  Service(a, s) = Service(given, s)
<1>1. given \in Automata
  BY DEF IInv, TypeOK
<1>2. DeleteStates(given, Unsafe).edges
        = {e \in given.edges : e.source \notin Unsafe /\ e.target \notin Unsafe}
  BY <1>1, AutomataAssumption DEF DeleteStates
<1>3. \A e \in Service(given, s) : e.source = s /\ IsSafe(safety, e.target)
  BY DEF Service, Proper, Out, IInv, SafeIsDeserved, IsSaved, AllSafe
<1>4. \A e \in Service(given, s) : e.source \notin Unsafe /\ e.target \notin Unsafe
  BY <1>3 DEF Unsafe, IsUnsafe
<1>5. Service(DeleteStates(given, Unsafe), s) = Service(given, s)
  BY <1>2, <1>4 DEF Service, Proper, Out
<1> QED
  BY <1>5

\* RemoveUnreachableStates spares whatever can be reached without the unsafe states.
THEOREM NothingReachableGoes == Spec => []ReachableStatesStay
<1>1. IInv /\ RemovedAsTold => ReachableStatesStay
  <2> SUFFICES ASSUME IInv, RemovedAsTold, phase = "done",
                      NEW s \in ReachFrom(DeleteStates(given, Unsafe), given.initial \ Unsafe)
               PROVE  s \in automaton.states
    BY DEF ReachableStatesStay, Unsafe
  <2>1. PICK a \in {given, DeleteStates(given, Unsafe)} :
          automaton = DeleteStates(a, UnreachableStates(a))
    BY DEF RemovedAsTold
  <2> DEFINE b == DeleteStates(given, Unsafe)
  <2>2. /\ IsGraph(a) /\ b.states \subseteq a.states /\ b.edges \subseteq a.edges
        /\ given.initial \ Unsafe \subseteq a.initial
    BY WhatIsSearched
  <2>3. IsGraph(b) /\ given.initial \ Unsafe \subseteq b.initial
    <3>1. b \in {given, b}
      OBVIOUS
    <3> QED
      BY <3>1, WhatIsSearched
  <2>4. automaton.states = a.states \ UnreachableStates(a)
    BY <2>1, <2>2, WhatIsLeft
  <2> HIDE DEF b
  <2>5. s \in b.states
    BY <2>3, ReachIsWithin DEF b, IsGraph
  <2>6. s \notin UnreachableStates(a)
    BY <2>2, <2>3, ReachedIsEntered DEF b, IsGraph
  <2> QED
    BY <2>2, <2>4, <2>5, <2>6
<1> QED
  BY <1>1, IInvHolds, RemovedAsToldHolds, PTL

\* Neither removal takes anything from the service where it is safe.
THEOREM ServiceLosesNothing == Spec => []ServiceKeepsItsActions
<1>1. IInv /\ RemovedAsTold => ServiceKeepsItsActions
  <2> SUFFICES ASSUME IInv, RemovedAsTold, phase = "done",
                      NEW s \in automaton.states \ {EmptyState},
                      IsSafe(safety, s), s \notin given.final
               PROVE  Service(automaton, s) = Service(given, s)
    BY DEF ServiceKeepsItsActions
  <2>1. PICK a \in {given, DeleteStates(given, Unsafe)} :
          automaton = DeleteStates(a, UnreachableStates(a))
    BY DEF RemovedAsTold
  <2> DEFINE U == UnreachableStates(a)
  <2>2. IsGraph(a) /\ a.states \subseteq given.states
    BY WhatIsSearched
  <2>3. /\ automaton.states = a.states \ U
        /\ automaton.edges = {e \in a.edges : e.source \notin U /\ e.target \notin U}
    BY <2>1, <2>2, WhatIsLeft
  <2>4. s \in given.states \ {EmptyState} /\ s \notin U
    BY <2>2, <2>3
  <2>5. Service(a, s) = Service(given, s)
    BY <2>4, DeletionSparesService
  <2>6. \A e \in Service(a, s) : e \in a.edges /\ e.source = s /\ e.target \notin U
    <3> SUFFICES ASSUME NEW e \in Service(a, s), e.target \in U PROVE FALSE
      BY DEF Service, Proper, Out
    <3>1. e \in In(a, e.target) /\ ~ IsLoop(e) /\ e.source = s
      BY DEF Service, Proper, Out, In
    <3> QED
      BY <2>2, <2>4, <3>1, EnteredFromUnreachable DEF IsGraph
  <2> HIDE DEF U
  <2>7. Service(automaton, s) = Service(a, s)
    <3>1. \A e : e \in Out(automaton, s) <=> e \in a.edges /\ e.source = s /\ e.target \notin U
      BY <2>3, <2>4 DEF Out
    <3> QED
      BY <2>6, <3>1 DEF Service, Proper, Out
  <2> QED
    BY <2>5, <2>7
<1> QED
  BY <1>1, IInvHolds, RemovedAsToldHolds, PTL

-----------------------------------------------------------------------------
(***************************************************************************)
(* The verdicts are the same in whatever order the states are visited.     *)
(* Dead ends are no matter of order because components are disjoint.  For  *)
(* the rounds the argument is that a verdict given on little evidence is   *)
(* the verdict on more evidence, so that all orders come to the least      *)
(* fixed point; and that a state with new evidence is always visited       *)
(* again: it waits, or one of its successors is marked or to be marked.    *)
(***************************************************************************)
(***************************************************************************)
(* A set of members of a finite set that grows with each step until it is  *)
(* closed is closed after as many steps as the finite set has members.     *)
(***************************************************************************)
LEMMA GrowthEnds ==
  ASSUME NEW U, IsFiniteSet(U), NEW f, NEW Closed, U \in Closed,
         \A k \in 0 .. Cardinality(U) : f[k] \in SUBSET U,
         \A k \in 1 .. Cardinality(U) : /\ f[k - 1] \subseteq f[k]
                                        /\ f[k - 1] \in Closed <=> f[k] = f[k - 1]
  PROVE  f[Cardinality(U)] \in Closed
<1> DEFINE N == Cardinality(U)
           T == {k \in Nat : k <= N => f[k] \in Closed \/ Cardinality(f[k]) >= k}
<1>1. N \in Nat
  BY FS_CardinalityType
<1>2. \A k \in 0 .. N : IsFiniteSet(f[k]) /\ Cardinality(f[k]) \in Nat
  BY FS_Subset, FS_CardinalityType
<1> HIDE DEF N
<1>3. 0 \in T
  BY <1>1, <1>2
<1>4. \A k \in Nat : k \in T => k + 1 \in T
  <2> SUFFICES ASSUME NEW k \in Nat, k \in T, k + 1 <= N
               PROVE  f[k + 1] \in Closed \/ Cardinality(f[k + 1]) >= k + 1
    OBVIOUS
  <2>1. k \in 0 .. N /\ k + 1 \in 0 .. N /\ k + 1 \in 1 .. N /\ (k + 1) - 1 = k
    BY <1>1
  <2>2. f[k] \subseteq f[k + 1] /\ (f[k] \in Closed <=> f[k + 1] = f[k])
    BY <2>1 DEF N
  <2>3. CASE f[k] \in Closed
    BY <2>2, <2>3
  <2>4. CASE f[k] \notin Closed
    <3>1. Cardinality(f[k]) >= k
      BY <2>1, <2>4
    <3>2. f[k] \in SUBSET f[k + 1] /\ f[k] # f[k + 1]
      BY <2>2, <2>4
    <3>3. Cardinality(f[k]) <= Cardinality(f[k + 1]) /\ Cardinality(f[k]) # Cardinality(f[k + 1])
      BY <3>2, <2>1, <1>2, FS_Subset
    <3> QED
      BY <3>1, <3>3, <2>1, <1>2
  <2> QED
    BY <2>3, <2>4
<1> HIDE DEF T
<1>5. N \in T
  BY <1>1, <1>3, <1>4, SetInduction
<1>6. CASE f[N] \in Closed
  BY <1>6 DEF N
<1>7. CASE Cardinality(f[N]) >= N
  <2>1. f[N] \in SUBSET U /\ Cardinality(f[N]) <= N
    BY <1>1, FS_Subset DEF N
  <2>2. Cardinality(f[N]) = N
    BY <1>1, <1>2, <1>7, <2>1
  <2>3. f[N] = U
    BY <2>1, <2>2, FS_Subset DEF N
  <2> QED
    BY <2>3 DEF N
<1> QED
  BY <1>1, <1>5, <1>6, <1>7 DEF T

\* ReachFrom is the least set that has S and is closed under edges.
LEMMA ReachIsLeast ==
  ASSUME NEW a, NEW S, IsGraph(a), S \subseteq a.states
  PROVE  /\ S \subseteq ReachFrom(a, S)
         /\ \A e \in a.edges : e.source \in ReachFrom(a, S) => e.target \in ReachFrom(a, S)
         /\ ReachFrom(a, S) \subseteq a.states
         /\ \A C : S \subseteq C /\ Successors(a, C) \subseteq C => ReachFrom(a, S) \subseteq C
<1> DEFINE U == a.states
           N == Cardinality(U)
           Closed == {P \in SUBSET U : Successors(a, P) \subseteq P}
<1>1. IsFiniteSet(U) /\ \A e \in a.edges : e.source \in U /\ e.target \in U
  BY DEF IsGraph
<1>2. N \in Nat
  BY <1>1, FS_CardinalityType
<1>3. PICK f : /\ f[0] = S
               /\ \A k \in Nat : k + 1 <= N => f[k + 1] = f[k] \cup Successors(a, f[k])
               /\ ReachFrom(a, S) = f[N]
  BY <1>1, ReachRounds
<1>4. \A P : Successors(a, P) \subseteq U
  BY <1>1 DEF Successors
<1>5. U \in Closed
  BY <1>4
<1> HIDE DEF N
<1> DEFINE Fits(k) == f[k] \in SUBSET U /\ S \subseteq f[k]
           T == {k \in Nat : k <= N => Fits(k)}
<1>6. \A k \in Nat : k \in T
  <2>1. 0 \in T
    BY <1>3
  <2>2. \A k \in Nat : k \in T => k + 1 \in T
    BY <1>2, <1>3, <1>4
  <2> HIDE DEF T
  <2> QED
    BY <2>1, <2>2, SetInduction
<1>7. ASSUME NEW k \in 1 .. N
      PROVE  /\ f[k - 1] \subseteq f[k]
             /\ f[k - 1] \in Closed <=> f[k] = f[k - 1]
  <2>1. k - 1 \in Nat /\ (k - 1) + 1 = k /\ k <= N /\ k - 1 <= N
    BY <1>2
  <2>2. f[k] = f[k - 1] \cup Successors(a, f[k - 1]) /\ f[k - 1] \in SUBSET U
    BY <1>3, <1>6, <2>1
  <2> QED
    BY <2>2
<1>8. \A k \in 0 .. N : f[k] \in SUBSET U
  BY <1>2, <1>6
<1>9. f[N] \in Closed
  <2> HIDE DEF Closed, U
  <2> QED
    BY <1>1, <1>5, <1>7, <1>8, GrowthEnds DEF N
<1>10. S \subseteq f[N]
  BY <1>2, <1>6
<1>11. ASSUME NEW C, S \subseteq C, Successors(a, C) \subseteq C
       PROVE  f[N] \subseteq C
  <2> DEFINE Q == {k \in Nat : k <= N => f[k] \subseteq C}
  <2>1. 0 \in Q
    BY <1>3, <1>11
  <2>2. \A k \in Nat : k \in Q => k + 1 \in Q
    <3> SUFFICES ASSUME NEW k \in Nat, k \in Q, k + 1 <= N PROVE f[k + 1] \subseteq C
      OBVIOUS
    <3>1. f[k] \subseteq C
      BY <1>2
    <3>2. Successors(a, f[k]) \subseteq C
      BY <1>11, <3>1 DEF Successors
    <3> QED
      BY <1>3, <3>1, <3>2
  <2> HIDE DEF Q
  <2>3. N \in Q
    BY <1>2, <2>1, <2>2, SetInduction
  <2> QED
    BY <1>2, <2>3 DEF Q
<1> QED
  BY <1>3, <1>9, <1>10, <1>11 DEF Successors

\* Two components that share a state are one.
LEMMA ComponentsApart ==
  ASSUME NEW a, IsGraph(a), NEW C \in Components(a), NEW D \in Components(a), NEW r \in C, r \in D
  PROVE  C = D
<1>1. \A s \in ReachFrom(a, a.initial) : s \in a.states
  BY ReachIsLeast DEF IsGraph
<1>2. PICK c \in a.states : C = Component(a, c)
  BY <1>1 DEF Components
<1>3. PICK d \in a.states : D = Component(a, d)
  BY <1>1 DEF Components
<1>4. ASSUME NEW x \in a.states, NEW y \in a.states, x \in ReachFrom(a, {y})
      PROVE  ReachFrom(a, {x}) \subseteq ReachFrom(a, {y})
  <2>1. /\ \A e \in a.edges : e.source \in ReachFrom(a, {y}) => e.target \in ReachFrom(a, {y})
    BY ReachIsLeast
  <2>2. Successors(a, ReachFrom(a, {y})) \subseteq ReachFrom(a, {y})
    BY <2>1 DEF Successors
  <2>3. \A P : {x} \subseteq P /\ Successors(a, P) \subseteq P => ReachFrom(a, {x}) \subseteq P
    BY ReachIsLeast
  <2> QED
    BY <1>4, <2>2, <2>3
<1>5. \A x \in a.states : x \in ReachFrom(a, {x}) /\ ReachFrom(a, {x}) \subseteq a.states
  BY ReachIsLeast
<1>6. ASSUME NEW x \in a.states, NEW y \in a.states, NEW z \in Component(a, x), z \in Component(a, y),
             NEW w \in Component(a, x)
      PROVE  w \in Component(a, y)
  <2>1. /\ z \in ReachFrom(a, {x}) /\ x \in ReachFrom(a, {z}) /\ z \in a.states
        /\ z \in ReachFrom(a, {y}) /\ y \in ReachFrom(a, {z})
        /\ w \in ReachFrom(a, {x}) /\ x \in ReachFrom(a, {w}) /\ w \in a.states
    BY <1>5, <1>6 DEF Component
  <2>2. w \in ReachFrom(a, {z}) /\ z \in ReachFrom(a, {w})
    BY <1>4, <2>1
  <2>3. w \in ReachFrom(a, {y}) /\ y \in ReachFrom(a, {w})
    BY <1>4, <2>1, <2>2
  <2> QED
    BY <2>3 DEF Component
<1> QED
  BY <1>2, <1>3, <1>6

-----------------------------------------------------------------------------
\* More is known.
Agrees(a, v, w) == \A s \in a.states : v[s] # "unknown" => w[s] = v[s]

\* A verdict given on some evidence is the verdict on more.
LEMMA VerdictLasts ==
  ASSUME NEW a, IsGraph(a), NEW v, NEW w, Agrees(a, v, w), NEW s, Verdict(a, v, s) # "unknown"
  PROVE  Verdict(a, w, s) = Verdict(a, v, s)
<1>1. ASSUME NEW e \in Proper(a, s)
      PROVE  /\ IsSafe(v, e.target) => IsSafe(w, e.target)
             /\ IsUnsafe(v, e.target) => IsUnsafe(w, e.target)
             /\ ~ (IsSafe(w, e.target) /\ IsUnsafe(w, e.target))
  <2>1. e.target \in a.states
    BY DEF IsGraph, Proper, Out
  <2> QED
    BY <2>1 DEF Agrees, IsSafe, IsUnsafe, Known
<1>2. /\ Service(a, s) \subseteq Proper(a, s) /\ Partner(a, s) \subseteq Proper(a, s)
      /\ Time(a, s) \subseteq Proper(a, s)
  BY DEF Service, Partner, Time
<1>3. IsLost(a, v, s) => IsLost(a, w, s)
  BY <1>1, <1>2 DEF IsLost, AllUnsafe
<1>4. IsSaved(a, v, s) => IsSaved(a, w, s)
  BY <1>1, <1>2 DEF IsSaved, AllSafe, SomeSafe
<1>5. IsSaved(a, w, s) => ~ IsLost(a, w, s)
  BY <1>1, <1>2 DEF IsSaved, AllSafe, SomeSafe, IsLost, AllUnsafe
<1> QED
  BY <1>3, <1>4, <1>5 DEF Verdict

\* A verdict is given on what is known of direct successors.
SeesSame(a, s, v, w) == \A e \in Out(a, s) : v[e.target] = w[e.target]

\* So two sets of verdicts that agree there come to the same one.
LEMMA VerdictIsLocal ==
  ASSUME NEW a, NEW v, NEW w, NEW s, SeesSame(a, s, v, w)
  PROVE  Verdict(a, v, s) = Verdict(a, w, s)
<1>1. ASSUME NEW e \in Proper(a, s)
      PROVE  /\ IsSafe(v, e.target) <=> IsSafe(w, e.target)
             /\ IsUnsafe(v, e.target) <=> IsUnsafe(w, e.target)
  BY DEF SeesSame, Proper, IsSafe, IsUnsafe, Known
<1>2. /\ Service(a, s) \subseteq Proper(a, s) /\ Partner(a, s) \subseteq Proper(a, s)
      /\ Time(a, s) \subseteq Proper(a, s)
  BY DEF Service, Partner, Time
<1>3. IsLost(a, v, s) <=> IsLost(a, w, s)
  BY <1>1, <1>2 DEF IsLost, AllUnsafe
<1>4. IsSaved(a, v, s) <=> IsSaved(a, w, s)
  BY <1>1, <1>2 DEF IsSaved, AllSafe, SomeSafe
<1> QED
  BY <1>3, <1>4 DEF Verdict

-----------------------------------------------------------------------------
\* The verdicts before the rounds.
Beginning == Condemn(DeadEndVerdicts, InitialUnsafe(given))

\* The states whose predecessors the rounds visit, by verdicts v that were b in the beginning.
TouchedIn(a, b, v) ==
  InitialUnsafe(a) \cup {s \in a.states : v[s] # "unknown" /\ b[s] = "unknown"}

TouchedBy(v) == TouchedIn(given, Beginning, v)

Verdicts == [given.states -> {"unknown", "safe", "unsafe"}]

\* The verdicts that the rounds begin with.
LEMMA BeginningType ==
  IInv => /\ DeadEndVerdicts \in Verdicts /\ Beginning \in Verdicts
          /\ InitialUnsafe(given) \subseteq given.states
          /\ \A s \in InitialUnsafe(given) : Beginning[s] = "unsafe" /\ s # EmptyState
<1> SUFFICES ASSUME IInv
             PROVE  /\ DeadEndVerdicts \in Verdicts /\ Beginning \in Verdicts
                    /\ InitialUnsafe(given) \subseteq given.states
                    /\ \A s \in InitialUnsafe(given) : Beginning[s] = "unsafe" /\ s # EmptyState
  OBVIOUS
<1>1. DeadEndVerdicts \in Verdicts
  BY DEF DeadEndVerdicts, Condemn, Verdicts
<1>2. InitialUnsafe(given) \subseteq given.states /\ EmptyState \notin InitialUnsafe(given)
  BY AutomataAssumption DEF InitialUnsafe, IInv, TypeOK
<1>3. DOMAIN DeadEndVerdicts = given.states
  BY <1>1 DEF Verdicts
<1> QED
  BY <1>1, <1>2, <1>3 DEF Beginning, Condemn, Verdicts

\* The rounds of FixedPoint.
LEMMA JudgingRounds ==
  ASSUME IInv
  PROVE  \E f : /\ f[0] = [verdict |-> Beginning, touched |-> InitialUnsafe(given)]
                /\ \A k \in Nat : k + 1 <= Cardinality(given.states)
                                    => f[k + 1] = JudgeAll(given, f[k])
                /\ FixedPoint = f[Cardinality(given.states)].verdict
<1> DEFINE n == Cardinality(given.states)
           start == [verdict |-> Beginning, touched |-> InitialUnsafe(given)]
           g == CHOOSE h : h = [k \in 0 .. n |->
                  IF k = 0 THEN start
                  ELSE [verdict |-> [s \in given.states |->
                                       IF s \in JudgedIn(given, h[k - 1])
                                       THEN Verdict(given, h[k - 1].verdict, s)
                                       ELSE h[k - 1].verdict[s]],
                        touched |-> h[k - 1].touched \cup JudgedIn(given, h[k - 1])]]
<1>1. n \in Nat
  BY GivenIsGraph, FS_CardinalityType DEF IsGraph
<1>2. FixedPoint = g[n].verdict
  BY DEF FixedPoint, JudgedIn, Beginning
<1> HIDE DEF n, start
<1>3. \A Q : [verdict |-> [s \in given.states |->
                           IF s \in JudgedIn(given, Q) THEN Verdict(given, Q.verdict, s)
                                                       ELSE Q.verdict[s]],
              touched |-> Q.touched \cup JudgedIn(given, Q)] = Round("judge", given, Q)
  BY DEF Round, JudgeAll
<1>4. PICK f : IsRounds(f, "judge", given, start, n)
  BY <1>1, RoundsExist
<1>5. f = [k \in 0 .. n |->
             IF k = 0 THEN start
             ELSE [verdict |-> [s \in given.states |->
                                  IF s \in JudgedIn(given, f[k - 1])
                                  THEN Verdict(given, f[k - 1].verdict, s)
                                  ELSE f[k - 1].verdict[s]],
                   touched |-> f[k - 1].touched \cup JudgedIn(given, f[k - 1])]]
  BY <1>3, <1>4, ZenonT(60) DEF IsRounds
<1>6. g = [k \in 0 .. n |->
             IF k = 0 THEN start
             ELSE [verdict |-> [s \in given.states |->
                                  IF s \in JudgedIn(given, g[k - 1])
                                  THEN Verdict(given, g[k - 1].verdict, s)
                                  ELSE g[k - 1].verdict[s]],
                   touched |-> g[k - 1].touched \cup JudgedIn(given, g[k - 1])]]
  BY <1>5, ZenonT(60)
<1>7. IsRounds(g, "judge", given, start, n)
  BY <1>3, <1>6 DEF IsRounds
<1>8. g[0] = start /\ \A k \in Nat : k + 1 <= n => g[k + 1] = Round("judge", given, g[k])
  <2> HIDE DEF g
  <2> QED
    BY <1>1, <1>7, RoundByRound
<1>9. \A P : Round("judge", given, P) = JudgeAll(given, P)
  BY DEF Round
<1> HIDE DEF g
<1> QED
  BY <1>2, <1>8, <1>9 DEF n, start

\* A round of verdicts, state by state.
LEMMA OneRound ==
  ASSUME NEW a, NEW r, NEW q, q = JudgeAll(a, r)
  PROVE  /\ q.verdict = [s \in a.states |-> q.verdict[s]]
         /\ \A s \in a.states : q.verdict[s] = IF s \in JudgedIn(a, r) THEN Verdict(a, r.verdict, s)
                                                                      ELSE r.verdict[s]
         /\ q.touched = r.touched \cup JudgedIn(a, r)
         /\ JudgedIn(a, r) \subseteq a.states
         /\ \A s \in JudgedIn(a, r) :
              s # EmptyState /\ r.verdict[s] = "unknown" /\ Verdict(a, r.verdict, s) # "unknown"
BY DEF JudgeAll, JudgedIn, Known

\* What the rounds keep to.
IsRound(r) ==
  /\ r.verdict \in Verdicts /\ Agrees(given, Beginning, r.verdict)
  /\ r.touched = TouchedBy(r.verdict)
  /\ \A s \in given.states : (r.verdict[s] # "unknown" /\ Beginning[s] = "unknown")
                                => r.verdict[s] = Verdict(given, r.verdict, s)

\* A round adds verdicts to those there were.
LEMMA RoundFits ==
  ASSUME IInv, NEW r, NEW q, IsRound(r), q = JudgeAll(given, r)
  PROVE  IsRound(q) /\ Agrees(given, r.verdict, q.verdict)
<1>1. /\ q.verdict = [s \in given.states |-> q.verdict[s]]
      /\ \A s \in given.states :
           q.verdict[s] = IF s \in JudgedIn(given, r) THEN Verdict(given, r.verdict, s)
                                                      ELSE r.verdict[s]
      /\ q.touched = r.touched \cup JudgedIn(given, r)
      /\ JudgedIn(given, r) \subseteq given.states
      /\ \A s \in JudgedIn(given, r) :
           s # EmptyState /\ r.verdict[s] = "unknown" /\ Verdict(given, r.verdict, s) # "unknown"
  BY OneRound
<1>2. \A s : Verdict(given, r.verdict, s) \in {"unknown", "safe", "unsafe"}
  BY DEF Verdict
<1>3. q.verdict \in Verdicts
  BY <1>1, <1>2 DEF IsRound, Verdicts
<1>4. Agrees(given, r.verdict, q.verdict)
  BY <1>1 DEF Agrees
<1>5. Agrees(given, Beginning, q.verdict)
  BY <1>4 DEF IsRound, Agrees
<1>6. \A s \in JudgedIn(given, r) : q.verdict[s] # "unknown" /\ Beginning[s] = "unknown"
  BY <1>1 DEF IsRound, Agrees
<1>7. \A s \in given.states \ JudgedIn(given, r) : q.verdict[s] = r.verdict[s]
  BY <1>1
<1>8. q.touched = TouchedBy(q.verdict)
  BY <1>1, <1>6, <1>7 DEF IsRound, TouchedBy, TouchedIn
<1>9. ASSUME NEW s \in given.states, q.verdict[s] # "unknown", Beginning[s] = "unknown"
      PROVE  q.verdict[s] = Verdict(given, q.verdict, s)
  <2>1. q.verdict[s] = Verdict(given, r.verdict, s)
    BY <1>1, <1>9 DEF IsRound
  <2> QED
    BY <1>4, <1>9, <2>1, GivenIsGraph, VerdictLasts
<1> QED
  BY <1>3, <1>4, <1>5, <1>8, <1>9 DEF IsRound

\* Verdicts that are not to be changed: a state without verdict has no touched successor,
\* or no verdict can be given.
IsSettled(v) ==
  \A s \in given.states \ {EmptyState} :
    (v[s] = "unknown" /\ \E e \in Out(given, s) : e.target \in TouchedBy(v))
      => Verdict(given, v, s) = "unknown"

\* A round that gives no verdict is the last one that matters.
LEMMA SettledMeansNone ==
  ASSUME IInv, NEW r, IsRound(r)
  PROVE  IsSettled(r.verdict) <=> JudgedIn(given, r) = {}
BY DEF IsSettled, IsRound, JudgedIn, Known

\* The rounds of the definition end, in the least verdicts that judging does not change.
LEMMA FixedPointIs ==
  ASSUME IInv
  PROVE  /\ FixedPoint \in Verdicts /\ Agrees(given, Beginning, FixedPoint)
         /\ \A s \in given.states : (FixedPoint[s] # "unknown" /\ Beginning[s] = "unknown")
                                       => FixedPoint[s] = Verdict(given, FixedPoint, s)
         /\ IsSettled(FixedPoint)
         /\ \A v \in Verdicts :
              (Agrees(given, Beginning, v) /\ Agrees(given, v, FixedPoint) /\ IsSettled(v))
                => v = FixedPoint
<1> DEFINE A == given.states
           N == Cardinality(A)
<1>1. PICK f : /\ f[0] = [verdict |-> Beginning, touched |-> InitialUnsafe(given)]
               /\ \A k \in Nat : k + 1 <= N => f[k + 1] = JudgeAll(given, f[k])
               /\ FixedPoint = f[N].verdict
  BY JudgingRounds
<1>2. IsFiniteSet(A) /\ N \in Nat
  BY GivenIsGraph, FS_CardinalityType DEF IsGraph
<1> DEFINE K(k) == {s \in A : f[k].verdict[s] # "unknown"}
<1>3. \A k : K(k) \in SUBSET A /\ IsFiniteSet(K(k)) /\ Cardinality(K(k)) \in Nat
  BY <1>2, FS_Subset, FS_CardinalityType
<1>4. \A k : /\ Cardinality(K(k)) <= N
             /\ Cardinality(K(k)) = N => K(k) = A
  BY <1>2, <1>3, FS_Subset
<1> HIDE DEF N, K
<1>5. IsRound(f[0])
  BY <1>1, BeginningType DEF IsRound, Agrees, TouchedBy, TouchedIn
<1> DEFINE T == {k \in Nat : k <= N => IsRound(f[k])}
<1>6. \A k \in Nat : k \in T
  <2>1. 0 \in T
    BY <1>5
  <2>2. \A k \in Nat : k \in T => k + 1 \in T
    BY <1>1, <1>2, RoundFits
  <2> HIDE DEF T
  <2> QED
    BY <2>1, <2>2, SetInduction
<1>7. \A k \in Nat : k <= N => IsRound(f[k])
  BY <1>6
<1>8. \A k \in Nat : k + 1 <= N => Agrees(given, f[k].verdict, f[k + 1].verdict)
  BY <1>1, <1>2, <1>7, RoundFits
<1> HIDE DEF T
<1>9. ASSUME NEW k \in Nat, k + 1 <= N
       PROVE  /\ f[k + 1].verdict = [s \in given.states |-> f[k + 1].verdict[s]]
              /\ \A s \in given.states :
                   f[k + 1].verdict[s] = IF s \in JudgedIn(given, f[k])
                                         THEN Verdict(given, f[k].verdict, s)
                                         ELSE f[k].verdict[s]
              /\ f[k + 1].touched = f[k].touched \cup JudgedIn(given, f[k])
              /\ JudgedIn(given, f[k]) \subseteq given.states
              /\ \A s \in JudgedIn(given, f[k]) : /\ f[k].verdict[s] = "unknown"
                                                   /\ Verdict(given, f[k].verdict, s) # "unknown"
  <2>1. f[k + 1] = JudgeAll(given, f[k])
    BY <1>1, <1>9
  <2> DEFINE r == f[k]
             q == f[k + 1]
  <2> HIDE DEF r, q
  <2>2. q = JudgeAll(given, r)
    BY <2>1 DEF q, r
  <2>3. /\ q.verdict = [s \in given.states |-> q.verdict[s]]
        /\ \A s \in given.states :
             q.verdict[s] = IF s \in JudgedIn(given, r) THEN Verdict(given, r.verdict, s)
                                                        ELSE r.verdict[s]
        /\ q.touched = r.touched \cup JudgedIn(given, r)
        /\ JudgedIn(given, r) \subseteq given.states
        /\ \A s \in JudgedIn(given, r) :
             s # EmptyState /\ r.verdict[s] = "unknown" /\ Verdict(given, r.verdict, s) # "unknown"
    BY <2>2, OneRound
  <2> QED
    BY <2>3 DEF r, q
<1> DEFINE Q == {k \in Nat : k <= N => (JudgedIn(given, f[k]) = {} \/ Cardinality(K(k)) >= k)}
<1>10. 0 \in Q
  BY <1>3
<1>11. \A k \in Nat : k \in Q => k + 1 \in Q
  <2> SUFFICES ASSUME NEW k \in Nat, k \in Q, k + 1 <= N
               PROVE  JudgedIn(given, f[k + 1]) = {} \/ Cardinality(K(k + 1)) >= k + 1
    OBVIOUS
  <2>1. /\ f[k + 1] = JudgeAll(given, f[k]) /\ k <= N /\ IsRound(f[k])
        /\ Agrees(given, f[k].verdict, f[k + 1].verdict)
    BY <1>1, <1>2, <1>7, <1>8
  <2>2. CASE JudgedIn(given, f[k]) = {}
    <3>1. /\ f[k + 1].verdict = [s \in given.states |-> f[k + 1].verdict[s]]
          /\ \A s \in given.states : f[k + 1].verdict[s] = f[k].verdict[s]
          /\ f[k + 1].touched = f[k].touched
      BY <1>9, <2>2, ZenonT(60)
    <3>2. f[k + 1].verdict = f[k].verdict
      BY <2>1, <3>1 DEF IsRound, Verdicts
    <3> QED
      BY <2>2, <3>1, <3>2 DEF JudgedIn
  <2>3. CASE JudgedIn(given, f[k]) # {}
    <3>1. PICK s \in JudgedIn(given, f[k]) : TRUE
      BY <2>3
    <3>2. s \in A /\ s \notin K(k) /\ s \in K(k + 1)
      <4>1. /\ s \in given.states /\ f[k].verdict[s] = "unknown"
            /\ f[k + 1].verdict[s] = Verdict(given, f[k].verdict, s)
            /\ Verdict(given, f[k].verdict, s) # "unknown"
        BY <1>9, <3>1
      <4> QED
        BY <4>1 DEF K
    <3>3. K(k) \in SUBSET K(k + 1)
      BY <2>1 DEF Agrees, K
    <3>4. Cardinality(K(k)) <= Cardinality(K(k + 1)) /\ Cardinality(K(k)) # Cardinality(K(k + 1))
      BY <1>3, <3>2, <3>3, FS_Subset
    <3>5. Cardinality(K(k)) >= k
      BY <2>1, <2>3
    <3> QED
      BY <1>3, <3>4, <3>5
  <2> QED
    BY <2>2, <2>3
<1> HIDE DEF Q
<1>12. N \in Q
  BY <1>2, <1>10, <1>11, SetInduction
<1>13. JudgedIn(given, f[N]) = {}
  <2>1. CASE Cardinality(K(N)) >= N
    <3>1. K(N) = A
      BY <1>2, <1>3, <1>4, <2>1
    <3> QED
      BY <3>1 DEF JudgedIn, Known, K
  <2> QED
    BY <1>2, <1>12, <2>1 DEF Q
<1>14. IsRound(f[N]) /\ IsSettled(FixedPoint)
  BY <1>1, <1>2, <1>7, <1>13, SettledMeansNone
<1>15. ASSUME NEW v \in Verdicts, Agrees(given, Beginning, v), Agrees(given, v, FixedPoint), IsSettled(v)
       PROVE  v = FixedPoint
  <2> DEFINE P == {k \in Nat : k <= N => Agrees(given, f[k].verdict, v)}
  <2>1. 0 \in P
    BY <1>1, <1>15
  <2>2. \A k \in Nat : k \in P => k + 1 \in P
    <3> SUFFICES ASSUME NEW k \in Nat, k \in P, k + 1 <= N
                 PROVE  Agrees(given, f[k + 1].verdict, v)
      OBVIOUS
    <3>1. /\ f[k + 1] = JudgeAll(given, f[k]) /\ IsRound(f[k]) /\ Agrees(given, f[k].verdict, v)
      BY <1>1, <1>2, <1>7
    <3>2. \A s \in given.states :
            f[k + 1].verdict[s] = IF s \in JudgedIn(given, f[k]) THEN Verdict(given, f[k].verdict, s)
                                                                 ELSE f[k].verdict[s]
      BY <1>9
    <3>3. ASSUME NEW s \in JudgedIn(given, f[k])
          PROVE  v[s] = Verdict(given, f[k].verdict, s)
      <4>1. /\ s \in given.states \ {EmptyState} /\ Verdict(given, f[k].verdict, s) # "unknown"
            /\ \E e \in Out(given, s) : e.target \in f[k].touched
        BY DEF JudgedIn, Known
      <4>2. Verdict(given, v, s) = Verdict(given, f[k].verdict, s)
        BY <3>1, <4>1, GivenIsGraph, VerdictLasts
      <4>3. f[k].touched \subseteq TouchedBy(v)
        BY <3>1 DEF IsRound, TouchedBy, TouchedIn, Agrees
      <4>4. v[s] # "unknown"
        BY <1>15, <4>1, <4>2, <4>3 DEF IsSettled
      <4>5. FixedPoint[s] = v[s]
        BY <1>15, <4>1, <4>4 DEF Agrees
      <4>6. Beginning[s] = "unknown"
        BY <3>1, <4>1 DEF JudgedIn, Known, IsRound, Agrees
      <4>7. FixedPoint[s] = Verdict(given, FixedPoint, s)
        BY <1>1, <1>14, <4>1, <4>4, <4>5, <4>6 DEF IsRound
      <4>8. Verdict(given, FixedPoint, s) = Verdict(given, v, s)
        BY <1>15, <4>1, <4>2, GivenIsGraph, VerdictLasts
      <4> QED
        BY <4>2, <4>5, <4>7, <4>8
    <3> QED
      BY <3>1, <3>2, <3>3 DEF Agrees
  <2> HIDE DEF P
  <2>3. N \in P
    BY <1>2, <2>1, <2>2, SetInduction
  <2>4. Agrees(given, FixedPoint, v)
    BY <1>1, <1>2, <2>3 DEF P
  <2>5. FixedPoint \in Verdicts
    BY <1>1, <1>14 DEF IsRound
  <2>6. \A s \in given.states : v[s] = FixedPoint[s]
    BY <1>15, <2>4 DEF Agrees
  <2> QED
    BY <1>15, <2>5, <2>6 DEF Verdicts
<1> QED
  BY <1>1, <1>14, <1>15 DEF IsRound

-----------------------------------------------------------------------------
(***************************************************************************)
(* During the rounds, with verdicts b in the beginning and those of F in   *)
(* the end: what is known is right, and where a verdict could be given a   *)
(* state waits or has a successor that is marked or to be marked.          *)
(***************************************************************************)
RoundsFitIn(a, b, F, v, m, w) ==
  /\ v \in [a.states -> {"unknown", "safe", "unsafe"}]
  /\ Agrees(a, b, v) /\ Agrees(a, v, F)
  /\ m \subseteq TouchedIn(a, b, v)
  /\ \A s \in w : \E e \in Out(a, s) : e.target \in TouchedIn(a, b, v)
  /\ \A s \in (a.states \ {EmptyState}) \ w :
       (/\ v[s] = "unknown" /\ Verdict(a, v, s) # "unknown"
        /\ \E e \in Out(a, s) : e.target \in TouchedIn(a, b, v))
         => \E e \in Out(a, s) : e.target \in m

\* A state is judged.
LEMMA JudgingFits ==
  ASSUME NEW a, IsGraph(a), NEW b, NEW F, NEW v, NEW m, NEW w, RoundsFitIn(a, b, F, v, m, w),
         \A s \in a.states : (F[s] # "unknown" /\ b[s] = "unknown") => F[s] = Verdict(a, F, s),
         \A s \in a.states \ {EmptyState} :
           (F[s] = "unknown" /\ \E e \in Out(a, s) : e.target \in TouchedIn(a, b, F))
             => Verdict(a, F, s) = "unknown",
         NEW r \in w, r \in a.states \ {EmptyState}, v[r] = "unknown",
         NEW u, u = [v EXCEPT ![r] = Verdict(a, v, r)],
         NEW k, k = IF Verdict(a, v, r) = "unknown" THEN m ELSE m \cup {r}
  PROVE  RoundsFitIn(a, b, F, u, k, w \ {r})
<1>1. /\ v \in [a.states -> {"unknown", "safe", "unsafe"}]
      /\ Agrees(a, b, v) /\ Agrees(a, v, F)
      /\ m \subseteq TouchedIn(a, b, v)
      /\ \A s \in w : \E e \in Out(a, s) : e.target \in TouchedIn(a, b, v)
      /\ \A s \in (a.states \ {EmptyState}) \ w :
           (/\ v[s] = "unknown" /\ Verdict(a, v, s) # "unknown"
            /\ \E e \in Out(a, s) : e.target \in TouchedIn(a, b, v))
             => \E e \in Out(a, s) : e.target \in m
  BY DEF RoundsFitIn
<1>2. CASE Verdict(a, v, r) = "unknown"
  <2>1. u = v /\ k = m
    BY <1>1, <1>2
  <2> QED
    BY <1>1, <1>2, <2>1 DEF RoundsFitIn
<1>3. CASE Verdict(a, v, r) # "unknown"
  <2> DEFINE x == Verdict(a, v, r)
  <2>1. x \in {"safe", "unsafe"}
    BY <1>3 DEF Verdict
  <2>2. /\ \A s \in a.states : u[s] = IF s = r THEN x ELSE v[s]
        /\ u \in [a.states -> {"unknown", "safe", "unsafe"}]
    BY <1>1, <2>1
  <2>3. b[r] = "unknown"
    BY <1>1 DEF Agrees
  <2>4. Verdict(a, F, r) = x
    BY <1>1, <1>3, VerdictLasts
  <2>5. \E e \in Out(a, r) : e.target \in TouchedIn(a, b, F)
    BY <1>1 DEF TouchedIn, Agrees
  <2>6. F[r] = x
    BY <1>3, <2>3, <2>4, <2>5
  <2> HIDE DEF x
  <2>7. Agrees(a, b, u) /\ Agrees(a, u, F)
    BY <1>1, <2>2, <2>3, <2>6 DEF Agrees
  <2>8. TouchedIn(a, b, u) = TouchedIn(a, b, v) \cup {r}
    BY <2>1, <2>2, <2>3 DEF TouchedIn
  <2>9. k = m \cup {r}
    BY <1>3
  <2>10. ASSUME NEW s \in (a.states \ {EmptyState}) \ (w \ {r}), u[s] = "unknown",
                Verdict(a, u, s) # "unknown",
                \E e \in Out(a, s) : e.target \in TouchedIn(a, b, u)
         PROVE  \E e \in Out(a, s) : e.target \in k
    <3>1. s # r /\ s \notin w /\ v[s] = "unknown"
      BY <2>1, <2>2, <2>10
    <3>2. CASE \E e \in Out(a, s) : e.target = r
      BY <2>9, <3>2
    <3>3. CASE \A e \in Out(a, s) : e.target # r
      <4>1. \A e \in Out(a, s) : e.target \in a.states
        BY DEF IsGraph, Out
      <4>2. SeesSame(a, s, u, v)
        BY <2>2, <3>3, <4>1 DEF SeesSame
      <4>3. Verdict(a, u, s) = Verdict(a, v, s)
        BY <4>2, VerdictIsLocal
      <4>4. \E e \in Out(a, s) : e.target \in TouchedIn(a, b, v)
        BY <2>8, <2>10, <3>3
      <4> QED
        BY <1>1, <2>9, <2>10, <3>1, <4>3, <4>4
    <3> QED
      BY <3>2, <3>3
  <2>11. /\ k \subseteq TouchedIn(a, b, u)
         /\ \A s \in w \ {r} : \E e \in Out(a, s) : e.target \in TouchedIn(a, b, u)
    BY <1>1, <2>8, <2>9
  <2> QED
    BY <2>2, <2>7, <2>10, <2>11 DEF RoundsFitIn
<1> QED
  BY <1>2, <1>3

\* The predecessors of a marked state are put to wait.
LEMMA TakingFits ==
  ASSUME NEW a, IsGraph(a), NEW b, NEW F, NEW v, NEW m, RoundsFitIn(a, b, F, v, m, {}),
         NEW r \in m, NEW k, m \subseteq k \cup {r}, k \subseteq m
  PROVE  RoundsFitIn(a, b, F, v, k, UndeterminedPredecessors(a, v, r))
<1> DEFINE w == UndeterminedPredecessors(a, v, r)
<1>1. \A s : s \in w <=> \E e \in Out(a, s) : e.target = r /\ ~ Known(v, s)
  BY DEF UndeterminedPredecessors, In, Out
<1>2. r \in TouchedIn(a, b, v)
  BY DEF RoundsFitIn
<1> HIDE DEF w
<1>3. \A s \in w : \E e \in Out(a, s) : e.target \in TouchedIn(a, b, v)
  BY <1>1, <1>2
<1>4. ASSUME NEW s \in (a.states \ {EmptyState}) \ w, v[s] = "unknown",
             Verdict(a, v, s) # "unknown",
             \E e \in Out(a, s) : e.target \in TouchedIn(a, b, v)
      PROVE  \E e \in Out(a, s) : e.target \in k
  <2>1. PICK e \in Out(a, s) : e.target \in m
    BY <1>4 DEF RoundsFitIn
  <2>2. e.target # r
    BY <1>1, <1>4 DEF Known
  <2> QED
    BY <2>1, <2>2
<1>5. RoundsFitIn(a, b, F, v, k, w)
  BY <1>3, <1>4 DEF RoundsFitIn
<1> QED
  BY <1>5 DEF w

-----------------------------------------------------------------------------
\* A component that may be condemned, and one that has been.
IsDoomed(C) == \A s \in C : s \notin given.final \cup given.violation \cup {EmptyState}

IsCondemned(C) == C \in Components(given) /\ IsDoomed(C) /\ \A s \in C : safety[s] = "unsafe"

DeadEndsFit == \A s \in given.states : safety[s] # "unknown" => \E C : IsCondemned(C) /\ s \in C

RoundsFit ==
  RoundsFitIn(given, Beginning, FixedPoint, safety, marked \cup result, waiting)

OrderInv ==
  /\ phase \in {"deadEnds", "deadlocks"} => result = {}
  /\ phase = "deadEnds"  => DeadEndsFit
  /\ phase = "deadlocks" => safety = DeadEndVerdicts
  /\ phase = "rounds"    => RoundsFit
  /\ phase = "marked"    => safety = FixedPoint

\* The references depend on the automaton that was handed over alone.
LEMMA ReferencesStay ==
  ASSUME given' = given
  PROVE  DeadEndVerdicts' = DeadEndVerdicts /\ Beginning' = Beginning /\ FixedPoint' = FixedPoint
<1>1. DeadEndVerdicts' = DeadEndVerdicts
  BY DEF DeadEndVerdicts
<1>2. Beginning' = Beginning
  BY <1>1 DEF Beginning
<1>3. FixedPoint' = FixedPoint
  BY <1>1 DEF FixedPoint
<1> QED
  BY <1>1, <1>2, <1>3

\* Components have states of the automaton.
LEMMA ComponentsWithin ==
  IInv => \A C \in Components(given) : C \subseteq given.states
<1> SUFFICES ASSUME IInv, NEW C \in Components(given) PROVE C \subseteq given.states
  OBVIOUS
<1>1. IsGraph(given)
  BY GivenIsGraph
<1>2. PICK c \in ReachFrom(given, given.initial) : C = Component(given, c)
  BY DEF Components
<1>3. c \in given.states
  BY <1>1, <1>2, ReachIsLeast DEF IsGraph
<1>4. ReachFrom(given, {c}) \subseteq given.states
  BY <1>1, <1>3, ReachIsLeast
<1> QED
  BY <1>2, <1>4 DEF Component

\* The verdicts on dead ends.
LEMMA DeadEndVerdictsAre ==
  ASSUME IInv, NEW s \in given.states
  PROVE  DeadEndVerdicts[s] = IF \E C \in Components(given) : IsDoomed(C) /\ s \in C
                              THEN "unsafe" ELSE "unknown"
<1> DEFINE v == [r \in given.states |-> "unknown"]
           D == UNION {C \in Components(given) : IsDeadEndComponent(given, v, C)}
<1>1. ASSUME NEW C \in Components(given)
      PROVE  IsDeadEndComponent(given, v, C) <=> IsDoomed(C)
  <2>1. C \subseteq given.states
    BY ComponentsWithin
  <2>2. \A r \in C : Known(v, r) <=> r = EmptyState
    BY <2>1 DEF Known
  <2>3. \A r \in C : \A e \in Out(given, r) : ToEmpty(e) \/ ~ Known(v, e.target)
    BY AutomataAssumption DEF IInv, TypeOK, Out, ToEmpty, Known
  <2> HIDE DEF v
  <2> QED
    BY <2>2, <2>3 DEF IsDeadEndComponent, IsDoomed
<1>2. s \in D <=> \E C \in Components(given) : IsDoomed(C) /\ s \in C
  <2> HIDE DEF v
  <2> QED
    BY <1>1
<1>3. DeadEndVerdicts = [r \in given.states |-> IF r \in D THEN "unsafe" ELSE v[r]]
  <2>1. DeadEndVerdicts = Condemn(v, D)
    BY DEF DeadEndVerdicts
  <2>2. DOMAIN v = given.states
    OBVIOUS
  <2> HIDE DEF v, D
  <2> QED
    BY <2>1, <2>2 DEF Condemn
<1> QED
  BY <1>2, <1>3

\* A dead end is condemned whole.
LEMMA MarkDeadEndInOrder ==
  ASSUME IInv, OrderInv, MarkDeadEnd
  PROVE  OrderInv'
<1>1. PICK C \in DeadEnds : safety' = Condemn(safety, C)
  BY DEF MarkDeadEnd
<1>2. /\ phase = "deadEnds"
      /\ UNCHANGED <<given, automaton, phase, marked, result, waiting, remarked>>
  BY DEF MarkDeadEnd
<1>3. automaton = given /\ C \in Components(given) /\ C \subseteq given.states
  BY <1>1, <1>2, ComponentsWithin DEF IInv, AutomatonKept, DeadEnds
<1>4. IsDoomed(C)
  BY <1>1, <1>3 DEF DeadEnds, IsDeadEndComponent, IsDoomed
<1>5. \A s \in given.states : safety'[s] = IF s \in C THEN "unsafe" ELSE safety[s]
  BY <1>1, Condemned
<1>6. IsDoomed(C)' /\ \A B : IsDoomed(B) => IsDoomed(B)'
  BY <1>2, <1>4 DEF IsDoomed
<1>7. IsCondemned(C)'
  BY <1>2, <1>3, <1>5, <1>6 DEF IsCondemned
<1>8. ASSUME NEW B, IsCondemned(B) PROVE IsCondemned(B)'
  <2>1. B \subseteq given.states
    BY <1>8, ComponentsWithin DEF IsCondemned
  <2> QED
    BY <1>2, <1>5, <1>6, <1>8, <2>1 DEF IsCondemned
<1>9. DeadEndsFit'
  <2> SUFFICES ASSUME NEW s \in given.states, safety'[s] # "unknown"
               PROVE  \E B : IsCondemned(B)' /\ s \in B
    BY <1>2 DEF DeadEndsFit
  <2>1. CASE s \in C
    BY <1>7, <2>1
  <2>2. CASE s \notin C
    <3>1. safety[s] # "unknown"
      BY <1>5, <2>2
    <3> QED
      BY <1>2, <1>8, <3>1 DEF OrderInv, DeadEndsFit
  <2> QED
    BY <2>1, <2>2
<1> QED
  BY <1>2, <1>9 DEF OrderInv

\* When there is none left, all are condemned.
LEMMA NoDeadEndInOrder ==
  ASSUME IInv, OrderInv, NoDeadEnd
  PROVE  OrderInv'
<1>1. /\ phase = "deadEnds" /\ DeadEnds = {} /\ phase' = "deadlocks"
      /\ UNCHANGED <<given, automaton, safety, marked, result, waiting, remarked>>
  BY DEF NoDeadEnd
<1>2. automaton = given /\ DeadEndsFit /\ \A s \in given.states : safety[s] # "safe"
  BY <1>1 DEF IInv, AutomatonKept, OrderInv, NothingSafeYet
<1>3. safety \in Verdicts /\ DeadEndVerdicts \in Verdicts
  BY BeginningType DEF IInv, TypeOK, Verdicts
<1>4. ASSUME NEW s \in given.states
      PROVE  safety[s] = IF \E C \in Components(given) : IsDoomed(C) /\ s \in C
                         THEN "unsafe" ELSE "unknown"
  <2>1. safety[s] \in {"unknown", "unsafe"}
    BY <1>2, <1>3 DEF Verdicts
  <2>2. safety[s] # "unknown" => \E C \in Components(given) : IsDoomed(C) /\ s \in C
    BY <1>2 DEF DeadEndsFit, IsCondemned
  <2>3. ASSUME NEW C \in Components(given), IsDoomed(C), s \in C
        PROVE  safety[s] = "unsafe"
    <3>1. C \subseteq given.states
      BY ComponentsWithin
    <3>2. PICK r \in C : safety[r] # "unknown"
      <4>1. SUFFICES ASSUME \A r \in C : safety[r] = "unknown" PROVE FALSE
        OBVIOUS
      <4>2. \A r \in C : \A e \in Out(given, r) : ~ IsSafe(safety, e.target) \/ ToEmpty(e)
        BY <1>2, AutomataAssumption DEF IInv, TypeOK, Out, ToEmpty, IsSafe
      <4>3. IsDeadEndComponent(given, safety, C)
        BY <2>3, <3>1, <4>1, <4>2 DEF IsDeadEndComponent, IsDoomed, Known
      <4> QED
        BY <1>1, <1>2, <4>3 DEF DeadEnds
    <3>3. PICK B : IsCondemned(B) /\ r \in B
      BY <1>2, <3>1, <3>2 DEF DeadEndsFit
    <3>4. B = C
      BY <3>2, <3>3, GivenIsGraph, ComponentsApart DEF IsCondemned
    <3> QED
      BY <2>3, <3>3, <3>4 DEF IsCondemned
  <2> QED
    BY <2>1, <2>2, <2>3
<1>5. \A s \in given.states : safety[s] = DeadEndVerdicts[s]
  BY <1>4, DeadEndVerdictsAre
<1>6. safety = DeadEndVerdicts
  BY <1>3, <1>5 DEF Verdicts
<1> QED
  BY <1>1, <1>6, ReferencesStay DEF OrderInv

\* The rounds begin with the deadlocks.
LEMMA DeadlocksInOrder ==
  ASSUME IInv, OrderInv, FindInitialUnsafeStates
  PROVE  OrderInv'
<1>1. /\ safety' = Condemn(safety, InitialUnsafe(automaton)) /\ marked' = InitialUnsafe(automaton)
      /\ phase = "deadlocks" /\ phase' = "rounds"
      /\ UNCHANGED <<given, automaton, result, waiting>>
  BY DEF FindInitialUnsafeStates
<1>2. automaton = given /\ waiting = {} /\ result = {} /\ safety = DeadEndVerdicts
  BY <1>1 DEF IInv, AutomatonKept, NothingSafeYet, OrderInv
<1>3. safety' = Beginning /\ marked' \cup result' = InitialUnsafe(given)
  BY <1>1, <1>2 DEF Beginning
<1>4. Beginning \in [given.states -> {"unknown", "safe", "unsafe"}]
  BY BeginningType DEF Verdicts
<1>5. TouchedIn(given, Beginning, Beginning) = InitialUnsafe(given)
  BY DEF TouchedIn
<1>6. Agrees(given, Beginning, Beginning) /\ Agrees(given, Beginning, FixedPoint)
  BY FixedPointIs DEF Agrees
<1>7. RoundsFitIn(given, Beginning, FixedPoint, Beginning, InitialUnsafe(given), {})
  BY <1>4, <1>5, <1>6 DEF RoundsFitIn
<1>8. RoundsFit'
  BY <1>1, <1>2, <1>3, <1>7, ReferencesStay DEF RoundsFit
<1> QED
  BY <1>1, <1>8 DEF OrderInv

\* A set of marked states' predecessors is taken up.
LEMMA TakeMarkedInOrder ==
  ASSUME IInv, OrderInv, TakeMarked
  PROVE  OrderInv'
<1>1. PICK s \in marked : /\ marked' = marked \ {s}
                          /\ waiting' = UndeterminedPredecessors(automaton, safety, s)
  BY DEF TakeMarked
<1>2. /\ phase = "rounds" /\ waiting = {}
      /\ UNCHANGED <<given, automaton, safety, phase, result, remarked>>
  BY DEF TakeMarked
<1>3. automaton = given /\ RoundsFit
  BY <1>2 DEF IInv, AutomatonKept, OrderInv
<1>4. RoundsFitIn(given, Beginning, FixedPoint, safety, marked \cup result, {})
  BY <1>2, <1>3 DEF RoundsFit
<1>5. RoundsFitIn(given, Beginning, FixedPoint, safety, marked' \cup result, waiting')
  <2> DEFINE m == marked \cup result
             k == marked' \cup result
  <2>1. s \in m /\ m \subseteq k \cup {s} /\ k \subseteq m
    BY <1>1
  <2> HIDE DEF m, k
  <2>2. RoundsFitIn(given, Beginning, FixedPoint, safety, k, UndeterminedPredecessors(given, safety, s))
    BY <1>4, <2>1, GivenIsGraph, TakingFits DEF m
  <2> QED
    BY <1>1, <1>3, <2>2 DEF k
<1>6. RoundsFit'
  BY <1>2, <1>5, ReferencesStay DEF RoundsFit
<1> QED
  BY <1>2, <1>6 DEF OrderInv

\* One of them is judged, on what is known by then.
LEMMA DetermineSafetyInOrder ==
  ASSUME IInv, OrderInv, DetermineSafety
  PROVE  OrderInv'
<1>1. PICK r \in waiting :
         /\ waiting' = waiting \ {r}
         /\ safety' = [safety EXCEPT ![r] = Verdict(automaton, safety, r)]
         /\ result' = IF Verdict(automaton, safety, r) = "unknown" THEN result
                                                                  ELSE result \cup {r}
  BY DEF DetermineSafety
<1>2. phase = "rounds" /\ UNCHANGED <<given, automaton, phase, marked, remarked>>
  BY DEF DetermineSafety
<1>3. /\ automaton = given /\ RoundsFit /\ r \in given.states \ {EmptyState}
      /\ safety[r] = "unknown"
  BY <1>2 DEF IInv, AutomatonKept, OrderInv, TypeOK, WaitingUnknown, Known
<1> DEFINE m == marked \cup result
           k == marked' \cup result'
<1>4. RoundsFitIn(given, Beginning, FixedPoint, safety, m, waiting)
  BY <1>3 DEF RoundsFit
<1>5. k = IF Verdict(given, safety, r) = "unknown" THEN m ELSE m \cup {r}
  BY <1>1, <1>2, <1>3
<1>6. /\ \A s \in given.states : (FixedPoint[s] # "unknown" /\ Beginning[s] = "unknown")
                                   => FixedPoint[s] = Verdict(given, FixedPoint, s)
      /\ IsSettled(FixedPoint)
  BY FixedPointIs
<1>7. \A s \in given.states \ {EmptyState} :
        (/\ FixedPoint[s] = "unknown"
         /\ \E e \in Out(given, s) : e.target \in TouchedIn(given, Beginning, FixedPoint))
          => Verdict(given, FixedPoint, s) = "unknown"
  BY <1>6 DEF IsSettled, TouchedBy
<1> HIDE DEF m, k
<1>8. RoundsFitIn(given, Beginning, FixedPoint, safety', k, waiting \ {r})
  BY <1>1, <1>3, <1>4, <1>5, <1>6, <1>7, GivenIsGraph, JudgingFits
<1>9. RoundsFit'
  BY <1>1, <1>2, <1>8, ReferencesStay DEF RoundsFit, k
<1> QED
  BY <1>2, <1>9 DEF OrderInv

\* The last round leaves nothing to judge.
LEMMA NextRoundInOrder ==
  ASSUME IInv, OrderInv, NextRound
  PROVE  OrderInv'
<1>1. /\ phase = "rounds" /\ marked = {} /\ waiting = {}
      /\ marked' = result /\ result' = {}
      /\ phase' = IF result = {} THEN "marked" ELSE "rounds"
      /\ UNCHANGED <<given, automaton, safety, waiting, remarked>>
  BY DEF NextRound
<1>2. RoundsFitIn(given, Beginning, FixedPoint, safety, marked \cup result, waiting)
  BY <1>1 DEF OrderInv, RoundsFit
<1>3. marked \cup result = marked' \cup result'
  BY <1>1
<1>4. RoundsFit'
  BY <1>1, <1>2, <1>3, ReferencesStay DEF RoundsFit
<1>5. ASSUME result = {} PROVE safety = FixedPoint
  <2>1. /\ safety \in Verdicts /\ Agrees(given, Beginning, safety) /\ Agrees(given, safety, FixedPoint)
    BY <1>2 DEF RoundsFitIn, Verdicts
  <2>2. marked \cup result = {} /\ waiting = {}
    BY <1>1, <1>5
  <2>3. IsSettled(safety)
    BY <1>2, <2>2 DEF RoundsFitIn, IsSettled, TouchedBy
  <2> QED
    BY <2>1, <2>3, FixedPointIs
<1> QED
  BY <1>1, <1>4, <1>5, ReferencesStay DEF OrderInv

\* For every automaton, the filter comes to the same verdicts in every order.
THEOREM OrderIsIrrelevant == Spec => []OrderIrrelevant
<1>1. Init => OrderInv
  BY DEF Init, OrderInv, DeadEndsFit
<1>2. IInv /\ OrderInv /\ [Next]_vars => OrderInv'
  <2> SUFFICES ASSUME IInv, OrderInv, [Next]_vars PROVE OrderInv'
    OBVIOUS
  <2>1. CASE Marking
    BY <2>1, MarkDeadEndInOrder, NoDeadEndInOrder, DeadlocksInOrder, TakeMarkedInOrder,
       DetermineSafetyInOrder, NextRoundInOrder DEF Marking
  <2>2. CASE KeepUnsafeStates \/ RemoveUnsafeStates \/ RemoveUnreachableStates
    BY <2>2 DEF KeepUnsafeStates, RemoveUnsafeStates, RemoveUnreachableStates, OrderInv
  <2>3. CASE UNCHANGED vars
    <3>1. DeadEndsFit => DeadEndsFit'
      BY <2>3 DEF vars, DeadEndsFit, IsCondemned, IsDoomed
    <3>2. RoundsFit => RoundsFit'
      BY <2>3, ReferencesStay DEF vars, RoundsFit
    <3> QED
      BY <2>3, <3>1, <3>2, ReferencesStay DEF vars, OrderInv
  <2> QED
    BY <2>1, <2>2, <2>3 DEF Next
<1>3. IInv /\ OrderInv => OrderIrrelevant
  BY DEF OrderInv, OrderIrrelevant
<1> QED
  BY <1>1, <1>2, <1>3, IInvHolds, PTL DEF Spec

-----------------------------------------------------------------------------
(***************************************************************************)
(* The filter ConstructRegionAutomaton, for every closure automaton and in *)
(* whatever order edges are followed.  A region is grown until nothing the *)
(* service or time does leads out of it but to what was visited before; as *)
(* the regions before are closed as well, it does not lead there either.   *)
(***************************************************************************)
\* What the regions are told apart by, for one automaton.
ClosedIn(a, P) ==
  \A e \in a.edges :
    (StaysInRegion(e) /\ {e.source, e.target} \cap {EmptyState} = {})
       => (e.source \in P <=> e.target \in P)

ConnectedIn(a, R) == \A P \in (SUBSET R) \ {{}, R} : ~ ClosedIn(a, P)

IsSearchable(a) ==
  /\ IsFiniteSet(a.states) /\ a.initial \subseteq a.states \ {EmptyState}
  /\ \A s, t \in a.initial : s = t
  /\ \A e \in a.edges : e.source \in a.states /\ e.target \in a.states

\* The state s has grown to G among the states that are not in v.
Grown(a, v, s, G) ==
  /\ s \in G /\ G \subseteq a.states \ (v \cup {EmptyState})
  /\ Neighbours(a, G) \subseteq G \cup v \cup {EmptyState}
  /\ \A C : s \in C /\ Neighbours(a, C) \subseteq C \cup v \cup {EmptyState} => G \subseteq C

\* The rounds of Grow.
LEMMA GrowRounds ==
  ASSUME NEW s, IsFiniteSet(automaton.states)
  PROVE  \E f : /\ f[0] = {s}
                /\ \A k \in Nat : k + 1 <= Cardinality(automaton.states)
                                    => f[k + 1] = (f[k] \cup Neighbours(automaton, f[k]))
                                                    \ (visited \cup {EmptyState})
                /\ Grow(s) = f[Cardinality(automaton.states)]
<1> DEFINE n == Cardinality(automaton.states)
           a == <<automaton, visited>>
           Fresh(P) == (P \cup Neighbours(automaton, P)) \ (visited \cup {EmptyState})
           g == CHOOSE h : h = [k \in 0 .. n |->
                  IF k = 0 THEN {s} ELSE UNION {Fresh(P) : P \in {h[k - 1]}}]
<1>1. n \in Nat
  BY FS_CardinalityType
<1>2. Grow(s) = g[n]
  BY DEF Grow
<1> HIDE DEF n
<1>3. \A Q : UNION {Fresh(P) : P \in {Q}} = Round("grow", a, Q)
  BY DEF Round
<1>4. PICK f : IsRounds(f, "grow", a, {s}, n)
  BY <1>1, RoundsExist
<1> HIDE DEF Fresh
<1>5. f = [k \in 0 .. n |-> IF k = 0 THEN {s} ELSE UNION {Fresh(P) : P \in {f[k - 1]}}]
  BY <1>3, <1>4 DEF IsRounds
<1>6. g = [k \in 0 .. n |-> IF k = 0 THEN {s} ELSE UNION {Fresh(P) : P \in {g[k - 1]}}]
  BY <1>5
<1>7. IsRounds(g, "grow", a, {s}, n)
  BY <1>3, <1>6 DEF IsRounds
<1>8. g[0] = {s} /\ \A k \in Nat : k + 1 <= n => g[k + 1] = Round("grow", a, g[k])
  <2> HIDE DEF g, a
  <2> QED
    BY <1>1, <1>7, RoundByRound
<1>9. \A P : Round("grow", a, P) = Fresh(P)
  BY DEF Round, Fresh
<1> HIDE DEF g, a
<1> QED
  BY <1>2, <1>8, <1>9 DEF n, Fresh

\* Growing comes to the least set that has s and that only visited states can be entered from.
LEMMA GrowIsGrown ==
  ASSUME NEW s, IsSearchable(automaton), s \in automaton.states \ (visited \cup {EmptyState})
  PROVE  Grown(automaton, visited, s, Grow(s))
<1> DEFINE a == automaton
           v == visited \cup {EmptyState}
           U == automaton.states \ v
           all == Cardinality(automaton.states)
           N == Cardinality(U)
           Closed == {P \in SUBSET U : Neighbours(a, P) \subseteq P \cup v}
<1>1. IsFiniteSet(a.states) /\ IsFiniteSet(U)
  BY FS_Subset DEF IsSearchable
<1>2. N \in Nat /\ all \in Nat /\ N <= all
  BY <1>1, FS_Subset, FS_CardinalityType
<1>3. PICK f : /\ f[0] = {s}
               /\ \A k \in Nat : k + 1 <= all
                                   => f[k + 1] = (f[k] \cup Neighbours(a, f[k])) \ v
               /\ Grow(s) = f[all]
  BY <1>1, GrowRounds
<1>4. \A P : Neighbours(a, P) \subseteq a.states
  BY DEF Neighbours, IsSearchable
<1>5. U \in Closed
  BY <1>4
<1> HIDE DEF N, all
<1> DEFINE Fits(k) == f[k] \in SUBSET U /\ s \in f[k]
           T == {k \in Nat : k <= all => Fits(k)}
<1>6. \A k \in Nat : k \in T
  <2>1. 0 \in T
    BY <1>3
  <2>2. \A k \in Nat : k \in T => k + 1 \in T
    <3> SUFFICES ASSUME NEW k \in Nat, k \in T, k + 1 <= all PROVE Fits(k + 1)
      OBVIOUS
    <3>1. k <= all /\ f[k + 1] = (f[k] \cup Neighbours(a, f[k])) \ v
      BY <1>2, <1>3
    <3> QED
      BY <1>4, <3>1
  <2> HIDE DEF T
  <2> QED
    BY <2>1, <2>2, SetInduction
<1>7. ASSUME NEW k \in Nat, k + 1 <= all
      PROVE  /\ f[k] \subseteq f[k + 1]
             /\ f[k] \in Closed <=> f[k + 1] = f[k]
  <2>1. f[k + 1] = (f[k] \cup Neighbours(a, f[k])) \ v /\ f[k] \in SUBSET U
    BY <1>2, <1>3, <1>6, <1>7
  <2> QED
    BY <2>1
<1>8. \A k \in 0 .. N : f[k] \in SUBSET U
  BY <1>2, <1>6
<1>9. f[N] \in Closed
  <2>1. ASSUME NEW k \in 1 .. N
        PROVE  /\ f[k - 1] \subseteq f[k]
               /\ f[k - 1] \in Closed <=> f[k] = f[k - 1]
    <3>1. k - 1 \in Nat /\ (k - 1) + 1 = k /\ k <= all
      BY <1>2
    <3> QED
      BY <1>7, <3>1
  <2> HIDE DEF Closed, U
  <2> QED
    BY <1>1, <1>5, <1>8, <2>1, GrowthEnds DEF N
<1> DEFINE Q == {k \in Nat : N <= k /\ k <= all => f[k] \in Closed}
<1>10. \A k \in Nat : k \in Q
  <2>1. 0 \in Q
    BY <1>2, <1>9
  <2>2. \A k \in Nat : k \in Q => k + 1 \in Q
    <3> SUFFICES ASSUME NEW k \in Nat, k \in Q, N <= k + 1, k + 1 <= all PROVE f[k + 1] \in Closed
      OBVIOUS
    <3>1. CASE k + 1 = N
      BY <1>9, <3>1
    <3>2. CASE N <= k
      <4>1. f[k] \in Closed
        BY <1>2, <3>2
      <4> QED
        BY <1>7, <4>1
    <3> QED
      BY <1>2, <3>1, <3>2
  <2> HIDE DEF Q
  <2> QED
    BY <2>1, <2>2, SetInduction
<1>11. f[all] \in Closed /\ s \in f[all]
  BY <1>2, <1>6, <1>10
<1>12. ASSUME NEW C, s \in C, Neighbours(a, C) \subseteq C \cup v
       PROVE  f[all] \subseteq C
  <2> DEFINE W == {k \in Nat : k <= all => f[k] \subseteq C}
  <2>1. 0 \in W
    BY <1>3, <1>12
  <2>2. \A k \in Nat : k \in W => k + 1 \in W
    <3> SUFFICES ASSUME NEW k \in Nat, k \in W, k + 1 <= all PROVE f[k + 1] \subseteq C
      OBVIOUS
    <3>1. f[k] \subseteq C /\ f[k + 1] = (f[k] \cup Neighbours(a, f[k])) \ v
      BY <1>2, <1>3
    <3>2. Neighbours(a, f[k]) \subseteq C \cup v
      BY <1>12, <3>1 DEF Neighbours
    <3> QED
      BY <3>1, <3>2
  <2> HIDE DEF W
  <2>3. all \in W
    BY <1>2, <2>1, <2>2, SetInduction
  <2> QED
    BY <1>2, <2>3 DEF W
<1> QED
  BY <1>3, <1>11, <1>12 DEF Grown

\* A region is closed when what was visited before is.
LEMMA GrownIsClosed ==
  ASSUME NEW a, NEW v, NEW s, NEW G, Grown(a, v, s, G), ClosedIn(a, v)
  PROVE  ClosedIn(a, G)
<1> SUFFICES ASSUME NEW e \in a.edges, StaysInRegion(e),
                    e.source # EmptyState, e.target # EmptyState
             PROVE  e.source \in G <=> e.target \in G
  BY DEF ClosedIn
<1>1. e.source \in v <=> e.target \in v
  BY DEF ClosedIn
<1>2. e.source \in G => e.target \in Neighbours(a, G)
  BY DEF Neighbours
<1>3. e.target \in G => e.source \in Neighbours(a, G)
  BY DEF Neighbours
<1> QED
  BY <1>1, <1>2, <1>3 DEF Grown

\* No part of a region is cut off from the rest.
LEMMA GrownIsConnected ==
  ASSUME NEW a, NEW v, NEW s, NEW G, Grown(a, v, s, G), ClosedIn(a, v)
  PROVE  ConnectedIn(a, G)
<1> SUFFICES ASSUME NEW P \in (SUBSET G) \ {{}, G}, ClosedIn(a, P) PROVE FALSE
  BY DEF ConnectedIn
<1>1. ClosedIn(a, G)
  BY GrownIsClosed
<1>2. ASSUME NEW C \in SUBSET G, ClosedIn(a, C)
      PROVE  Neighbours(a, C) \subseteq C \cup v \cup {EmptyState}
  <2> SUFFICES ASSUME NEW t \in Neighbours(a, C), t # EmptyState PROVE t \in C
    OBVIOUS
  <2>1. PICK e \in a.edges : /\ StaysInRegion(e)
                             /\ \/ e.source \in C /\ t = e.target
                                \/ e.target \in C /\ t = e.source
    BY DEF Neighbours
  <2>2. EmptyState \notin C
    BY DEF Grown
  <2> QED
    BY <1>2, <2>1, <2>2 DEF ClosedIn
<1>3. CASE s \in P
  <2>1. G \subseteq P
    BY <1>2, <1>3 DEF Grown
  <2> QED
    BY <2>1
<1>4. CASE s \notin P
  <2>1. ClosedIn(a, G \ P)
    BY <1>1 DEF ClosedIn
  <2>2. s \in G \ P
    BY <1>4 DEF Grown
  <2>3. G \subseteq G \ P
    BY <1>2, <2>1, <2>2 DEF Grown
  <2> QED
    BY <2>3
<1> QED
  BY <1>3, <1>4

-----------------------------------------------------------------------------
\* What has been visited is in regions that share no state, and the calls are about them.
RegionsApart ==
  /\ automaton \in Automata /\ IsSearchable(automaton)
  /\ visited = UNION regions /\ {} \notin regions
  /\ visited \subseteq automaton.states \ {EmptyState}
  /\ \A R, Q \in regions : \A s \in R : s \in Q => R = Q
  /\ \A R \in regions : ClosedIn(automaton, R) /\ ConnectedIn(automaton, R)

\* A call has edges of its region to follow, and is for an edge of its caller, which waits.
CallsFit ==
  /\ calls \in Seq([region : regions, via : SUBSET automaton.edges, todo : SUBSET automaton.edges])
  /\ \A i \in DOMAIN calls : calls[i].todo \subseteq Onward(automaton, calls[i].region)
  /\ \A i \in DOMAIN calls :
       IF i = Len(calls) THEN calls[i].via = {}
       ELSE \E e \in Onward(automaton, calls[i + 1].region) :
              /\ calls[i].via = {e} /\ e.target \in calls[i].region
              /\ calls[i + 1].region # calls[i].region

Between(R, e, Q) == [source |-> R, label |-> e.label, target |-> Q]

\* No edge between regions is invented, and one that is missing is still to be followed, or waits
\* for a call to come back.
NoneInvented ==
  \A d \in edges : \E R, Q \in regions : \E e \in Onward(automaton, R) :
    e.target \in Q /\ d = Between(R, e, Q)

Waits(R, e) ==
  \E i \in DOMAIN calls :
    \/ calls[i].region = R /\ e \in calls[i].todo
    \/ i # Len(calls) /\ calls[i + 1].region = R /\ calls[i].via = {e}

NoneLost ==
  \A R \in regions : \A e \in Onward(automaton, R) :
    Waits(R, e) \/ \E Q \in regions : e.target \in Q /\ Between(R, e, Q) \in edges

\* Every region but the initial one is entered, or will be when its call comes back.
AllEntered ==
  \A R \in regions :
    \/ automaton.initial \subseteq R
    \/ \E d \in edges : d.target = R /\ d.source # R
    \/ \E i \in DOMAIN calls : i # Len(calls) /\ calls[i].region = R

RegionsInv == RegionsApart /\ CallsFit /\ NoneInvented /\ NoneLost /\ AllEntered

\* In the beginning.
LEMMA InitRegionsInv == RegionInit => RegionsInv
<1> SUFFICES ASSUME RegionInit PROVE RegionsInv
  OBVIOUS
<1> USE DEF RegionInit
<1>1. RegionsApart
  BY AutomataAssumption DEF RegionsApart, IsSearchable
<1>2. CallsFit
  BY DEF CallsFit
<1>3. NoneInvented /\ NoneLost /\ AllEntered
  BY DEF NoneInvented, NoneLost, AllEntered
<1> QED
  BY <1>1, <1>2, <1>3 DEF RegionsInv

\* The calls when an edge has been followed.
LEMMA DoneIs ==
  ASSUME RegionsInv, calls # <<>>, NEW e
  PROVE  LET d == Followed(e)
         IN  /\ d \in Seq([region : regions, via : SUBSET automaton.edges, todo : SUBSET automaton.edges])
             /\ Len(d) = Len(calls) /\ DOMAIN d = DOMAIN calls /\ 1 \in DOMAIN calls
             /\ d[1].region = calls[1].region /\ d[1].via = calls[1].via /\ d[1].todo = calls[1].todo \ {e}
             /\ \A i \in DOMAIN calls : i # 1 => d[i] = calls[i]
<1> DEFINE Frame == [region : regions, via : SUBSET automaton.edges, todo : SUBSET automaton.edges]
           c == [calls[1] EXCEPT !.todo = @ \ {e}]
<1>1. calls \in Seq(Frame)
  BY DEF RegionsInv, CallsFit
<1> HIDE DEF Frame
<1>2. calls[1] \in Frame /\ Head(calls) = calls[1] /\ Tail(calls) \in Seq(Frame)
      /\ Len(calls) \in Nat \ {0} /\ Len(Tail(calls)) = Len(calls) - 1
      /\ \A i \in 1 .. Len(calls) - 1 : Tail(calls)[i] = calls[i + 1]
  BY <1>1
<1>3. c \in Frame /\ c.region = calls[1].region /\ c.via = calls[1].via /\ c.todo = calls[1].todo \ {e}
  BY <1>2 DEF Frame
<1>4. Followed(e) = <<c>> \o Tail(calls)
  BY <1>2 DEF Followed, TopRegion
<1> HIDE DEF c
<1>5. /\ <<c>> \o Tail(calls) \in Seq(Frame) /\ Len(<<c>> \o Tail(calls)) = Len(calls)
      /\ (<<c>> \o Tail(calls))[1] = c
      /\ \A i \in 2 .. Len(calls) : (<<c>> \o Tail(calls))[i] = calls[i]
  BY <1>2, <1>3
<1> QED
  BY <1>1, <1>2, <1>3, <1>4, <1>5 DEF Frame

\* A state that was not visited gets a region, apart from those before.
LEMMA BuildApart ==
  ASSUME RegionsInv, NEW s \in automaton.states \ (visited \cup {EmptyState}), NEW via, NEW callers,
         Build(s, via, callers)
  PROVE  LET R == Grow(s)
         IN  /\ RegionsApart' /\ s \in R /\ \A Q \in regions : \A r \in Q : r \notin R
             /\ R \subseteq automaton.states \ {EmptyState}
             /\ visited' = visited \cup R /\ regions' = regions \cup {R}
             /\ calls' = <<[region |-> R, via |-> via, todo |-> Onward(automaton, R)]>> \o callers
             /\ UNCHANGED <<automaton, edges>>
<1> DEFINE R == Grow(s)
           a == automaton
<1>1. /\ visited' = visited \cup R /\ regions' = regions \cup {R}
      /\ calls' = <<[region |-> R, via |-> via, todo |-> Onward(automaton, R)]>> \o callers
      /\ UNCHANGED <<automaton, edges>>
  BY DEF Build
<1>2. Grown(a, visited, s, R)
  BY GrowIsGrown DEF RegionsInv, RegionsApart
<1> HIDE DEF R
<1>3. ClosedIn(a, visited)
  BY DEF RegionsInv, RegionsApart, ClosedIn
<1>4. ClosedIn(a, R) /\ ConnectedIn(a, R)
  BY <1>2, <1>3, GrownIsClosed, GrownIsConnected
<1>5. s \in R /\ R \subseteq a.states \ (visited \cup {EmptyState})
  BY <1>2 DEF Grown
<1>6. \A Q \in regions : Q \subseteq visited
  BY DEF RegionsInv, RegionsApart
<1>7. RegionsApart'
  <2>1. (automaton \in Automata)' /\ IsSearchable(automaton)' 
    BY <1>1 DEF RegionsInv, RegionsApart
  <2>2. visited' = UNION regions' /\ {} \notin regions'
    BY <1>1, <1>5 DEF RegionsInv, RegionsApart
  <2>3. visited' \subseteq automaton'.states \ {EmptyState}
    BY <1>1, <1>5 DEF RegionsInv, RegionsApart
  <2>4. \A P, Q \in regions' : \A r \in P : r \in Q => P = Q
    BY <1>1, <1>5, <1>6 DEF RegionsInv, RegionsApart
  <2>5. \A P \in regions' : ClosedIn(automaton', P) /\ ConnectedIn(automaton', P)
    BY <1>1, <1>4 DEF RegionsInv, RegionsApart
  <2> QED
    BY <2>1, <2>2, <2>3, <2>4, <2>5 DEF RegionsApart
<1>8. \A Q \in regions : \A r \in Q : r \notin R
  BY <1>5, <1>6
<1>9. R \subseteq a.states \ {EmptyState}
  BY <1>5
<1> QED
  BY <1>1, <1>5, <1>7, <1>8, <1>9 DEF R

\* What follows a partner action leads to a state that may be in a region.
LEMMA OnwardIs ==
  ASSUME RegionsInv, NEW R, NEW e \in Onward(automaton, R)
  PROVE  e \in automaton.edges /\ e.target \in automaton.states \ {EmptyState}
BY DEF RegionsInv, RegionsApart, IsSearchable, Onward, ToEmpty

\* The first region is built, around the initial state.
LEMMA StartRegionsInv == RegionsInv /\ StartRegions => RegionsInv'
<1> SUFFICES ASSUME RegionsInv, StartRegions PROVE RegionsInv'
  OBVIOUS
<1>1. PICK s \in automaton.initial : Build(s, {}, <<>>)
  BY DEF StartRegions
<1>2. regions = {} /\ calls = <<>> /\ edges = {}
  <2>1. \A R \in regions : R # {} /\ \A r \in R : r \in visited
    BY DEF RegionsInv, RegionsApart
  <2>2. regions = {}
    BY <2>1 DEF StartRegions
  <2>3. calls = <<>>
    <3> DEFINE Frame == [region : regions, via : SUBSET automaton.edges, todo : SUBSET automaton.edges]
    <3>1. calls \in Seq(Frame) /\ \A c \in Frame : c.region \in regions
      BY DEF RegionsInv, CallsFit
    <3> HIDE DEF Frame
    <3>2. calls # <<>> => calls[1] \in Frame
      BY <3>1
    <3> QED
      BY <2>2, <3>1, <3>2
  <2> QED
    BY <2>2, <2>3 DEF RegionsInv, NoneInvented
<1>3. s \in automaton.states \ (visited \cup {EmptyState})
  BY DEF StartRegions, RegionsInv, RegionsApart, IsSearchable
<1> DEFINE R == Grow(s)
           c == [region |-> R, via |-> {}, todo |-> Onward(automaton, R)]
<1>4. /\ RegionsApart' /\ s \in R /\ regions' = {R} /\ calls' = <<c>> \o <<>>
      /\ UNCHANGED <<automaton, edges>>
  BY <1>1, <1>2, <1>3, BuildApart
<1> HIDE DEF R
<1>5. calls' = <<c>> /\ Len(calls') = 1 /\ DOMAIN calls' = {1} /\ calls'[1] = c
  BY <1>4
<1>6. CallsFit'
  <2>1. c \in [region : regions', via : SUBSET automaton'.edges, todo : SUBSET automaton'.edges]
    BY <1>4, OnwardIs
  <2> QED
    BY <1>4, <1>5, <2>1 DEF CallsFit
<1>7. NoneInvented'
  BY <1>2, <1>4 DEF NoneInvented
<1>8. NoneLost'
  BY <1>4, <1>5 DEF NoneLost, Waits
<1>9. AllEntered'
  BY <1>4 DEF AllEntered, RegionsInv, RegionsApart, IsSearchable
<1> QED
  BY <1>4, <1>6, <1>7, <1>8, <1>9 DEF RegionsInv

\* An edge leads to a state in no region: one is built around it, and entered.
LEMMA NewRegionInv ==
  ASSUME RegionsInv, calls # <<>>, NEW e \in TopRegion.todo, NewRegion(e)
  PROVE  RegionsInv'
<1> DEFINE d == Followed(e)
           s == e.target
           R == Grow(s)
           c == [region |-> R, via |-> {e}, todo |-> Onward(automaton, R)]
           Frame == [region : regions, via : SUBSET automaton.edges, todo : SUBSET automaton.edges]
           Later == [region : regions', via : SUBSET automaton.edges, todo : SUBSET automaton.edges]
<1>1. /\ d \in Seq(Frame)
      /\ Len(d) = Len(calls) /\ DOMAIN d = DOMAIN calls /\ 1 \in DOMAIN calls
      /\ d[1].region = calls[1].region /\ d[1].via = calls[1].via /\ d[1].todo = calls[1].todo \ {e}
      /\ \A i \in DOMAIN calls : i # 1 => d[i] = calls[i]
  BY DoneIs
<1>2. calls \in Seq(Frame) /\ Head(calls) = calls[1] /\ calls[1] \in Frame
  <2>1. calls \in Seq(Frame)
    BY DEF RegionsInv, CallsFit
  <2> HIDE DEF Frame
  <2> QED
    BY <2>1
<1>3. e \in calls[1].todo /\ e \in Onward(automaton, calls[1].region)
  BY <1>1, <1>2 DEF TopRegion, RegionsInv, CallsFit
<1>4. s \in automaton.states \ (visited \cup {EmptyState}) /\ e \in automaton.edges
  BY <1>3, OnwardIs DEF NewRegion
<1>5. /\ RegionsApart' /\ s \in R /\ \A Q \in regions : \A r \in Q : r \notin R
      /\ visited' = visited \cup R /\ regions' = regions \cup {R}
      /\ calls' = <<c>> \o d
      /\ UNCHANGED <<automaton, edges>>
  BY <1>4, BuildApart DEF NewRegion
<1> HIDE DEF R, d
<1>6. c \in Later /\ d \in Seq(Later)
  <2>1. c \in Later
    BY <1>4, <1>5, OnwardIs
  <2>2. \A i \in 1 .. Len(d) : d[i] \in Later
    <3> HIDE DEF Frame, Later
    <3>1. \A i \in 1 .. Len(d) : d[i] \in Frame
      BY <1>1
    <3>2. Frame \subseteq Later
      BY <1>5 DEF Frame, Later
    <3> QED
      BY <3>1, <3>2
  <2> HIDE DEF Frame, Later, c
  <2> QED
    BY <1>1, <2>1, <2>2
<1> HIDE DEF c, Later, Frame
<1>7. /\ calls' \in Seq(Later) /\ Len(calls') = Len(calls) + 1 /\ DOMAIN calls' = 1 .. (Len(calls) + 1)
      /\ calls'[1] = c /\ \A i \in 1 .. Len(calls) : calls'[i + 1] = d[i]
  BY <1>1, <1>5, <1>6
<1>8. Len(calls) \in Nat \ {0} /\ DOMAIN calls = 1 .. Len(calls)
  BY <1>1, <1>2
<1>9. calls'[2] = d[1]
  <2>1. 1 \in 1 .. Len(calls) /\ 1 + 1 = 2
    BY <1>8
  <2> QED
    BY <1>7, <2>1
<1>10. d[1].region = calls[1].region /\ d[1].via = calls[1].via /\ d[1].todo = calls[1].todo \ {e}
  BY <1>1
<1>11. \A i \in 1 .. Len(calls) :
         calls'[i + 1].region = calls[i].region /\ calls'[i + 1].via = calls[i].via
         /\ calls'[i + 1].todo \subseteq calls[i].todo
         /\ calls[i].todo \subseteq calls'[i + 1].todo \cup {e}
         /\ (i # 1 => calls'[i + 1].todo = calls[i].todo)
  BY <1>1, <1>7, <1>8, <1>10, SMTT(40)
<1>12. c.region = R /\ c.via = {e} /\ c.todo = Onward(automaton, R)
  BY DEF c
<1>13. calls[1].region # R /\ calls[1].region \in regions
  <2>1. calls[1].region \in regions
    BY <1>2 DEF Frame
  <2> QED
    BY <1>5, <2>1
<1>14. CallsFit'
  <2>1. calls' \in Seq([region : regions, via : SUBSET automaton.edges, todo : SUBSET automaton.edges])'
    BY <1>5, <1>7 DEF Later
  <2>2. ASSUME NEW i \in DOMAIN calls' PROVE calls'[i].todo \subseteq Onward(automaton, calls'[i].region)
    <3>1. CASE i = 1
      BY <1>7, <1>12, <3>1
    <3>2. CASE i # 1
      <4>1. i - 1 \in 1 .. Len(calls) /\ (i - 1) + 1 = i
        BY <1>7, <1>8, <3>2
      <4>2. calls[i - 1].todo \subseteq Onward(automaton, calls[i - 1].region)
        BY <1>8, <4>1 DEF RegionsInv, CallsFit
      <4> QED
        BY <1>11, <4>1, <4>2
    <3> QED
      BY <3>1, <3>2
  <2>3. ASSUME NEW i \in DOMAIN calls'
        PROVE  IF i = Len(calls') THEN calls'[i].via = {}
               ELSE \E f \in Onward(automaton, calls'[i + 1].region) :
                      /\ calls'[i].via = {f} /\ f.target \in calls'[i].region
                      /\ calls'[i + 1].region # calls'[i].region
    <3>1. CASE i = 1
      <4>1. i # Len(calls') /\ i + 1 = 2
        BY <1>7, <1>8, <3>1
      <4>2. calls'[1].via = {e} /\ calls'[1].region = R /\ calls'[2].region = calls[1].region
        BY <1>7, <1>9, <1>10, <1>12
      <4>3. e.target \in R
        BY <1>5
      <4>4. \E f \in Onward(automaton, calls[1].region) :
              {e} = {f} /\ f.target \in R /\ calls[1].region # R
        BY <1>3, <1>13, <4>3
      <4> QED
        BY <3>1, <4>1, <4>2, <4>4
    <3>2. CASE i # 1
      <4>1. i - 1 \in 1 .. Len(calls) /\ (i - 1) + 1 = i /\ (i = Len(calls') <=> i - 1 = Len(calls))
        BY <1>7, <1>8, <3>2
      <4>2. IF i - 1 = Len(calls) THEN calls[i - 1].via = {}
            ELSE \E f \in Onward(automaton, calls[i].region) :
                   /\ calls[i - 1].via = {f} /\ f.target \in calls[i - 1].region
                   /\ calls[i].region # calls[i - 1].region
        BY <1>8, <4>1 DEF RegionsInv, CallsFit
      <4>3. calls'[i].via = calls[i - 1].via /\ calls'[i].region = calls[i - 1].region
        BY <1>11, <4>1
      <4>4. i # Len(calls') => calls'[i + 1].region = calls[i].region
        BY <1>7, <1>8, <1>11, <4>1
      <4> QED
        BY <4>1, <4>2, <4>3, <4>4
    <3> QED
      BY <3>1, <3>2
  <2> QED
    BY <1>5, <2>1, <2>2, <2>3 DEF CallsFit
<1>15. NoneInvented'
  BY <1>5 DEF RegionsInv, NoneInvented
<1>16. ASSUME NEW Q \in regions, NEW f \in Onward(automaton, Q), Waits(Q, f)
       PROVE  Waits(Q, f)'
  <2>1. PICK i \in DOMAIN calls :
          \/ calls[i].region = Q /\ f \in calls[i].todo
          \/ i # Len(calls) /\ calls[i + 1].region = Q /\ calls[i].via = {f}
    BY <1>16 DEF Waits
  <2>2. i + 1 \in DOMAIN calls' /\ i \in 1 .. Len(calls)
    BY <1>7, <1>8
  <2>3. CASE calls[i].region = Q /\ f \in calls[i].todo
    <3>1. CASE i = 1 /\ f = e
      <4>1. 1 \in DOMAIN calls' /\ 1 # Len(calls') /\ 1 + 1 = 2
        BY <1>7, <1>8
      <4> QED
        BY <1>7, <1>9, <1>10, <1>12, <2>3, <3>1, <4>1 DEF Waits
    <3>2. CASE ~ (i = 1 /\ f = e)
      BY <1>11, <2>2, <2>3, <3>2 DEF Waits
    <3> QED
      BY <3>1, <3>2
  <2>4. CASE i # Len(calls) /\ calls[i + 1].region = Q /\ calls[i].via = {f}
    <3>1. i + 1 \in 1 .. Len(calls) /\ i + 1 # Len(calls')
      BY <1>7, <1>8, <2>2, <2>4
    <3> QED
      BY <1>11, <2>2, <2>4, <3>1 DEF Waits
  <2> QED
    BY <2>1, <2>3, <2>4
<1>17. NoneLost'
  <2> SUFFICES ASSUME NEW Q \in regions', NEW f \in Onward(automaton', Q)
               PROVE  Waits(Q, f)' \/ \E P \in regions' : f.target \in P /\ Between(Q, f, P) \in edges'
    BY DEF NoneLost
  <2>1. CASE Q = R
    <3>1. 1 \in DOMAIN calls' /\ calls'[1].region = R /\ f \in calls'[1].todo
      BY <1>5, <1>7, <1>8, <1>12, <2>1
    <3> QED
      BY <2>1, <3>1 DEF Waits
  <2>2. CASE Q \in regions
    BY <1>5, <1>16, <2>2 DEF RegionsInv, NoneLost
  <2> QED
    BY <1>5, <2>1, <2>2
<1>18. AllEntered'
  <2> SUFFICES ASSUME NEW Q \in regions'
               PROVE  \/ automaton'.initial \subseteq Q
                      \/ \E f \in edges' : f.target = Q /\ f.source # Q
                      \/ \E i \in DOMAIN calls' : i # Len(calls') /\ calls'[i].region = Q
    BY DEF AllEntered
  <2>1. CASE Q = R
    <3>1. 1 \in DOMAIN calls' /\ 1 # Len(calls')
      BY <1>7, <1>8
    <3> QED
      BY <1>7, <1>12, <2>1, <3>1
  <2>2. CASE Q \in regions
    <3>1. ASSUME NEW i \in DOMAIN calls, i # Len(calls), calls[i].region = Q
          PROVE  i + 1 \in DOMAIN calls' /\ i + 1 # Len(calls') /\ calls'[i + 1].region = Q
      BY <1>7, <1>8, <1>11, <3>1
    <3> QED
      BY <1>5, <2>2, <3>1 DEF RegionsInv, AllEntered
  <2> QED
    BY <1>5, <2>1, <2>2
<1> QED
  BY <1>5, <1>14, <1>15, <1>17, <1>18 DEF RegionsInv

\* An edge leads to a state in a region: the edge between the regions is all there is to add.
LEMMA KnownRegionInv ==
  ASSUME RegionsInv, calls # <<>>, NEW e \in TopRegion.todo, KnownRegion(e)
  PROVE  RegionsInv'
<1> DEFINE Frame == [region : regions, via : SUBSET automaton.edges, todo : SUBSET automaton.edges]
<1>1. /\ calls' \in Seq(Frame)
      /\ Len(calls') = Len(calls) /\ DOMAIN calls' = DOMAIN calls /\ 1 \in DOMAIN calls
      /\ calls'[1].region = calls[1].region /\ calls'[1].via = calls[1].via
      /\ calls'[1].todo = calls[1].todo \ {e}
      /\ \A i \in DOMAIN calls : i # 1 => calls'[i] = calls[i]
  BY DoneIs DEF KnownRegion
<1>2. calls \in Seq(Frame) /\ Head(calls) = calls[1] /\ calls[1] \in Frame
  <2>1. calls \in Seq(Frame)
    BY DEF RegionsInv, CallsFit
  <2> HIDE DEF Frame
  <2> QED
    BY <2>1
<1>3. e \in calls[1].todo /\ e \in Onward(automaton, calls[1].region) /\ calls[1].region \in regions
  BY <1>1, <1>2 DEF TopRegion, RegionsInv, CallsFit
<1>4. UNCHANGED <<automaton, visited, regions>>
  BY DEF KnownRegion
<1>5. PICK Q \in regions : e.target \in Q /\ edges' = edges \cup {Between(calls[1].region, e, Q)}
  BY <1>2 DEF KnownRegion, FindRegion, TopRegion, Between
<1>6. Len(calls) \in Nat \ {0} /\ DOMAIN calls = 1 .. Len(calls)
  BY <1>1, <1>2
<1> HIDE DEF Frame
<1>7. \A i \in 1 .. Len(calls) :
         calls'[i].region = calls[i].region /\ calls'[i].via = calls[i].via
         /\ calls'[i].todo \subseteq calls[i].todo
         /\ calls[i].todo \subseteq calls'[i].todo \cup {e}
         /\ (i # 1 => calls'[i].todo = calls[i].todo)
  BY <1>1, <1>6
<1>8. RegionsApart'
  BY <1>4 DEF RegionsInv, RegionsApart
<1>9. CallsFit'
  <2>1. calls' \in Seq([region : regions, via : SUBSET automaton.edges, todo : SUBSET automaton.edges])'
    BY <1>1, <1>4 DEF Frame
  <2>2. ASSUME NEW i \in DOMAIN calls' PROVE calls'[i].todo \subseteq Onward(automaton, calls'[i].region)
    BY <1>1, <1>6, <1>7 DEF RegionsInv, CallsFit
  <2>3. ASSUME NEW i \in DOMAIN calls'
        PROVE  IF i = Len(calls') THEN calls'[i].via = {}
               ELSE \E f \in Onward(automaton, calls'[i + 1].region) :
                      /\ calls'[i].via = {f} /\ f.target \in calls'[i].region
                      /\ calls'[i + 1].region # calls'[i].region
    <3>1. IF i = Len(calls) THEN calls[i].via = {}
            ELSE \E f \in Onward(automaton, calls[i + 1].region) :
                   /\ calls[i].via = {f} /\ f.target \in calls[i].region
                   /\ calls[i + 1].region # calls[i].region
      BY <1>1 DEF RegionsInv, CallsFit
    <3>2. i # Len(calls) => i + 1 \in 1 .. Len(calls)
      BY <1>1, <1>6
    <3>3. i \in 1 .. Len(calls)
      BY <1>1, <1>6
    <3> QED
      BY <1>1, <1>7, <3>1, <3>2, <3>3
  <2> QED
    BY <1>4, <2>1, <2>2, <2>3 DEF CallsFit
<1>10. NoneInvented'
  <2> SUFFICES ASSUME NEW d \in edges'
               PROVE  \E R, P \in regions : \E f \in Onward(automaton, R) :
                        f.target \in P /\ d = Between(R, f, P)
    BY <1>4 DEF NoneInvented
  <2>1. CASE d = Between(calls[1].region, e, Q)
    BY <1>3, <1>5, <2>1
  <2>2. CASE d \in edges
    BY <2>2 DEF RegionsInv, NoneInvented
  <2> QED
    BY <1>5, <2>1, <2>2
<1>11. NoneLost'
  <2> SUFFICES ASSUME NEW R \in regions, NEW f \in Onward(automaton, R)
               PROVE  Waits(R, f)' \/ \E P \in regions : f.target \in P /\ Between(R, f, P) \in edges'
    BY <1>4 DEF NoneLost
  <2>1. CASE Waits(R, f)
    <3>1. PICK i \in DOMAIN calls :
            \/ calls[i].region = R /\ f \in calls[i].todo
            \/ i # Len(calls) /\ calls[i + 1].region = R /\ calls[i].via = {f}
      BY <2>1 DEF Waits
    <3>2. i \in 1 .. Len(calls) /\ (i # Len(calls) => i + 1 \in 1 .. Len(calls))
      BY <1>6
    <3>3. CASE calls[i].region = R /\ f \in calls[i].todo
      <4>1. CASE i = 1 /\ f = e
        BY <1>5, <3>3, <4>1
      <4>2. CASE ~ (i = 1 /\ f = e)
        BY <1>1, <1>7, <3>2, <3>3, <4>2 DEF Waits
      <4> QED
        BY <4>1, <4>2
    <3>4. CASE i # Len(calls) /\ calls[i + 1].region = R /\ calls[i].via = {f}
      BY <1>1, <1>7, <3>2, <3>4 DEF Waits
    <3> QED
      BY <3>1, <3>3, <3>4
  <2>2. CASE \E P \in regions : f.target \in P /\ Between(R, f, P) \in edges
    BY <1>5, <2>2
  <2> QED
    BY <2>1, <2>2 DEF RegionsInv, NoneLost
<1>12. AllEntered'
  BY <1>1, <1>4, <1>5, <1>6, <1>7 DEF RegionsInv, AllEntered
<1> QED
  BY <1>8, <1>9, <1>10, <1>11, <1>12 DEF RegionsInv

\* A call returns, all its edges followed.
LEMMA ReturnRegionsInv == RegionsInv /\ ReturnFromRegion => RegionsInv'
<1> SUFFICES ASSUME RegionsInv, ReturnFromRegion PROVE RegionsInv'
  OBVIOUS
<1> DEFINE Frame == [region : regions, via : SUBSET automaton.edges, todo : SUBSET automaton.edges]
<1>1. calls \in Seq(Frame) /\ calls # <<>>
  BY DEF RegionsInv, CallsFit, ReturnFromRegion
<1> HIDE DEF Frame
<1>2. /\ Head(calls) = calls[1] /\ calls[1] \in Frame
      /\ calls' \in Seq(Frame) /\ Len(calls) \in Nat \ {0} /\ Len(calls') = Len(calls) - 1
      /\ \A i \in 1 .. Len(calls') : calls'[i] = calls[i + 1]
      /\ DOMAIN calls = 1 .. Len(calls) /\ DOMAIN calls' = 1 .. Len(calls')
  BY <1>1 DEF ReturnFromRegion
<1>3. UNCHANGED <<automaton, visited, regions>> /\ calls[1].todo = {}
  BY <1>2 DEF ReturnFromRegion, TopRegion
<1>4. edges' = edges \cup {Between(calls[2].region, e, calls[1].region) : e \in calls[1].via}
  BY <1>2 DEF ReturnFromRegion, TopRegion, Between
<1>5. IF Len(calls) = 1 THEN calls[1].via = {}
      ELSE \E e \in Onward(automaton, calls[2].region) :
             /\ calls[1].via = {e} /\ e.target \in calls[1].region
             /\ calls[2].region # calls[1].region
  <2>1. 1 \in DOMAIN calls /\ 1 + 1 = 2
    BY <1>2
  <2> QED
    BY <2>1 DEF RegionsInv, CallsFit
<1>6. \A i \in DOMAIN calls : calls[i].region \in regions
  <2>1. \A i \in DOMAIN calls : calls[i] \in Frame
    BY <1>1
  <2> QED
    BY <2>1 DEF Frame
<1>7. RegionsApart'
  BY <1>3 DEF RegionsInv, RegionsApart
<1>8. CallsFit'
  <2>1. calls' \in Seq([region : regions, via : SUBSET automaton.edges, todo : SUBSET automaton.edges])'
    BY <1>2, <1>3 DEF Frame
  <2>2. ASSUME NEW i \in DOMAIN calls'
        PROVE  /\ calls'[i].todo \subseteq Onward(automaton, calls'[i].region)
               /\ IF i = Len(calls') THEN calls'[i].via = {}
                  ELSE \E f \in Onward(automaton, calls'[i + 1].region) :
                         /\ calls'[i].via = {f} /\ f.target \in calls'[i].region
                         /\ calls'[i + 1].region # calls'[i].region
    <3>1. i + 1 \in DOMAIN calls /\ (i = Len(calls') <=> i + 1 = Len(calls))
          /\ calls'[i] = calls[i + 1] /\ (i # Len(calls') => calls'[i + 1] = calls[(i + 1) + 1])
      BY <1>2
    <3> QED
      BY <3>1 DEF RegionsInv, CallsFit
  <2> QED
    BY <1>3, <2>1, <2>2 DEF CallsFit
<1>9. CASE Len(calls) = 1
  <2>1. edges' = edges /\ DOMAIN calls' = {}
    BY <1>2, <1>4, <1>5, <1>9
  <2>2. \A i \in DOMAIN calls : i = 1
    BY <1>2, <1>9
  <2>3. NoneInvented'
    BY <1>3, <2>1 DEF RegionsInv, NoneInvented
  <2>4. NoneLost'
    BY <1>3, <1>9, <2>1, <2>2 DEF RegionsInv, NoneLost, Waits
  <2>5. AllEntered'
    BY <1>3, <1>9, <2>1, <2>2 DEF RegionsInv, AllEntered
  <2> QED
    BY <1>7, <1>8, <2>3, <2>4, <2>5 DEF RegionsInv
<1>10. CASE Len(calls) # 1
  <2>1. PICK e \in Onward(automaton, calls[2].region) :
             /\ calls[1].via = {e} /\ e.target \in calls[1].region
             /\ calls[2].region # calls[1].region
    BY <1>5, <1>10
  <2>2. edges' = edges \cup {Between(calls[2].region, e, calls[1].region)}
    BY <1>4, <2>1
  <2>3. 1 \in DOMAIN calls /\ 2 \in DOMAIN calls
    BY <1>2, <1>10
  <2>4. NoneInvented'
    <3> SUFFICES ASSUME NEW d \in edges'
                 PROVE  \E R, P \in regions : \E f \in Onward(automaton, R) :
                          f.target \in P /\ d = Between(R, f, P)
      BY <1>3 DEF NoneInvented
    <3>1. CASE d = Between(calls[2].region, e, calls[1].region)
      BY <1>6, <2>1, <2>3, <3>1
    <3>2. CASE d \in edges
      BY <3>2 DEF RegionsInv, NoneInvented
    <3> QED
      BY <2>2, <3>1, <3>2
  <2>5. NoneLost'
    <3> SUFFICES ASSUME NEW R \in regions, NEW f \in Onward(automaton, R)
                 PROVE  Waits(R, f)' \/ \E P \in regions : f.target \in P /\ Between(R, f, P) \in edges'
      BY <1>3 DEF NoneLost
    <3>1. CASE Waits(R, f)
      <4>1. PICK i \in DOMAIN calls :
              \/ calls[i].region = R /\ f \in calls[i].todo
              \/ i # Len(calls) /\ calls[i + 1].region = R /\ calls[i].via = {f}
        BY <3>1 DEF Waits
      <4>2. CASE i = 1
        <5>1. calls[2].region = R /\ calls[1].via = {f}
          BY <1>3, <4>1, <4>2
        <5>2. f = e
          BY <2>1, <5>1
        <5> QED
          BY <1>6, <2>1, <2>2, <2>3, <5>1, <5>2
      <4>3. CASE i # 1
        <5>1. i - 1 \in DOMAIN calls' /\ (i - 1) + 1 = i /\ calls'[i - 1] = calls[i]
              /\ (i = Len(calls) <=> i - 1 = Len(calls'))
          BY <1>2, <4>3
        <5>2. i # Len(calls) => calls'[i] = calls[i + 1]
          BY <1>2, <4>3
        <5> QED
          BY <4>1, <5>1, <5>2 DEF Waits
      <4> QED
        BY <4>2, <4>3
    <3>2. CASE \E P \in regions : f.target \in P /\ Between(R, f, P) \in edges
      BY <2>2, <3>2
    <3> QED
      BY <3>1, <3>2 DEF RegionsInv, NoneLost
  <2>6. AllEntered'
    <3> SUFFICES ASSUME NEW Q \in regions
                 PROVE  \/ automaton.initial \subseteq Q
                        \/ \E d \in edges' : d.target = Q /\ d.source # Q
                        \/ \E i \in DOMAIN calls' : i # Len(calls') /\ calls'[i].region = Q
      BY <1>3 DEF AllEntered
    <3>1. CASE Q = calls[1].region
      <4> DEFINE d == Between(calls[2].region, e, calls[1].region)
      <4>1. d \in edges' /\ d.target = Q /\ d.source = calls[2].region
        BY <2>2, <3>1 DEF Between
      <4> QED
        BY <2>1, <3>1, <4>1
    <3>2. CASE Q # calls[1].region
      <4>1. ASSUME NEW i \in DOMAIN calls, i # Len(calls), calls[i].region = Q
            PROVE  i - 1 \in DOMAIN calls' /\ i - 1 # Len(calls') /\ calls'[i - 1].region = Q
        <5>1. i # 1
          BY <3>2, <4>1
        <5>2. i - 1 \in DOMAIN calls' /\ (i - 1) + 1 = i
          BY <1>2, <5>1
        <5> QED
          BY <1>2, <4>1, <5>2
      <4> QED
        BY <2>2, <4>1 DEF RegionsInv, AllEntered
    <3> QED
      BY <3>1, <3>2
  <2> QED
    BY <1>7, <1>8, <2>4, <2>5, <2>6 DEF RegionsInv
<1> QED
  BY <1>9, <1>10

\* Nothing happens.
LEMMA OtherRegionsInv == RegionsInv /\ UNCHANGED regionVars => RegionsInv'
<1> SUFFICES ASSUME RegionsInv, UNCHANGED regionVars PROVE RegionsInv'
  OBVIOUS
<1>1. UNCHANGED <<automaton, visited, regions, edges, calls>>
  BY DEF regionVars
<1>2. RegionsApart' /\ CallsFit'
  BY <1>1 DEF RegionsInv, RegionsApart, CallsFit
<1>3. NoneInvented' /\ AllEntered'
  BY <1>1 DEF RegionsInv, NoneInvented, AllEntered
<1>4. NoneLost'
  BY <1>1 DEF RegionsInv, NoneLost, Waits
<1> QED
  BY <1>2, <1>3, <1>4 DEF RegionsInv

\* The invariant holds throughout.
THEOREM RegionsInvHolds == RegionSpec => []RegionsInv
<1>1. RegionsInv /\ [RegionNext]_regionVars => RegionsInv'
  BY StartRegionsInv, NewRegionInv, KnownRegionInv, ReturnRegionsInv, OtherRegionsInv
     DEF RegionNext, FollowEdge
<1> QED
  BY <1>1, InitRegionsInv, PTL DEF RegionSpec

(***************************************************************************)
(* Whatever closure automaton the filter is given: a state that was        *)
(* visited is in one region and in no other.                               *)
(***************************************************************************)
THEOREM VisitedStatesHaveOneRegion == RegionSpec => []VisitedMeansOneRegion
<1>1. RegionsInv => VisitedMeansOneRegion
  <2> SUFFICES ASSUME RegionsInv PROVE VisitedMeansOneRegion
    OBVIOUS
  <2>1. ASSUME NEW s \in visited PROVE Cardinality(FindRegion(s)) = 1
    <3>1. PICK R \in regions : s \in R
      BY DEF RegionsInv, RegionsApart
    <3>2. FindRegion(s) = {R}
      BY <3>1 DEF RegionsInv, RegionsApart, FindRegion
    <3> QED
      BY <3>2, FS_Singleton
  <2> QED
    BY <2>1 DEF RegionsInv, RegionsApart, VisitedMeansOneRegion
<1> QED
  BY <1>1, RegionsInvHolds, PTL

(***************************************************************************)
(* When the filter is done its regions are closed under what the service   *)
(* and time do, no part of one is cut off, each but the initial one is     *)
(* entered, and the edges are the partner actions between them.            *)
(***************************************************************************)
THEOREM RegionsAreRegions == RegionSpec => []RegionsAreExact
<1>1. RegionsInv => RegionsAreExact
  <2> SUFFICES ASSUME RegionsInv, visited # {}, calls = <<>> PROVE RegionsAreExact
    BY DEF RegionsAreExact
  <2>1. \A R \in regions : IsClosed(R) /\ \A P \in (SUBSET R) \ {{}, R} : ~ IsClosed(P)
    BY DEF RegionsInv, RegionsApart, ClosedIn, ConnectedIn, IsClosed
  <2>2. \A R \in regions : \/ automaton.initial \subseteq R
                           \/ \E e \in edges : e.target = R /\ e.source # R
    BY DEF RegionsInv, AllEntered
  <2>3. \A R \in regions : \A e \in Onward(automaton, R) :
          \E Q \in regions : e.target \in Q /\ Between(R, e, Q) \in edges
    BY DEF RegionsInv, NoneLost, Waits
  <2> DEFINE Tuples == {y \in regions \X automaton.edges \X regions :
                          y[2] \in Onward(automaton, y[1]) /\ y[2].target \in y[3]}
             Exact == {[source |-> x[1], label |-> x[2].label, target |-> x[3]] : x \in Tuples}
  <2>4. \A d \in edges : d \in Exact
    <3> SUFFICES ASSUME NEW d \in edges PROVE d \in Exact
      OBVIOUS
    <3>1. PICK R \in regions, Q \in regions : \E e \in Onward(automaton, R) :
            e.target \in Q /\ d = Between(R, e, Q)
      BY DEF RegionsInv, NoneInvented
    <3>2. PICK e \in Onward(automaton, R) : e.target \in Q /\ d = Between(R, e, Q)
      BY <3>1
    <3>3. <<R, e, Q>> \in Tuples
      BY <3>2, OnwardIs
    <3> HIDE DEF Tuples
    <3> QED
      BY <3>2, <3>3 DEF Between
  <2>5. \A d \in Exact : d \in edges
    <3> SUFFICES ASSUME NEW y \in Tuples PROVE Between(y[1], y[2], y[3]) \in edges
      BY DEF Between
    <3>1. PICK Q \in regions : y[2].target \in Q /\ Between(y[1], y[2], Q) \in edges
      BY <2>3
    <3>2. Q = y[3]
      BY <3>1 DEF RegionsInv, RegionsApart
    <3> QED
      BY <3>1, <3>2
  <2>6. edges = Exact
    <3> HIDE DEF Exact
    <3> QED
      BY <2>4, <2>5
  <2> QED
    BY <2>1, <2>2, <2>6 DEF RegionsAreExact
<1> QED
  BY <1>1, RegionsInvHolds, PTL

-----------------------------------------------------------------------------
(***************************************************************************)
(* The pass ComputeComponents.  A state that was met is at work (it has an *)
(* activation), on the stack, or in a component.  Those at work lead to    *)
(* all that lie above them on the stack, what lies on the stack leads to   *)
(* one at work below it, and the low link of a state at work is no higher  *)
(* than what the edges visited on its behalf lead to on the stack.  So     *)
(* what is on the stack from a state down to which nothing leads is the    *)
(* component of that state, neither more nor less.                         *)
(***************************************************************************)
Leads(a, x, y) == y \in ReachFrom(a, {x})

\* What is on the stack is S, at work G, and the edges to be visited T; I are the numbers.
NumbersFit(a, I, S, G, T) ==
  /\ DOMAIN I \subseteq ReachFrom(a, a.initial)
  /\ \A x \in DOMAIN I : I[x].index \in Nat /\ I[x].index < Cardinality(DOMAIN I) /\ I[x].lowLink \in Nat
  /\ \A x, y \in DOMAIN I : I[x].index = I[y].index => x = y
  /\ G \subseteq S /\ S \subseteq DOMAIN I
  /\ \A e \in T : e \in a.edges /\ e.source \in G

AllMet(a, I, T) == \A e \in a.edges : e.source \in DOMAIN I => e \in T \/ e.target \in DOMAIN I

WorkLeadsUp(a, I, S, G) == \A g \in G : \A x \in S : I[g].index <= I[x].index => Leads(a, g, x)

StackLeadsDown(a, I, S, G) == \A x \in S : \E g \in G : I[g].index <= I[x].index /\ Leads(a, x, g)

LinkIsMet(a, I, S, G) ==
  \A g \in G : I[g].lowLink <= I[g].index /\ \E y \in S : I[y].index = I[g].lowLink /\ Leads(a, g, y)

\* The state on whose behalf x was met, and was left.
IsFor(I, G, g, x) ==
  I[g].index <= I[x].index /\ \A h \in G : I[h].index <= I[x].index => I[h].index <= I[g].index

LinkIsLow(a, I, S, G, T) ==
  \A g \in G : \A e \in a.edges \ T :
    e.source \in S /\ IsFor(I, G, g, e.source) /\ e.target \in S => I[g].lowLink <= I[e.target].index

ClosedLeadsNowhere(a, I, S) ==
  \A e \in a.edges : e.source \in DOMAIN I \ S => e.target \in DOMAIN I \ S

Searched(a, I, S, G, T) ==
  /\ NumbersFit(a, I, S, G, T) /\ AllMet(a, I, T) /\ WorkLeadsUp(a, I, S, G)
  /\ StackLeadsDown(a, I, S, G) /\ LinkIsMet(a, I, S, G) /\ LinkIsLow(a, I, S, G, T)
  /\ ClosedLeadsNowhere(a, I, S)

\* A state leads to itself, along its edges, and on from there; and not out of a closed set.
LEMMA LeadsOn ==
  ASSUME NEW a, IsGraph(a)
  PROVE  /\ \A x \in a.states : Leads(a, x, x)
         /\ \A x, y : x \in a.states /\ Leads(a, x, y) => y \in a.states
         /\ \A e \in a.edges : Leads(a, e.source, e.target)
         /\ \A x \in a.states : \A y, z : Leads(a, x, y) /\ Leads(a, y, z) => Leads(a, x, z)
         /\ \A x \in a.states : \A y, C : /\ Leads(a, x, y) /\ x \in C
                                          /\ \A e \in a.edges : e.source \in C => e.target \in C
                                          => y \in C
<1>1. \A x \in a.states : /\ x \in ReachFrom(a, {x}) /\ ReachFrom(a, {x}) \subseteq a.states
                          /\ \A e \in a.edges : e.source \in ReachFrom(a, {x}) => e.target \in ReachFrom(a, {x})
  BY ReachIsLeast
<1>2. \A e \in a.edges : e.source \in a.states
  BY DEF IsGraph
<1>3. ASSUME NEW x \in a.states, NEW C, x \in C, \A e \in a.edges : e.source \in C => e.target \in C
      PROVE  ReachFrom(a, {x}) \subseteq C
  <2>1. {x} \subseteq C /\ Successors(a, C) \subseteq C
    BY <1>3 DEF Successors
  <2>2. {x} \subseteq a.states
    OBVIOUS
  <2> QED
    BY <2>1, <2>2, ReachIsLeast
<1>4. ASSUME NEW x \in a.states, NEW y \in ReachFrom(a, {x})
      PROVE  ReachFrom(a, {y}) \subseteq ReachFrom(a, {x})
  BY <1>1, <1>3
<1> QED
  BY <1>1, <1>2, <1>3, <1>4 DEF Leads

\* What has been met is finite, and among the states.
LEMMA MetIsFinite ==
  ASSUME NEW a, IsGraph(a), NEW I, NEW S, NEW G, NEW T, NumbersFit(a, I, S, G, T)
  PROVE  /\ IsFiniteSet(DOMAIN I) /\ Cardinality(DOMAIN I) \in Nat
         /\ DOMAIN I \subseteq a.states /\ S \subseteq a.states /\ G \subseteq a.states
<1>1. ReachFrom(a, a.initial) \subseteq a.states
  BY ReachIsLeast DEF IsGraph
<1>2. DOMAIN I \subseteq a.states
  BY <1>1 DEF NumbersFit
<1>3. IsFiniteSet(DOMAIN I)
  BY <1>2, FS_Subset DEF IsGraph
<1> QED
  BY <1>2, <1>3, FS_CardinalityType DEF NumbersFit

\* The state s is met: it lies above all others, and all at work lead to it.
LEMMA EnterFits ==
  ASSUME NEW a, IsGraph(a), NEW I, NEW S, NEW G, NEW T, Searched(a, I, S, G, T),
         NEW s \in ReachFrom(a, a.initial) \ DOMAIN I, NEW T0 \in SUBSET T, NEW J,
         \A e \in T \ T0 : e.target = s,
         \A g \in G : Leads(a, g, s),
         DOMAIN J = DOMAIN I \cup {s}, \A x \in DOMAIN I : J[x] = I[x],
         J[s].index = Cardinality(DOMAIN I), J[s].lowLink = Cardinality(DOMAIN I)
  PROVE  Searched(a, J, S \cup {s}, G \cup {s}, T0 \cup Out(a, s))
<1> DEFINE D == DOMAIN I
           n == Cardinality(D)
           S1 == S \cup {s}
           G1 == G \cup {s}
           T1 == T0 \cup Out(a, s)
<1>1. /\ IsFiniteSet(D) /\ n \in Nat /\ D \subseteq a.states /\ S \subseteq D /\ G \subseteq S
      /\ s \notin D
  <2>1. NumbersFit(a, I, S, G, T)
    BY DEF Searched
  <2>2. S \subseteq D /\ G \subseteq S
    BY <2>1 DEF NumbersFit
  <2> QED
    BY <2>1, <2>2, MetIsFinite
<1>2. s \in a.states
  BY ReachIsLeast DEF IsGraph
<1>3. Cardinality(DOMAIN J) = n + 1
  BY <1>1, FS_AddElement
<1> HIDE DEF n
<1>4. /\ \A x \in D : J[x].index = I[x].index /\ J[x].lowLink = I[x].lowLink
                      /\ I[x].index \in Nat /\ I[x].index < n /\ I[x].lowLink \in Nat
      /\ J[s].index = n /\ J[s].lowLink = n
  BY DEF Searched, NumbersFit, n
<1> HIDE DEF D
<1>5. NumbersFit(a, J, S1, G1, T1)
  <2>1. DOMAIN J \subseteq ReachFrom(a, a.initial)
    BY DEF Searched, NumbersFit
  <2>2. \A x \in DOMAIN J : J[x].index \in Nat /\ J[x].index < Cardinality(DOMAIN J) /\ J[x].lowLink \in Nat
    BY <1>1, <1>3, <1>4 DEF D
  <2>3. \A x, y \in DOMAIN J : J[x].index = J[y].index => x = y
    BY <1>1, <1>4 DEF D, Searched, NumbersFit
  <2>4. G1 \subseteq S1 /\ S1 \subseteq DOMAIN J
    BY <1>1 DEF D
  <2>5. \A e \in T1 : e \in a.edges /\ e.source \in G1
    BY DEF Out, Searched, NumbersFit
  <2> QED
    BY <2>1, <2>2, <2>3, <2>4, <2>5 DEF NumbersFit
<1>6. AllMet(a, J, T1)
  BY DEF Searched, AllMet, Out
<1>7. WorkLeadsUp(a, J, S1, G1)
  <2> SUFFICES ASSUME NEW g \in G1, NEW x \in S1, J[g].index <= J[x].index PROVE Leads(a, g, x)
    BY DEF WorkLeadsUp
  <2>1. CASE x = s
    BY <1>2, <2>1, LeadsOn
  <2>2. CASE x # s /\ g = s
    BY <1>1, <1>4, <2>2
  <2>3. CASE x # s /\ g # s
    BY <1>1, <1>4, <2>3 DEF Searched, WorkLeadsUp
  <2> QED
    BY <2>1, <2>2, <2>3
<1>8. StackLeadsDown(a, J, S1, G1)
  <2> SUFFICES ASSUME NEW x \in S1
               PROVE  \E g \in G1 : J[g].index <= J[x].index /\ Leads(a, x, g)
    BY DEF StackLeadsDown
  <2>1. CASE x = s
    BY <1>1, <1>2, <1>4, <2>1, LeadsOn
  <2>2. CASE x # s
    BY <1>1, <1>4, <2>2 DEF Searched, StackLeadsDown
  <2> QED
    BY <2>1, <2>2
<1>9. LinkIsMet(a, J, S1, G1)
  <2> SUFFICES ASSUME NEW g \in G1
               PROVE  J[g].lowLink <= J[g].index
                        /\ \E y \in S1 : J[y].index = J[g].lowLink /\ Leads(a, g, y)
    BY DEF LinkIsMet
  <2>1. CASE g = s
    BY <1>1, <1>2, <1>4, <2>1, LeadsOn
  <2>2. CASE g # s
    BY <1>1, <1>4, <2>2 DEF Searched, LinkIsMet
  <2> QED
    BY <2>1, <2>2
<1>10. LinkIsLow(a, J, S1, G1, T1)
  <2> SUFFICES ASSUME NEW g \in G1, NEW e \in a.edges \ T1, e.source \in S1,
                      IsFor(J, G1, g, e.source), e.target \in S1
               PROVE  J[g].lowLink <= J[e.target].index
    BY DEF LinkIsLow
  <2>1. e.source # s
    BY DEF Out
  <2>2. g # s /\ g \in G /\ e.source \in S
    BY <1>1, <1>4, <2>1 DEF IsFor
  <2>3. CASE e.target = s
    BY <1>1, <1>4, <2>2, <2>3 DEF Searched, LinkIsMet
  <2>4. CASE e.target # s
    <3>1. e \notin T /\ e.target \in S
      BY <2>4
    <3>2. IsFor(I, G, g, e.source)
      BY <1>1, <1>4, <2>2 DEF IsFor
    <3> QED
      BY <1>1, <1>4, <2>2, <3>1, <3>2 DEF Searched, LinkIsLow
  <2> QED
    BY <2>3, <2>4
<1>11. ClosedLeadsNowhere(a, J, S1)
  <2>1. DOMAIN J \ S1 = DOMAIN I \ S
    BY <1>1 DEF D
  <2> QED
    BY <2>1 DEF Searched, ClosedLeadsNowhere
<1> QED
  BY <1>5, <1>6, <1>7, <1>8, <1>9, <1>10, <1>11 DEF Searched

\* An edge leads to a state that was met before: if that is on the stack, the link notes it.
LEMMA KnownFits ==
  ASSUME NEW a, IsGraph(a), NEW I, NEW S, NEW G, NEW T, Searched(a, I, S, G, T),
         NEW e \in T, e.target \in DOMAIN I, \A g \in G : I[g].index <= I[e.source].index,
         NEW J, DOMAIN J = DOMAIN I, \A x \in DOMAIN I : J[x].index = I[x].index,
         \A x \in DOMAIN I : x # e.source => J[x].lowLink = I[x].lowLink,
         J[e.source].lowLink = IF e.target \in S /\ I[e.target].index < I[e.source].lowLink
                               THEN I[e.target].index ELSE I[e.source].lowLink
  PROVE  Searched(a, J, S, G, T \ {e})
<1> DEFINE D == DOMAIN I
           s == e.source
<1>1. /\ s \in G /\ G \subseteq S /\ S \subseteq D /\ e \in a.edges
      /\ \A x \in D : I[x].index \in Nat /\ I[x].lowLink \in Nat
  BY DEF Searched, NumbersFit
<1>2. \A x \in D : J[x].lowLink \in Nat /\ J[x].lowLink <= I[x].lowLink
  BY <1>1
<1>3. NumbersFit(a, J, S, G, T \ {e})
  BY <1>2 DEF Searched, NumbersFit
<1>4. AllMet(a, J, T \ {e}) /\ WorkLeadsUp(a, J, S, G)
  BY <1>1 DEF Searched, AllMet, WorkLeadsUp
<1>5. StackLeadsDown(a, J, S, G)
  <2> SUFFICES ASSUME NEW x \in S PROVE \E g \in G : J[g].index <= J[x].index /\ Leads(a, x, g)
    BY DEF StackLeadsDown
  <2> QED
    BY <1>1 DEF Searched, StackLeadsDown
<1>6. LinkIsMet(a, J, S, G)
  <2> SUFFICES ASSUME NEW g \in G
               PROVE  J[g].lowLink <= J[g].index
                        /\ \E y \in S : J[y].index = J[g].lowLink /\ Leads(a, g, y)
    BY DEF LinkIsMet
  <2>1. I[g].lowLink <= I[g].index /\ \E y \in S : I[y].index = I[g].lowLink /\ Leads(a, g, y)
    BY DEF Searched, LinkIsMet
  <2>2. CASE J[g].lowLink = I[g].lowLink
    BY <1>1, <2>1, <2>2
  <2>3. CASE J[g].lowLink # I[g].lowLink
    <3>1. g = s /\ e.target \in S /\ J[g].lowLink = I[e.target].index
      BY <1>1, <2>3
    <3>2. Leads(a, g, e.target)
      BY <1>1, <3>1, LeadsOn
    <3> QED
      BY <1>1, <1>2, <2>1, <3>1, <3>2
  <2> QED
    BY <2>2, <2>3
<1>7. LinkIsLow(a, J, S, G, T \ {e})
  <2> SUFFICES ASSUME NEW g \in G, NEW d \in a.edges, d \in T => d = e, d.source \in S,
                      IsFor(J, G, g, d.source), d.target \in S
               PROVE  J[g].lowLink <= J[d.target].index
    BY DEF LinkIsLow
  <2>1. IsFor(I, G, g, d.source)
    BY <1>1 DEF IsFor
  <2>2. CASE d \notin T
    <3>1. I[g].lowLink <= I[d.target].index
      BY <2>1, <2>2 DEF Searched, LinkIsLow
    <3> QED
      BY <1>1, <1>2, <3>1
  <2>3. CASE d = e
    <3>1. I[g].index <= I[s].index /\ I[s].index <= I[g].index
      BY <1>1, <2>1, <2>3 DEF IsFor
    <3>2. g = s
      BY <1>1, <3>1 DEF Searched, NumbersFit
    <3> QED
      BY <1>1, <2>3, <3>2
  <2> QED
    BY <2>2, <2>3
<1>8. ClosedLeadsNowhere(a, J, S)
  BY DEF Searched, ClosedLeadsNowhere
<1> QED
  BY <1>3, <1>4, <1>5, <1>6, <1>7, <1>8 DEF Searched

\* The uppermost of the states at work is s.
IsTop(I, G, s) == s \in G /\ \A g \in G : I[g].index <= I[s].index

\* The state s leads no further back than to itself.
LeadsBack(I, s) == I[s].lowLink = I[s].index

\* What becomes of the numbers when s, which was at work, leaves: its caller learns of its link.
HasLearned(I, G, s, J) ==
  /\ DOMAIN J = DOMAIN I
  /\ \A x \in DOMAIN I : J[x].index = I[x].index
  /\ \A x \in DOMAIN I : ~ IsTop(I, G \ {s}, x) => J[x].lowLink = I[x].lowLink
  /\ \A x \in DOMAIN I : IsTop(I, G \ {s}, x) =>
       J[x].lowLink = IF I[s].lowLink < I[x].lowLink THEN I[s].lowLink ELSE I[x].lowLink

\* The uppermost state at work is left on the stack, and its caller learns of its link.
LEMMA LeaveFits ==
  ASSUME NEW a, IsGraph(a), NEW I, NEW S, NEW G, NEW T, Searched(a, I, S, G, T),
         NEW s, IsTop(I, G, s), \A e \in T : e.source # s, ~ LeadsBack(I, s),
         NEW J, HasLearned(I, G, s, J)
  PROVE  G \ {s} # {} /\ Searched(a, J, S, G \ {s}, T)
<1> DEFINE D == DOMAIN I
           H == G \ {s}
<1> USE DEF HasLearned, LeadsBack
<1>1. /\ s \in G /\ G \subseteq S /\ S \subseteq D
      /\ \A x \in D : I[x].index \in Nat /\ I[x].lowLink \in Nat
      /\ \A x, y \in D : I[x].index = I[y].index => x = y
      /\ \A g \in G : I[g].index <= I[s].index
  BY DEF Searched, NumbersFit, IsTop
<1>2. \A x \in D : J[x].lowLink \in Nat /\ J[x].lowLink <= I[x].lowLink
  <2> SUFFICES ASSUME NEW x \in D PROVE J[x].lowLink \in Nat /\ J[x].lowLink <= I[x].lowLink
    OBVIOUS
  <2>1. I[s].lowLink \in Nat /\ I[x].lowLink \in Nat
    BY <1>1
  <2>2. CASE IsTop(I, H, x)
    <3>1. J[x].lowLink = IF I[s].lowLink < I[x].lowLink THEN I[s].lowLink ELSE I[x].lowLink
      BY <2>2
    <3> QED
      BY <2>1, <3>1
  <2>3. CASE ~ IsTop(I, H, x)
    BY <2>1, <2>3
  <2> QED
    BY <2>2, <2>3
<1>3. G \subseteq a.states /\ S \subseteq a.states
  BY MetIsFinite DEF Searched
<1>4. \A g \in H : I[g].index < I[s].index
  BY <1>1
<1>5. PICK y \in S : I[y].index = I[s].lowLink /\ Leads(a, s, y) /\ I[y].index < I[s].index
  <2>1. I[s].lowLink <= I[s].index /\ \E y \in S : I[y].index = I[s].lowLink /\ Leads(a, s, y)
    BY <1>1 DEF Searched, LinkIsMet
  <2> QED
    BY <1>1, <2>1
<1>6. PICK h \in H : I[h].index <= I[y].index /\ Leads(a, y, h) /\ Leads(a, s, h)
  <2>1. PICK h \in G : I[h].index <= I[y].index /\ Leads(a, y, h)
    BY DEF Searched, StackLeadsDown
  <2>2. h # s
    BY <1>1, <1>5, <2>1
  <2>3. Leads(a, s, h)
    BY <1>1, <1>3, <1>5, <2>1, LeadsOn
  <2> QED
    BY <2>1, <2>2, <2>3
<1>7. NumbersFit(a, J, S, H, T)
  BY <1>2 DEF Searched, NumbersFit
<1>8. AllMet(a, J, T) /\ WorkLeadsUp(a, J, S, H)
  BY <1>1 DEF Searched, AllMet, WorkLeadsUp
<1>9. StackLeadsDown(a, J, S, H)
  <2> SUFFICES ASSUME NEW x \in S PROVE \E g \in H : J[g].index <= J[x].index /\ Leads(a, x, g)
    BY DEF StackLeadsDown
  <2>1. PICK g \in G : I[g].index <= I[x].index /\ Leads(a, x, g)
    BY DEF Searched, StackLeadsDown
  <2>2. CASE g # s
    BY <1>1, <2>1, <2>2
  <2>3. CASE g = s
    <3>1. I[h].index <= I[x].index
      BY <1>1, <1>5, <1>6, <2>1, <2>3
    <3>2. Leads(a, x, h)
      BY <1>3, <1>6, <2>1, <2>3, LeadsOn
    <3> QED
      BY <1>1, <3>1, <3>2
  <2> QED
    BY <2>2, <2>3
<1>10. LinkIsMet(a, J, S, H)
  <2> SUFFICES ASSUME NEW g \in H
               PROVE  J[g].lowLink <= J[g].index
                        /\ \E z \in S : J[z].index = J[g].lowLink /\ Leads(a, g, z)
    BY DEF LinkIsMet
  <2>1. I[g].lowLink <= I[g].index /\ \E z \in S : I[z].index = I[g].lowLink /\ Leads(a, g, z)
    BY DEF Searched, LinkIsMet
  <2>2. CASE J[g].lowLink = I[g].lowLink
    BY <1>1, <2>1, <2>2
  <2>3. CASE J[g].lowLink = I[s].lowLink
    <3>1. Leads(a, g, s)
      BY <1>1, <1>4 DEF Searched, WorkLeadsUp
    <3>2. Leads(a, g, y)
      BY <1>3, <1>5, <3>1, LeadsOn
    <3>3. g \in D /\ y \in D /\ J[g].index = I[g].index /\ J[y].index = I[y].index
      BY <1>1
    <3>4. J[g].lowLink <= J[g].index
      BY <1>1, <1>2, <2>1, <3>3
    <3> QED
      BY <1>5, <2>3, <3>2, <3>3, <3>4
  <2>4. g \in D
    BY <1>1
  <2> QED
    BY <2>2, <2>3, <2>4
<1>11. LinkIsLow(a, J, S, H, T)
  <2> SUFFICES ASSUME NEW g \in H, NEW e \in a.edges \ T, e.source \in S,
                      IsFor(J, H, g, e.source), e.target \in S
               PROVE  J[g].lowLink <= J[e.target].index
    BY DEF LinkIsLow
  <2>1. g \in D /\ e.source \in D /\ e.target \in D /\ J[e.target].index = I[e.target].index
    BY <1>1
  <2>2. I[g].index <= I[e.source].index /\ \A k \in H : I[k].index <= I[e.source].index => I[k].index <= I[g].index
    BY <1>1, <2>1 DEF IsFor
  <2>3. CASE I[s].index <= I[e.source].index
    <3>1. IsFor(I, G, s, e.source)
      BY <1>1, <2>3 DEF IsFor
    <3>2. I[s].lowLink <= I[e.target].index
      BY <1>1, <3>1 DEF Searched, LinkIsLow
    <3>3. IsTop(I, H, g)
      <4> SUFFICES ASSUME NEW k \in H PROVE I[k].index <= I[g].index
        BY DEF IsTop
      <4>1. I[k].index <= I[s].index /\ k \in D
        BY <1>1
      <4>2. I[k].index <= I[e.source].index
        BY <1>1, <2>1, <2>3, <4>1
      <4> QED
        BY <2>2, <4>2
    <3>4. J[g].lowLink <= I[s].lowLink
      <4>1. J[g].lowLink = IF I[s].lowLink < I[g].lowLink THEN I[s].lowLink ELSE I[g].lowLink
        BY <2>1, <3>3
      <4>2. I[s].lowLink \in Nat /\ I[g].lowLink \in Nat
        BY <1>1
      <4> QED
        BY <4>1, <4>2
    <3> QED
      BY <1>1, <1>2, <2>1, <3>2, <3>4
  <2>4. CASE ~ (I[s].index <= I[e.source].index)
    <3>1. IsFor(I, G, g, e.source)
      BY <2>2, <2>4 DEF IsFor
    <3>2. I[g].lowLink <= I[e.target].index
      BY <3>1 DEF Searched, LinkIsLow
    <3> QED
      BY <1>1, <1>2, <2>1, <3>2
  <2> QED
    BY <2>3, <2>4
<1>12. ClosedLeadsNowhere(a, J, S)
  BY DEF Searched, ClosedLeadsNowhere
<1> QED
  BY <1>6, <1>7, <1>8, <1>9, <1>10, <1>11, <1>12 DEF Searched

\* What lies above s, with s itself.
Above(I, S, s) == {x \in S : I[s].index <= I[x].index}

IsWhole(a, I, S, s) ==
  /\ Above(I, S, s) = Component(a, s) /\ s \in Above(I, S, s)
  /\ \A e \in a.edges : e.source \in Above(I, S, s) => e.target \in Above(I, S, s) \cup (DOMAIN I \ S)

\* Nothing leads from what lies above s to below it: that is the component of s.
LEMMA CloseFits ==
  ASSUME NEW a, IsGraph(a), NEW I, NEW S, NEW G, NEW T, Searched(a, I, S, G, T),
         NEW s, IsTop(I, G, s), \A e \in T : e.source # s, LeadsBack(I, s),
         NEW J, HasLearned(I, G, s, J)
  PROVE  IsWhole(a, I, S, s) /\ Searched(a, J, S \ Above(I, S, s), G \ {s}, T)
<1> DEFINE D == DOMAIN I
           H == G \ {s}
           C == {x \in S : I[s].index <= I[x].index}
<1> USE DEF HasLearned, LeadsBack
<1>1. /\ s \in G /\ G \subseteq S /\ S \subseteq D
      /\ \A x \in D : I[x].index \in Nat /\ I[x].lowLink \in Nat
      /\ \A x, y \in D : I[x].index = I[y].index => x = y
      /\ \A g \in G : I[g].index <= I[s].index
      /\ \A e \in T : e.source \in G
  BY DEF Searched, NumbersFit, IsTop
<1>2. G \subseteq a.states /\ S \subseteq a.states /\ D \subseteq a.states
  BY MetIsFinite DEF Searched
<1>3. \A g \in H : I[g].index < I[s].index
  BY <1>1
<1>4. \A x \in D : J[x].lowLink = I[x].lowLink
  <2> SUFFICES ASSUME NEW x \in D, IsTop(I, H, x) PROVE J[x].lowLink = I[x].lowLink
    OBVIOUS
  <2>1. x \in H /\ I[x].lowLink <= I[x].index
    BY DEF IsTop, Searched, LinkIsMet
  <2>2. ~ (I[s].lowLink < I[x].lowLink)
    BY <1>1, <1>3, <2>1
  <2> QED
    BY <2>2
<1>5. s \in C
  BY <1>1
<1>6. ASSUME NEW x \in C PROVE Leads(a, s, x) /\ Leads(a, x, s)
  <2>1. Leads(a, s, x)
    BY <1>1 DEF Searched, WorkLeadsUp
  <2>2. PICK g \in G : Leads(a, x, g)
    BY DEF Searched, StackLeadsDown
  <2>3. Leads(a, g, s)
    BY <1>1 DEF Searched, WorkLeadsUp
  <2> QED
    BY <1>2, <2>1, <2>2, <2>3, LeadsOn
<1>7. ASSUME NEW e \in a.edges, e.source \in C PROVE e.target \in C \cup (D \ S)
  <2>1. e.source \in D /\ e.source \in S
    BY <1>1, <1>7
  <2>2. e \notin T
    <3> SUFFICES ASSUME e \in T PROVE FALSE
      OBVIOUS
    <3>1. e.source \in H
      BY <1>1
    <3> QED
      BY <1>1, <1>3, <1>7, <3>1, <2>1
  <2>3. e.target \in D
    BY <2>1, <2>2 DEF Searched, AllMet
  <2>4. CASE e.target \in S
    <3>1. IsFor(I, G, s, e.source)
      BY <1>1, <1>7 DEF IsFor
    <3>2. I[s].lowLink <= I[e.target].index
      BY <1>1, <2>1, <2>2, <2>4, <3>1 DEF Searched, LinkIsLow
    <3> QED
      BY <2>4, <3>2
  <2> QED
    BY <2>3, <2>4
<1>8. \A e \in a.edges : e.source \in D \ S => e.target \in D \ S
  BY DEF Searched, ClosedLeadsNowhere
<1>9. C = Component(a, s)
  <2>1. ASSUME NEW x \in C PROVE x \in Component(a, s)
    BY <1>6 DEF Component, Leads
  <2>2. ASSUME NEW x \in Component(a, s) PROVE x \in C
    <3>1. Leads(a, s, x) /\ Leads(a, x, s)
      BY DEF Component, Leads
    <3>2. x \in C \cup (D \ S)
      <4> DEFINE M == C \cup (D \ S)
      <4>1. s \in M /\ \A e \in a.edges : e.source \in M => e.target \in M
        BY <1>5, <1>7, <1>8
      <4>2. s \in a.states
        BY <1>1, <1>2
      <4> HIDE DEF M
      <4>3. x \in M
        BY <3>1, <4>1, <4>2, LeadsOn
      <4> QED
        BY <4>3 DEF M
    <3>3. x \notin D \ S
      <4> SUFFICES ASSUME x \in D \ S PROVE FALSE
        OBVIOUS
      <4>1. s \in D \ S
        BY <1>2, <1>8, <3>1, LeadsOn
      <4> QED
        BY <1>1, <4>1
    <3> QED
      BY <3>2, <3>3
  <2> HIDE DEF C
  <2> QED
    BY <2>1, <2>2
<1>10. \A x \in S \ C : I[x].index < I[s].index /\ x \in D
  BY <1>1
<1>11. H \subseteq S \ C
  BY <1>1, <1>3
<1>12. NumbersFit(a, J, S \ C, H, T)
  BY <1>1, <1>4, <1>11 DEF Searched, NumbersFit
<1>13. AllMet(a, J, T) /\ WorkLeadsUp(a, J, S \ C, H)
  BY <1>1 DEF Searched, AllMet, WorkLeadsUp
<1>14. StackLeadsDown(a, J, S \ C, H)
  <2> SUFFICES ASSUME NEW x \in S \ C PROVE \E g \in H : J[g].index <= J[x].index /\ Leads(a, x, g)
    BY DEF StackLeadsDown
  <2>1. PICK g \in G : I[g].index <= I[x].index /\ Leads(a, x, g)
    BY DEF Searched, StackLeadsDown
  <2>2. g # s
    BY <1>1, <1>10, <2>1
  <2> QED
    BY <1>1, <2>1, <2>2
<1>15. LinkIsMet(a, J, S \ C, H)
  <2> SUFFICES ASSUME NEW g \in H
               PROVE  J[g].lowLink <= J[g].index
                        /\ \E z \in S \ C : J[z].index = J[g].lowLink /\ Leads(a, g, z)
    BY DEF LinkIsMet
  <2>1. I[g].lowLink <= I[g].index /\ \E z \in S : I[z].index = I[g].lowLink /\ Leads(a, g, z)
    BY DEF Searched, LinkIsMet
  <2>2. PICK z \in S : I[z].index = I[g].lowLink /\ Leads(a, g, z)
    BY <2>1
  <2>3. g \in D /\ z \in D
    BY <1>1
  <2>4. z \notin C
    BY <1>1, <1>3, <2>1, <2>2, <2>3
  <2> QED
    BY <1>4, <2>1, <2>2, <2>3, <2>4
<1>16. LinkIsLow(a, J, S \ C, H, T)
  <2> SUFFICES ASSUME NEW g \in H, NEW e \in a.edges \ T, e.source \in S \ C,
                      IsFor(J, H, g, e.source), e.target \in S \ C
               PROVE  J[g].lowLink <= J[e.target].index
    BY DEF LinkIsLow
  <2>1. g \in D /\ e.source \in D /\ e.target \in D /\ J[e.target].index = I[e.target].index
    BY <1>1
  <2>2. I[g].index <= I[e.source].index /\ \A k \in H : I[k].index <= I[e.source].index => I[k].index <= I[g].index
    BY <1>1, <2>1 DEF IsFor
  <2>3. ~ (I[s].index <= I[e.source].index)
    BY <1>1, <1>10, <2>1
  <2>4. IsFor(I, G, g, e.source)
    BY <2>2, <2>3 DEF IsFor
  <2>5. I[g].lowLink <= I[e.target].index
    BY <2>4 DEF Searched, LinkIsLow
  <2> QED
    BY <1>4, <2>1, <2>5
<1>17. ClosedLeadsNowhere(a, J, S \ C)
  <2>1. DOMAIN J \ (S \ C) = C \cup (D \ S)
    BY <1>1
  <2> HIDE DEF C
  <2> QED
    BY <1>7, <1>8, <2>1 DEF ClosedLeadsNowhere
<1>18. Searched(a, J, S \ C, H, T)
  BY <1>12, <1>13, <1>14, <1>15, <1>16, <1>17 DEF Searched
<1> HIDE DEF C
<1> QED
  BY <1>5, <1>7, <1>9, <1>18 DEF C, Above, IsWhole

-----------------------------------------------------------------------------
OnStack == {stack[i] : i \in DOMAIN stack}
AtWork  == {visits[i].state : i \in DOMAIN visits}
ToVisit == UNION {visits[i].todo : i \in DOMAIN visits}

Info == [index : Nat, lowLink : Nat, onStack : BOOLEAN]

InfosFit ==
  /\ infos \in [DOMAIN infos -> Info]
  /\ \A x \in DOMAIN infos : infos[x].onStack <=> x \in OnStack

\* What lies higher on the stack was met later, and so were the states at work further in.
StackFits ==
  /\ stack \in Seq(automaton.states)
  /\ \A i, j \in DOMAIN stack : i < j => infos[stack[j]].index < infos[stack[i]].index

VisitsOf(a) == [state : a.states, todo : SUBSET a.edges]

VisitsFit ==
  /\ visits \in Seq(VisitsOf(automaton))
  /\ \A i \in DOMAIN visits : \A e \in visits[i].todo : e.source = visits[i].state
  /\ \A i, j \in DOMAIN visits : i < j => infos[visits[j].state].index < infos[visits[i].state].index

\* The components so far are components, share no state, and lead to earlier ones only.
ComponentsFit ==
  /\ components \in Seq(SUBSET automaton.states)
  /\ \A x : x \in DOMAIN infos \ OnStack <=> \E i \in DOMAIN components : x \in components[i]
  /\ \A i \in DOMAIN components : \E x \in components[i] : /\ x \in ReachFrom(automaton, automaton.initial)
                                                       /\ components[i] = Component(automaton, x)
  /\ \A i, j \in DOMAIN components : \A x \in components[i] : x \in components[j] => i = j
  /\ \A i \in DOMAIN components : \A e \in automaton.edges :
       e.source \in components[i] => \E k \in 1 .. i : e.target \in components[k]

PassInv ==
  /\ automaton \in Automata /\ IsGraph(automaton)
  /\ InfosFit /\ StackFits /\ VisitsFit /\ ComponentsFit
  /\ Searched(automaton, infos, OnStack, AtWork, ToVisit)
  /\ DOMAIN infos # {} => automaton.initial \subseteq DOMAIN infos

\* In the beginning.
LEMMA InitPassInv == PassInit => PassInv
<1> SUFFICES ASSUME PassInit PROVE PassInv
  OBVIOUS
<1>1. /\ automaton \in Automata /\ DOMAIN infos = {} /\ infos = [s \in {} |-> 0]
      /\ stack = <<>> /\ components = <<>> /\ visits = <<>>
  BY DEF PassInit
<1>2. IsGraph(automaton)
  BY <1>1, AutomataAssumption DEF IsGraph, HasFields
<1>3. OnStack = {} /\ AtWork = {} /\ ToVisit = {}
  BY <1>1 DEF OnStack, AtWork, ToVisit
<1>4. InfosFit /\ StackFits /\ VisitsFit /\ ComponentsFit
  <2>1. infos \in [DOMAIN infos -> Info]
    BY <1>1
  <2> QED
    BY <1>1, <1>3, <2>1 DEF InfosFit, StackFits, VisitsFit, ComponentsFit
<1>5. Searched(automaton, infos, {}, {}, {})
  BY <1>1 DEF Searched, NumbersFit, AllMet, WorkLeadsUp, StackLeadsDown, LinkIsMet, LinkIsLow,
              ClosedLeadsNowhere
<1> QED
  BY <1>1, <1>2, <1>3, <1>4, <1>5 DEF PassInv

\* The calls when an edge has been visited.
LEMMA VisitedIs ==
  ASSUME PassInv, visits # <<>>, NEW e \in TopVisit.todo
  PROVE  LET d == Visited(e)
         IN  /\ d \in Seq(VisitsOf(automaton)) /\ Len(d) = Len(visits) /\ DOMAIN d = DOMAIN visits
             /\ \A i \in DOMAIN visits : d[i].state = visits[i].state /\ d[i].todo = visits[i].todo \ {e}
             /\ {d[i].state : i \in DOMAIN d} = AtWork
             /\ UNION {d[i].todo : i \in DOMAIN d} = ToVisit \ {e}
             /\ e \in ToVisit /\ e \in automaton.edges /\ e.source = visits[1].state
             /\ IsTop(infos, AtWork, e.source)
<1> DEFINE F == VisitsOf(automaton)
           c == [visits[1] EXCEPT !.todo = @ \ {e}]
           d == <<c>> \o Tail(visits)
<1>1. visits \in Seq(F)
  BY DEF PassInv, VisitsFit
<1> HIDE DEF F
<1>2. visits[1] \in F /\ Head(visits) = visits[1] /\ Tail(visits) \in Seq(F)
      /\ Len(visits) \in Nat \ {0} /\ Len(Tail(visits)) = Len(visits) - 1
      /\ \A i \in 1 .. Len(visits) - 1 : Tail(visits)[i] = visits[i + 1]
  BY <1>1
<1>3. c \in F /\ c.state = visits[1].state /\ c.todo = visits[1].todo \ {e}
  BY <1>2 DEF F, VisitsOf
<1>4. Visited(e) = d /\ e \in visits[1].todo
  BY <1>2 DEF Visited, TopVisit
<1> HIDE DEF c
<1>5. /\ d \in Seq(F) /\ Len(d) = Len(visits) /\ d[1] = c
      /\ \A i \in 2 .. Len(visits) : d[i] = visits[i]
  BY <1>2, <1>3
<1>6. DOMAIN visits = 1 .. Len(visits) /\ DOMAIN d = 1 .. Len(visits) /\ 1 \in DOMAIN visits
  BY <1>1, <1>2, <1>5
<1> HIDE DEF d
<1>7. /\ \A i \in DOMAIN visits : \A f \in visits[i].todo : f.source = visits[i].state
      /\ \A i, j \in DOMAIN visits : i < j => infos[visits[j].state].index < infos[visits[i].state].index
  BY DEF PassInv, VisitsFit
<1>8. \A i \in DOMAIN visits : infos[visits[i].state].index \in Nat
  BY DEF PassInv, Searched, NumbersFit, AtWork
<1>9. \A i \in DOMAIN visits : i # 1 => infos[visits[i].state].index < infos[visits[1].state].index
  BY <1>6, <1>7
<1>10. \A i \in DOMAIN visits : i # 1 => e \notin visits[i].todo
  BY <1>4, <1>6, <1>7, <1>8, <1>9
<1>11. ASSUME NEW i \in DOMAIN visits PROVE d[i].state = visits[i].state /\ d[i].todo = visits[i].todo \ {e}
  <2>1. CASE i = 1
    BY <1>3, <1>5, <2>1
  <2>2. CASE i # 1
    <3>1. d[i] = visits[i]
      BY <1>5, <1>6, <2>2
    <3> QED
      BY <1>10, <2>2, <3>1
  <2> QED
    BY <2>1, <2>2
<1>12. {d[i].state : i \in DOMAIN d} = AtWork
  BY <1>6, <1>11 DEF AtWork
<1>13. UNION {d[i].todo : i \in DOMAIN d} = ToVisit \ {e}
  BY <1>6, <1>11 DEF ToVisit
<1>14. e \in ToVisit /\ e \in automaton.edges /\ e.source = visits[1].state
  BY <1>2, <1>4, <1>6, <1>7 DEF ToVisit, F, VisitsOf
<1>15. IsTop(infos, AtWork, e.source)
  <2>1. \A i \in DOMAIN visits : infos[visits[i].state].index <= infos[visits[1].state].index
    BY <1>6, <1>8, <1>9
  <2> QED
    BY <1>6, <1>14, <2>1 DEF IsTop, AtWork
<1> QED
  BY <1>4, <1>5, <1>6, <1>11, <1>12, <1>13, <1>14, <1>15 DEF F

\* A state is met: by the first call, or on the way along an edge.
LEMMA EnterPassInv ==
  ASSUME PassInv, NEW s \in ReachFrom(automaton, automaton.initial) \ DOMAIN infos, NEW callers,
         Enter(s, callers),
         callers \in Seq(VisitsOf(automaton)), Len(callers) = Len(visits), DOMAIN callers = DOMAIN visits,
         \A i \in DOMAIN visits : callers[i].state = visits[i].state /\ callers[i].todo \subseteq visits[i].todo,
         \A e \in ToVisit \ UNION {callers[i].todo : i \in DOMAIN callers} : e.target = s,
         \A g \in AtWork : Leads(automaton, g, s),
         automaton.initial \subseteq DOMAIN infos \cup {s}
  PROVE  PassInv'
<1> DEFINE a == automaton
           n == Cardinality(DOMAIN infos)
           F == VisitsOf(automaton)
           c == [state |-> s, todo |-> Out(automaton, s)]
           T0 == UNION {callers[i].todo : i \in DOMAIN callers}
<1>1. /\ infos' = [r \in DOMAIN infos \cup {s} |->
                     IF r = s THEN [index |-> n, lowLink |-> n, onStack |-> TRUE] ELSE infos[r]]
      /\ stack' = <<s>> \o stack /\ visits' = <<c>> \o callers
      /\ UNCHANGED <<automaton, components>>
  BY DEF Enter
<1>2. Searched(a, infos, OnStack, AtWork, ToVisit) /\ IsGraph(a)
  BY DEF PassInv
<1>3. /\ n \in Nat /\ DOMAIN infos \subseteq a.states /\ s \in a.states
      /\ \A x \in DOMAIN infos : infos[x].index \in Nat /\ infos[x].index < n
      /\ OnStack \subseteq DOMAIN infos /\ AtWork \subseteq DOMAIN infos
  <2>1. NumbersFit(a, infos, OnStack, AtWork, ToVisit)
    BY <1>2 DEF Searched
  <2>2. n \in Nat /\ DOMAIN infos \subseteq a.states
    BY <1>2, <2>1, MetIsFinite
  <2>3. s \in a.states
    BY <1>2, ReachIsLeast DEF IsGraph
  <2> QED
    BY <2>1, <2>2, <2>3 DEF NumbersFit
<1>4. /\ DOMAIN infos' = DOMAIN infos \cup {s} /\ \A x \in DOMAIN infos : infos'[x] = infos[x]
      /\ infos'[s] = [index |-> n, lowLink |-> n, onStack |-> TRUE]
  BY <1>1
<1> HIDE DEF n
<1>5. /\ stack' \in Seq(a.states) /\ Len(stack) \in Nat /\ DOMAIN stack = 1 .. Len(stack)
      /\ DOMAIN stack' = 1 .. (Len(stack) + 1) /\ stack'[1] = s
      /\ \A i \in DOMAIN stack : stack'[i + 1] = stack[i]
  <2>1. stack \in Seq(a.states)
    BY DEF PassInv, StackFits
  <2> DEFINE p == <<s>> \o stack
  <2>2. /\ p \in Seq(a.states) /\ Len(stack) \in Nat /\ DOMAIN stack = 1 .. Len(stack)
        /\ DOMAIN p = 1 .. (Len(stack) + 1) /\ p[1] = s
        /\ \A i \in DOMAIN stack : p[i + 1] = stack[i]
    <3> DEFINE A == a.states
    <3>1. s \in A /\ stack \in Seq(A)
      BY <1>3, <2>1
    <3> HIDE DEF A
    <3>2. /\ p \in Seq(A) /\ Len(stack) \in Nat /\ DOMAIN stack = 1 .. Len(stack)
          /\ DOMAIN p = 1 .. (Len(stack) + 1) /\ p[1] = s
          /\ \A i \in DOMAIN stack : p[i + 1] = stack[i]
      BY <3>1
    <3> QED
      BY <3>2 DEF A
  <2>3. stack' = p
    BY <1>1
  <2> HIDE DEF p
  <2> QED
    BY <2>2, <2>3
<1>6. c \in F /\ c.state = s /\ c.todo = Out(a, s)
  BY <1>3 DEF VisitsOf, Out
<1> HIDE DEF F, c
<1>7. /\ visits' \in Seq(F) /\ Len(visits) \in Nat /\ DOMAIN visits = 1 .. Len(visits)
      /\ DOMAIN visits' = 1 .. (Len(visits) + 1) /\ visits'[1] = c
      /\ \A i \in DOMAIN visits : visits'[i + 1] = callers[i]
  <2>1. visits \in Seq(F) /\ callers \in Seq(F)
    BY DEF PassInv, VisitsFit, F
  <2> QED
    BY <1>1, <1>6, <2>1
<1>8. OnStack' = OnStack \cup {s}
  <2>1. ASSUME NEW i \in DOMAIN stack' PROVE stack'[i] \in OnStack \cup {s}
    <3>1. i = 1 \/ (i - 1 \in DOMAIN stack /\ (i - 1) + 1 = i)
      BY <1>5
    <3> QED
      BY <1>5, <3>1 DEF OnStack
  <2>2. ASSUME NEW i \in DOMAIN stack PROVE stack[i] \in OnStack'
    BY <1>5 DEF OnStack
  <2>3. s \in OnStack'
    BY <1>5 DEF OnStack
  <2> QED
    BY <2>1, <2>2, <2>3 DEF OnStack
<1>9. ASSUME NEW i \in DOMAIN visits'
      PROVE  i = 1 \/ (i - 1 \in DOMAIN visits /\ (i - 1) + 1 = i /\ visits'[i] = callers[i - 1])
  <2>1. i = 1 \/ (i - 1 \in DOMAIN visits /\ (i - 1) + 1 = i)
    BY <1>7
  <2> QED
    BY <1>7, <2>1
<1>10. \A i \in DOMAIN visits : i + 1 \in DOMAIN visits' /\ visits'[i + 1] = callers[i]
  BY <1>7
<1>11. 1 \in DOMAIN visits' /\ visits'[1] = c
  BY <1>7
<1>12. AtWork' = AtWork \cup {s}
  <2>1. \A i \in DOMAIN visits' : visits'[i].state \in AtWork \cup {s}
    BY <1>6, <1>9, <1>11 DEF AtWork
  <2>2. \A i \in DOMAIN visits : visits[i].state \in AtWork'
    BY <1>10 DEF AtWork
  <2>3. s \in AtWork'
    BY <1>6, <1>11 DEF AtWork
  <2> QED
    BY <2>1, <2>2, <2>3 DEF AtWork
<1>13. ToVisit' = T0 \cup Out(a, s)
  <2>1. \A i \in DOMAIN visits' : visits'[i].todo \subseteq T0 \cup Out(a, s)
    BY <1>6, <1>9, <1>11
  <2>2. \A i \in DOMAIN callers : callers[i].todo \subseteq ToVisit'
    BY <1>10 DEF ToVisit
  <2>3. Out(a, s) \subseteq ToVisit'
    BY <1>6, <1>11 DEF ToVisit
  <2> QED
    BY <2>1, <2>2, <2>3 DEF ToVisit
<1>14. Searched(a, infos', OnStack \cup {s}, AtWork \cup {s}, T0 \cup Out(a, s))
  <2>1. T0 \in SUBSET ToVisit
    BY DEF ToVisit
  <2>2. infos'[s].index = Cardinality(DOMAIN infos) /\ infos'[s].lowLink = Cardinality(DOMAIN infos)
    BY <1>4 DEF n
  <2> HIDE DEF T0
  <2>3. \A e \in ToVisit \ T0 : e.target = s
    BY DEF T0
  <2> QED
    BY <1>2, <1>4, <2>1, <2>2, <2>3, EnterFits, ZenonT(60)
<1>15. InfosFit'
  <2>1. \A x \in DOMAIN infos' : infos'[x] \in Info
    <3>1. infos \in [DOMAIN infos -> Info]
      BY DEF PassInv, InfosFit
    <3>2. [index |-> n, lowLink |-> n, onStack |-> TRUE] \in Info
      BY <1>3 DEF Info
    <3> QED
      BY <1>4, <3>1, <3>2
  <2>2. infos' = [x \in DOMAIN infos' |-> infos'[x]]
    BY <1>1, <1>4
  <2>3. infos' \in [DOMAIN infos' -> Info]
    BY <2>1, <2>2
  <2>4. \A x \in DOMAIN infos' : infos'[x].onStack <=> x \in OnStack'
    <3>1. infos'[s].onStack
      BY <1>4
    <3>2. \A x \in DOMAIN infos : infos[x].onStack <=> x \in OnStack
      BY DEF PassInv, InfosFit
    <3> QED
      BY <1>4, <1>8, <3>1, <3>2
  <2> QED
    BY <2>3, <2>4 DEF InfosFit
<1>16. StackFits'
  <2> SUFFICES ASSUME NEW i \in DOMAIN stack', NEW j \in DOMAIN stack', i < j
               PROVE  infos'[stack'[j]].index < infos'[stack'[i]].index
    BY <1>1, <1>5 DEF StackFits
  <2>1. j - 1 \in DOMAIN stack /\ (j - 1) + 1 = j
    BY <1>5
  <2>2. stack'[j] = stack[j - 1] /\ stack[j - 1] \in OnStack
    BY <1>5, <2>1 DEF OnStack
  <2>3. CASE i = 1
    <3>1. infos'[stack'[i]].index = n
      BY <1>4, <1>5, <2>3
    <3>2. infos'[stack'[j]].index < n
      BY <1>3, <1>4, <2>2
    <3> QED
      BY <3>1, <3>2
  <2>4. CASE i # 1
    <3>1. i - 1 \in DOMAIN stack /\ (i - 1) + 1 = i /\ i - 1 < j - 1
      BY <1>5, <2>4
    <3>2. stack'[i] = stack[i - 1] /\ stack[i - 1] \in OnStack
      BY <1>5, <3>1 DEF OnStack
    <3>3. infos[stack[j - 1]].index < infos[stack[i - 1]].index
      BY <2>1, <3>1 DEF PassInv, StackFits
    <3> QED
      BY <1>3, <1>4, <2>2, <3>2, <3>3
  <2> QED
    BY <2>3, <2>4
<1>17. VisitsFit'
  <2>1. \A i \in DOMAIN visits' : \A e \in visits'[i].todo : e.source = visits'[i].state
    BY <1>6, <1>9, <1>11 DEF PassInv, VisitsFit, Out
  <2>2. ASSUME NEW i \in DOMAIN visits', NEW j \in DOMAIN visits', i < j
        PROVE  infos'[visits'[j].state].index < infos'[visits'[i].state].index
    <3>1. j - 1 \in DOMAIN visits /\ (j - 1) + 1 = j
      BY <1>7, <2>2
    <3>2. visits'[j].state = visits[j - 1].state /\ visits[j - 1].state \in AtWork
      BY <1>7, <3>1 DEF AtWork
    <3>3. CASE i = 1
      <4>1. infos'[visits'[i].state].index = n
        BY <1>4, <1>6, <1>7, <3>3
      <4>2. infos'[visits'[j].state].index < n
        BY <1>3, <1>4, <3>2
      <4> QED
        BY <4>1, <4>2
    <3>4. CASE i # 1
      <4>1. i - 1 \in DOMAIN visits /\ (i - 1) + 1 = i /\ i - 1 < j - 1
        BY <1>7, <2>2, <3>4
      <4>2. visits'[i].state = visits[i - 1].state /\ visits[i - 1].state \in AtWork
        BY <1>7, <4>1 DEF AtWork
      <4>3. infos[visits[j - 1].state].index < infos[visits[i - 1].state].index
        BY <3>1, <4>1 DEF PassInv, VisitsFit
      <4> QED
        BY <1>3, <1>4, <3>2, <4>2, <4>3
    <3> QED
      BY <3>3, <3>4
  <2>3. visits' \in Seq(VisitsOf(automaton'))
    BY <1>1, <1>7 DEF F
  <2> QED
    BY <2>1, <2>2, <2>3 DEF VisitsFit
<1>18. ComponentsFit'
  <2>1. DOMAIN infos' \ OnStack' = DOMAIN infos \ OnStack
    BY <1>4, <1>8
  <2> QED
    BY <1>1, <2>1 DEF PassInv, ComponentsFit
<1> QED
  BY <1>1, <1>2, <1>4, <1>8, <1>12, <1>13, <1>14, <1>15, <1>16, <1>17, <1>18 DEF PassInv

\* The initial state is met.
LEMMA StartPassInv == PassInv /\ StartPass => PassInv'
<1> SUFFICES ASSUME PassInv, StartPass PROVE PassInv'
  OBVIOUS
<1>1. PICK s \in automaton.initial : Enter(s, <<>>)
  BY DEF StartPass
<1>2. DOMAIN infos = {}
  BY DEF StartPass
<1>3. AtWork = {} /\ ToVisit = {} /\ visits = <<>>
  <2>1. AtWork = {}
    BY <1>2 DEF PassInv, Searched, NumbersFit
  <2>2. visits \in Seq(VisitsOf(automaton))
    BY DEF PassInv, VisitsFit
  <2>3. \A i \in DOMAIN visits : FALSE
    BY <2>1 DEF AtWork
  <2>4. visits # <<>> => 1 \in DOMAIN visits
    BY <2>2
  <2> QED
    BY <2>1, <2>3, <2>4 DEF ToVisit
<1>4. s \in ReachFrom(automaton, automaton.initial) \ DOMAIN infos
  BY <1>2, ReachIsLeast DEF PassInv, IsGraph
<1>5. \A t \in automaton.initial : t = s
  BY AutomataAssumption DEF PassInv
<1>6. <<>> \in Seq(VisitsOf(automaton)) /\ DOMAIN visits = {}
  BY <1>3
<1> QED
  BY <1>1, <1>3, <1>4, <1>5, <1>6, EnterPassInv

\* An edge leads to a state that was not met before, which is called for.
LEMMA VisitNewPassInv ==
  ASSUME PassInv, visits # <<>>, NEW e \in TopVisit.todo, VisitNew(e)
  PROVE  PassInv'
<1> DEFINE d == Visited(e)
           s == e.target
<1>1. /\ d \in Seq(VisitsOf(automaton)) /\ Len(d) = Len(visits) /\ DOMAIN d = DOMAIN visits
      /\ \A i \in DOMAIN visits : d[i].state = visits[i].state /\ d[i].todo = visits[i].todo \ {e}
      /\ UNION {d[i].todo : i \in DOMAIN d} = ToVisit \ {e}
      /\ e \in ToVisit /\ e \in automaton.edges /\ IsTop(infos, AtWork, e.source)
  BY VisitedIs
<1>2. s \notin DOMAIN infos /\ Enter(s, d)
  BY DEF VisitNew
<1> HIDE DEF d
<1>3. /\ IsGraph(automaton) /\ Searched(automaton, infos, OnStack, AtWork, ToVisit)
      /\ NumbersFit(automaton, infos, OnStack, AtWork, ToVisit)
  BY DEF PassInv, Searched
<1>4. e.source \in AtWork /\ AtWork \subseteq OnStack /\ OnStack \subseteq DOMAIN infos
      /\ DOMAIN infos \subseteq ReachFrom(automaton, automaton.initial) /\ AtWork \subseteq automaton.states
  <2>1. AtWork \subseteq automaton.states
    BY <1>3, MetIsFinite
  <2> QED
    BY <1>1, <1>3, <2>1 DEF IsTop, NumbersFit
<1>5. s \in ReachFrom(automaton, automaton.initial)
  BY <1>1, <1>3, <1>4, ReachIsLeast DEF IsGraph
<1>6. ASSUME NEW g \in AtWork PROVE Leads(automaton, g, s)
  <2>1. Leads(automaton, g, e.source)
    BY <1>1, <1>3, <1>4 DEF IsTop, Searched, WorkLeadsUp
  <2>2. Leads(automaton, e.source, s)
    BY <1>1, <1>3, LeadsOn
  <2> QED
    BY <1>3, <1>4, <2>1, <2>2, LeadsOn
<1>7. automaton.initial \subseteq DOMAIN infos \cup {s}
  BY <1>4 DEF PassInv
<1>8. \A f \in ToVisit \ UNION {d[i].todo : i \in DOMAIN d} : f.target = s
  BY <1>1
<1>9. \A i \in DOMAIN visits : d[i].state = visits[i].state /\ d[i].todo \subseteq visits[i].todo
  BY <1>1
<1> QED
  BY <1>1, <1>2, <1>5, <1>6, <1>7, <1>8, <1>9, EnterPassInv

\* The link of a state is lowered to a number, unless it is lower already.
LEMMA LinkedIs ==
  ASSUME NEW D, NEW f \in [D -> Info], NEW s \in D, NEW link \in Nat
  PROVE  LET g == Linked(f, s, link)
         IN  /\ g \in [D -> Info]
             /\ \A x \in D : g[x].index = f[x].index /\ (g[x].onStack <=> f[x].onStack)
             /\ \A x \in D : x # s => g[x].lowLink = f[x].lowLink
             /\ g[s].lowLink = IF link < f[s].lowLink THEN link ELSE f[s].lowLink
<1> DEFINE low == Min(f[s].lowLink, link)
           r == [f[s] EXCEPT !.lowLink = low]
           g == Linked(f, s, link)
<1>1. f[s] \in Info
  OBVIOUS
<1>2. low \in Nat /\ low = IF link < f[s].lowLink THEN link ELSE f[s].lowLink
  BY <1>1 DEF Min, Info
<1>3. g = [f EXCEPT ![s] = r]
  BY DEF Linked
<1> HIDE DEF low, g
<1>4. r \in Info /\ r.index = f[s].index /\ r.lowLink = low /\ r.onStack = f[s].onStack
  BY <1>1, <1>2 DEF Info
<1> HIDE DEF r
<1>5. g \in [D -> Info] /\ g[s] = r /\ \A x \in D : x # s => g[x] = f[x]
  BY <1>3, <1>4
<1> QED
  BY <1>2, <1>4, <1>5 DEF g

\* Numbers and flags that are kept.
LEMMA LinksAside ==
  ASSUME PassInv, UNCHANGED <<automaton, stack>>,
         infos' \in [DOMAIN infos -> Info],
         \A x \in DOMAIN infos : infos'[x].index = infos[x].index /\ (infos'[x].onStack <=> infos[x].onStack)
  PROVE  InfosFit' /\ StackFits' /\ OnStack' = OnStack /\ DOMAIN infos' = DOMAIN infos
<1>1. OnStack' = OnStack /\ DOMAIN infos' = DOMAIN infos
  BY DEF OnStack
<1>2. OnStack \subseteq DOMAIN infos /\ \A i \in DOMAIN stack : stack[i] \in OnStack
  BY DEF PassInv, Searched, NumbersFit, OnStack
<1>3. InfosFit'
  <2>1. \A x \in DOMAIN infos : infos[x].onStack <=> x \in OnStack
    BY DEF PassInv, InfosFit
  <2>2. \A x \in DOMAIN infos' : infos'[x].onStack <=> x \in OnStack'
    BY <1>1, <2>1
  <2>3. infos' \in [DOMAIN infos' -> Info]
    BY <1>1
  <2> QED
    BY <2>2, <2>3 DEF InfosFit
<1>4. StackFits'
  BY <1>2 DEF PassInv, StackFits
<1> QED
  BY <1>1, <1>3, <1>4

\* An edge leads to a state that was met before.
LEMMA VisitKnownPassInv ==
  ASSUME PassInv, visits # <<>>, NEW e \in TopVisit.todo, VisitKnown(e)
  PROVE  PassInv'
<1> DEFINE D == DOMAIN infos
<1>1. /\ visits' \in Seq(VisitsOf(automaton)) /\ DOMAIN visits' = DOMAIN visits
      /\ \A i \in DOMAIN visits : visits'[i].state = visits[i].state /\ visits'[i].todo = visits[i].todo \ {e}
      /\ AtWork' = AtWork /\ ToVisit' = ToVisit \ {e}
      /\ e \in ToVisit /\ IsTop(infos, AtWork, e.source)
  <2> DEFINE d == Visited(e)
  <2>1. visits' = d
    BY DEF VisitKnown
  <2>2. /\ d \in Seq(VisitsOf(automaton)) /\ DOMAIN d = DOMAIN visits
        /\ \A i \in DOMAIN visits : d[i].state = visits[i].state /\ d[i].todo = visits[i].todo \ {e}
        /\ {d[i].state : i \in DOMAIN d} = AtWork
        /\ UNION {d[i].todo : i \in DOMAIN d} = ToVisit \ {e}
        /\ e \in ToVisit /\ IsTop(infos, AtWork, e.source)
    BY VisitedIs
  <2> HIDE DEF d
  <2>3. AtWork' = {d[i].state : i \in DOMAIN d} /\ ToVisit' = UNION {d[i].todo : i \in DOMAIN d}
    BY <2>1 DEF AtWork, ToVisit
  <2> QED
    BY <2>1, <2>2, <2>3
<1>2. /\ e.target \in D /\ UNCHANGED <<automaton, stack, components>>
      /\ infos' = IF infos[e.target].onStack THEN Linked(infos, e.source, infos[e.target].index)
                                             ELSE infos
  BY DEF VisitKnown
<1>3. /\ IsGraph(automaton) /\ Searched(automaton, infos, OnStack, AtWork, ToVisit)
      /\ e.source \in AtWork /\ AtWork \subseteq D /\ OnStack \subseteq D
      /\ \A x \in D : infos[x].index \in Nat /\ infos[x].lowLink \in Nat
  BY <1>1 DEF PassInv, Searched, NumbersFit, IsTop
<1>4. infos \in [D -> Info] /\ \A x \in D : infos[x].onStack <=> x \in OnStack
  BY DEF PassInv, InfosFit
<1> HIDE DEF D
<1>6. /\ infos' \in [D -> Info]
      /\ \A x \in D : infos'[x].index = infos[x].index /\ (infos'[x].onStack <=> infos[x].onStack)
      /\ \A x \in D : x # e.source => infos'[x].lowLink = infos[x].lowLink
      /\ infos'[e.source].lowLink = IF e.target \in OnStack /\ infos[e.target].index < infos[e.source].lowLink
                                     THEN infos[e.target].index ELSE infos[e.source].lowLink
  <2>1. CASE e.target \in OnStack
    <3>1. infos' = Linked(infos, e.source, infos[e.target].index)
      BY <1>2, <1>4, <2>1
    <3> QED
      BY <1>2, <1>3, <1>4, <2>1, <3>1, LinkedIs
  <2>2. CASE e.target \notin OnStack
    <3>1. infos' = infos
      BY <1>2, <1>4, <2>2
    <3> QED
      BY <1>4, <2>2, <3>1
  <2> QED
    BY <2>1, <2>2
<1>7. InfosFit' /\ StackFits' /\ OnStack' = OnStack /\ DOMAIN infos' = D
  BY <1>2, <1>6, LinksAside DEF D
<1>8. Searched(automaton, infos', OnStack, AtWork, ToVisit \ {e})
  <2>1. e.target \in DOMAIN infos /\ \A g \in AtWork : infos[g].index <= infos[e.source].index
    BY <1>1, <1>2 DEF IsTop, D
  <2>2. DOMAIN infos' = DOMAIN infos
    BY <1>7 DEF D
  <2> QED
    BY <1>1, <1>3, <1>6, <2>1, <2>2, KnownFits, ZenonT(60) DEF D
<1>9. VisitsFit'
  <2>1. \A i \in DOMAIN visits : visits[i].state \in D
    BY <1>3 DEF AtWork
  <2>2. \A i, j \in DOMAIN visits' : i < j => infos'[visits'[j].state].index < infos'[visits'[i].state].index
    BY <1>1, <1>6, <2>1 DEF PassInv, VisitsFit
  <2>3. \A i \in DOMAIN visits' : \A f \in visits'[i].todo : f.source = visits'[i].state
    BY <1>1 DEF PassInv, VisitsFit
  <2> QED
    BY <1>1, <1>2, <2>2, <2>3 DEF VisitsFit
<1>10. ComponentsFit'
  BY <1>2, <1>7 DEF PassInv, ComponentsFit, D
<1>11. DOMAIN infos' # {} => automaton'.initial \subseteq DOMAIN infos'
  BY <1>2, <1>7 DEF PassInv, D
<1> QED
  BY <1>1, <1>2, <1>3, <1>7, <1>8, <1>9, <1>10, <1>11 DEF PassInv

\* What is left of a sequence behind its first k elements.
LEMMA RestIs ==
  ASSUME NEW A, NEW q \in Seq(A), NEW k \in Nat, k <= Len(q)
  PROVE  LET r == SubSeq(q, k + 1, Len(q))
         IN  /\ r \in Seq(A) /\ DOMAIN r = 1 .. (Len(q) - k)
             /\ \A i \in 1 .. (Len(q) - k) : r[i] = q[i + k]
OBVIOUS

\* What lies above s on the stack, and the stack below.
From(s)  == Above(infos, OnStack, s)
Below(s) == SubSeq(stack, Popped(s).count + 1, Len(stack))

\* The states popped are those of s and above; the order of what is left stays.
LEMMA PoppedIs ==
  ASSUME PassInv, NEW s \in OnStack
  PROVE  /\ Popped(s).states = From(s)
         /\ Below(s) \in Seq(automaton.states)
         /\ \A x : x \in OnStack \ From(s) <=> \E i \in DOMAIN Below(s) : x = Below(s)[i]
         /\ \A i, j \in DOMAIN Below(s) : i < j => infos[Below(s)[j]].index < infos[Below(s)[i]].index
<1> DEFINE k == CHOOSE i \in DOMAIN stack : stack[i] = s
           C == {x \in OnStack : infos[s].index <= infos[x].index}
           rest == SubSeq(stack, k + 1, Len(stack))
<1>1. /\ stack \in Seq(automaton.states)
      /\ \A i, j \in DOMAIN stack : i < j => infos[stack[j]].index < infos[stack[i]].index
      /\ \A x \in OnStack : infos[x].index \in Nat
  BY DEF PassInv, StackFits, Searched, NumbersFit
<1>2. k \in DOMAIN stack /\ stack[k] = s
  BY DEF OnStack
<1>3. Popped(s).count = k /\ Popped(s).states = {stack[i] : i \in 1 .. k}
  BY DEF Popped
<1> HIDE DEF k
<1>4. Len(stack) \in Nat /\ DOMAIN stack = 1 .. Len(stack) /\ k \in Nat /\ 1 <= k /\ k <= Len(stack)
  BY <1>1, <1>2
<1>5. \A i \in DOMAIN stack : stack[i] \in OnStack /\ (i <= k <=> stack[i] \in C)
  <2> SUFFICES ASSUME NEW i \in DOMAIN stack PROVE stack[i] \in OnStack /\ (i <= k <=> stack[i] \in C)
    OBVIOUS
  <2>1. stack[i] \in OnStack
    BY DEF OnStack
  <2>2. infos[stack[i]].index \in Nat /\ infos[s].index \in Nat
    BY <1>1, <2>1
  <2>3. i \in Nat
    BY <1>4
  <2>4. i < k => infos[s].index < infos[stack[i]].index
    BY <1>1, <1>2
  <2>5. k < i => infos[stack[i]].index < infos[s].index
    BY <1>1, <1>2
  <2>6. i = k => stack[i] = s
    BY <1>2
  <2> QED
    BY <1>4, <2>1, <2>2, <2>3, <2>4, <2>5, <2>6
<1>6. /\ rest \in Seq(automaton.states) /\ DOMAIN rest = 1 .. (Len(stack) - k)
      /\ \A i \in 1 .. (Len(stack) - k) : rest[i] = stack[i + k]
  BY <1>1, <1>4, RestIs
<1> HIDE DEF rest
<1>7. \A i \in DOMAIN rest : i + k \in DOMAIN stack /\ rest[i] = stack[i + k] /\ ~ (i + k <= k) /\ i \in Nat
  BY <1>4, <1>6
<1>8. {stack[i] : i \in 1 .. k} = C
  <2>1. \A i \in 1 .. k : i \in DOMAIN stack /\ i <= k
    BY <1>4
  <2>2. ASSUME NEW x \in C PROVE \E i \in 1 .. k : x = stack[i]
    <3>1. PICK i \in DOMAIN stack : stack[i] = x
      BY DEF OnStack
    <3>2. i \in 1 .. k
      BY <1>4, <1>5, <3>1
    <3> QED
      BY <3>1, <3>2
  <2> HIDE DEF C
  <2> QED
    BY <1>5, <2>1, <2>2
<1>9. \A x : x \in OnStack \ C <=> \E i \in DOMAIN rest : x = rest[i]
  <2>1. \A i \in DOMAIN rest : rest[i] \in OnStack \ C
    <3> HIDE DEF C
    <3> QED
      BY <1>5, <1>7
  <2>2. ASSUME NEW x \in OnStack \ C PROVE \E i \in DOMAIN rest : x = rest[i]
    <3> HIDE DEF C
    <3>1. PICK i \in DOMAIN stack : stack[i] = x
      BY DEF OnStack
    <3>2. i - k \in DOMAIN rest /\ (i - k) + k = i
      BY <1>4, <1>5, <1>6, <3>1
    <3> QED
      BY <1>7, <3>1, <3>2
  <2> HIDE DEF C
  <2> QED
    BY <2>1, <2>2
<1>10. \A i, j \in DOMAIN rest : i < j => infos[rest[j]].index < infos[rest[i]].index
  <2> SUFFICES ASSUME NEW i \in DOMAIN rest, NEW j \in DOMAIN rest, i < j
               PROVE  infos[rest[j]].index < infos[rest[i]].index
    OBVIOUS
  <2>1. i + k < j + k
    BY <1>4, <1>7
  <2> QED
    BY <1>1, <1>7, <2>1
<1>11. Below(s) = rest /\ From(s) = C
  BY <1>3 DEF Below, From, Above, rest
<1> HIDE DEF C
<1> QED
  BY <1>3, <1>6, <1>8, <1>9, <1>10, <1>11

\* The calls when one returns: its state is no longer at work, and had nothing left to visit.
LEMMA ReturnedIs ==
  ASSUME PassInv, ReturnVisit
  PROVE  LET s == visits[1].state
         IN  /\ visits' \in Seq(VisitsOf(automaton)) /\ TopVisit.state = s
             /\ \A i \in DOMAIN visits' : i + 1 \in DOMAIN visits /\ visits'[i] = visits[i + 1] /\ i \in Nat
             /\ AtWork' = AtWork \ {s} /\ ToVisit' = ToVisit /\ \A e \in ToVisit : e.source # s
             /\ IsTop(infos, AtWork, s)
             /\ Len(visits) = 1 => \A x : ~ IsTop(infos, AtWork \ {s}, x)
             /\ Len(visits) # 1 => \A x : IsTop(infos, AtWork \ {s}, x) <=> x = visits[2].state
<1> DEFINE F == VisitsOf(automaton)
           s == visits[1].state
           num(i) == infos[visits[i].state].index
<1>1. visits \in Seq(F) /\ visits # <<>>
  BY DEF PassInv, VisitsFit, ReturnVisit
<1> HIDE DEF F
<1>2. /\ Head(visits) = visits[1] /\ Len(visits) \in Nat \ {0} /\ DOMAIN visits = 1 .. Len(visits)
      /\ Tail(visits) \in Seq(F) /\ DOMAIN Tail(visits) = 1 .. (Len(visits) - 1)
      /\ \A i \in 1 .. (Len(visits) - 1) : Tail(visits)[i] = visits[i + 1]
  BY <1>1
<1>3. visits' = Tail(visits) /\ visits[1].todo = {} /\ TopVisit.state = s
  BY <1>2 DEF ReturnVisit, TopVisit
<1>4. \A i \in DOMAIN visits' : i + 1 \in DOMAIN visits /\ visits'[i] = visits[i + 1] /\ i \in Nat /\ i + 1 # 1
  BY <1>2, <1>3
<1>5. \A i \in DOMAIN visits : i = 1 \/ (i - 1 \in DOMAIN visits' /\ visits'[i - 1] = visits[i])
  BY <1>2, <1>3
<1>6. /\ \A i \in DOMAIN visits : \A e \in visits[i].todo : e.source = visits[i].state
      /\ \A i, j \in DOMAIN visits : i < j => num(j) < num(i)
  BY DEF PassInv, VisitsFit
<1>7. \A i \in DOMAIN visits : num(i) \in Nat
  BY DEF PassInv, Searched, NumbersFit, AtWork
<1>8. \A i \in DOMAIN visits : i # 1 => num(i) < num(1) /\ visits[i].state # s
  <2> SUFFICES ASSUME NEW i \in DOMAIN visits, i # 1 PROVE num(i) < num(1) /\ visits[i].state # s
    OBVIOUS
  <2>1. 1 \in DOMAIN visits /\ 1 < i
    BY <1>2
  <2>2. num(i) < num(1) /\ num(1) \in Nat
    BY <1>6, <1>7, <2>1
  <2> QED
    BY <1>7, <2>2
<1>9. 1 \in DOMAIN visits
  BY <1>2
<1>10. AtWork' = AtWork \ {s}
  <2>1. \A i \in DOMAIN visits' : i + 1 # 1
    BY <1>4
  <2>2. \A x : x \in AtWork' <=> x \in AtWork /\ x # s
    BY <1>4, <1>5, <1>8, <2>1 DEF AtWork
  <2> QED
    BY <2>2
<1>11. ToVisit' = ToVisit
  <2>1. ASSUME NEW e \in ToVisit' PROVE e \in ToVisit
    <3>1. PICK i \in DOMAIN visits' : e \in visits'[i].todo
      BY DEF ToVisit
    <3> QED
      BY <1>4, <3>1 DEF ToVisit
  <2>2. ASSUME NEW e \in ToVisit PROVE e \in ToVisit'
    <3>1. PICK i \in DOMAIN visits : e \in visits[i].todo
      BY DEF ToVisit
    <3>2. i # 1
      BY <1>3, <3>1
    <3>3. i - 1 \in DOMAIN visits' /\ e \in visits'[i - 1].todo
      BY <1>5, <3>1, <3>2
    <3> QED
      BY <3>3 DEF ToVisit
  <2> QED
    BY <2>1, <2>2
<1>12. \A e \in ToVisit : e.source # s
  BY <1>3, <1>6, <1>8 DEF ToVisit
<1>13. IsTop(infos, AtWork, s)
  <2>1. \A i \in DOMAIN visits : num(i) <= num(1)
    BY <1>7, <1>8, <1>9
  <2> QED
    BY <1>9, <2>1 DEF IsTop, AtWork
<1>14. Len(visits) = 1 => \A x : ~ IsTop(infos, AtWork \ {s}, x)
  <2> SUFFICES ASSUME Len(visits) = 1, NEW x \in AtWork \ {s} PROVE FALSE
    BY DEF IsTop
  <2>1. PICK i \in DOMAIN visits : visits[i].state = x
    BY DEF AtWork
  <2>2. i = 1
    BY <1>2, <2>1
  <2> QED
    BY <2>1, <2>2
<1>15. ASSUME Len(visits) # 1, NEW x PROVE IsTop(infos, AtWork \ {s}, x) <=> x = visits[2].state
  <2>1. 2 \in DOMAIN visits
    BY <1>2, <1>15
  <2>2. visits[2].state \in AtWork \ {s}
    BY <1>8, <2>1 DEF AtWork
  <2>3. ASSUME NEW y \in AtWork \ {s}, y # visits[2].state
        PROVE  infos[y].index < infos[visits[2].state].index
    <3>1. PICK i \in DOMAIN visits : visits[i].state = y
      BY DEF AtWork
    <3>2. i # 1 /\ i # 2
      BY <2>3, <3>1
    <3>3. 2 < i
      BY <1>2, <3>2
    <3> QED
      BY <1>6, <2>1, <3>1, <3>3
  <2>4. infos[visits[2].state].index \in Nat /\ \A y \in AtWork : infos[y].index \in Nat
    BY <1>7, <2>1 DEF AtWork
  <2> QED
    BY <2>2, <2>3, <2>4 DEF IsTop
<1> QED
  BY <1>2, <1>3, <1>4, <1>10, <1>11, <1>12, <1>13, <1>14, <1>15 DEF F

\* A state of which only the flag is changed.
LEMMA FlagIs ==
  ASSUME NEW r \in Info, NEW b \in BOOLEAN
  PROVE  LET q == [r EXCEPT !.onStack = b]
         IN  q \in Info /\ q.index = r.index /\ q.lowLink = r.lowLink /\ q.onStack = b
BY DEF Info

\* The numbers when a call returns: the caller has learned of the link.
LEMMA ReturnedNumbers ==
  ASSUME PassInv, ReturnVisit
  PROVE  LET s == visits[1].state
         IN  /\ infos' \in [DOMAIN infos -> Info] /\ DOMAIN infos' = DOMAIN infos
             /\ \A x \in DOMAIN infos : infos'[x].index = infos[x].index /\ (infos'[x].onStack <=> x \in OnStack')
             /\ HasLearned(infos, AtWork, s, infos')
<1> DEFINE s == visits[1].state
           D == DOMAIN infos
           f == [x \in D |-> [infos[x] EXCEPT !.onStack = \E i \in DOMAIN stack' : stack'[i] = x]]
<1>1. infos \in [D -> Info]
  BY DEF PassInv, InfosFit
<1>2. Cleared = f
  BY DEF Cleared
<1>3. /\ f \in [D -> Info]
      /\ \A x \in D : f[x].index = infos[x].index /\ f[x].lowLink = infos[x].lowLink
                       /\ (f[x].onStack <=> x \in OnStack')
  <2>1. ASSUME NEW x \in D
        PROVE  /\ f[x] \in Info /\ f[x].index = infos[x].index /\ f[x].lowLink = infos[x].lowLink
               /\ f[x].onStack <=> x \in OnStack'
    <3> DEFINE b == \E i \in DOMAIN stack' : stack'[i] = x
    <3>0. b <=> x \in OnStack'
      BY DEF OnStack
    <3>1. b \in BOOLEAN /\ infos[x] \in Info
      BY <1>1
    <3>2. f[x] = [infos[x] EXCEPT !.onStack = b]
      OBVIOUS
    <3> HIDE DEF b, f
    <3>3. f[x] \in Info /\ f[x].index = infos[x].index /\ f[x].lowLink = infos[x].lowLink /\ f[x].onStack = b
      BY <3>1, <3>2, FlagIs
    <3> QED
      BY <3>0, <3>3
  <2>2. f = [x \in D |-> f[x]]
    OBVIOUS
  <2> HIDE DEF f
  <2>3. f \in [D -> Info]
    BY <2>1, <2>2
  <2> QED
    BY <2>1, <2>3
<1>4. infos' = IF Len(visits) = 1 THEN f ELSE Linked(f, visits[2].state, infos[s].lowLink)
  BY <1>2, ReturnedIs DEF ReturnVisit
<1> HIDE DEF f
<1>5. CASE Len(visits) = 1
  BY <1>3, <1>4, <1>5, ReturnedIs DEF HasLearned
<1>6. CASE Len(visits) # 1
  <2> DEFINE r == visits[2].state
  <2>1. \A x : IsTop(infos, AtWork \ {s}, x) <=> x = r
    BY <1>6, ReturnedIs
  <2>2. r \in D /\ infos[s].lowLink \in Nat
    <3>1. r \in AtWork /\ s \in AtWork
      BY <2>1, ReturnedIs DEF IsTop
    <3> QED
      BY <3>1 DEF PassInv, Searched, NumbersFit
  <2>3. infos' = Linked(f, r, infos[s].lowLink)
    BY <1>4, <1>6, SMTT(40)
  <2> HIDE DEF r, D
  <2>4. /\ infos' \in [D -> Info]
        /\ \A x \in D : infos'[x].index = f[x].index /\ (infos'[x].onStack <=> f[x].onStack)
        /\ \A x \in D : x # r => infos'[x].lowLink = f[x].lowLink
        /\ infos'[r].lowLink = IF infos[s].lowLink < f[r].lowLink THEN infos[s].lowLink ELSE f[r].lowLink
    BY <1>3, <2>2, <2>3, LinkedIs
  <2>5. DOMAIN infos' = D
    BY <2>4
  <2>6. /\ \A x \in D : infos'[x].index = infos[x].index /\ (infos'[x].onStack <=> x \in OnStack')
        /\ \A x \in D : x # r => infos'[x].lowLink = infos[x].lowLink
        /\ infos'[r].lowLink = IF infos[s].lowLink < infos[r].lowLink THEN infos[s].lowLink ELSE infos[r].lowLink
    BY <1>3, <2>2, <2>4
  <2>7. \A x \in D : ~ IsTop(infos, AtWork \ {s}, x) => infos'[x].lowLink = infos[x].lowLink
    BY <2>1, <2>6
  <2>8. \A x \in D : IsTop(infos, AtWork \ {s}, x) =>
          infos'[x].lowLink = IF infos[s].lowLink < infos[x].lowLink THEN infos[s].lowLink
                                                                  ELSE infos[x].lowLink
    BY <2>1, <2>6
  <2> HIDE DEF s
  <2> QED
    BY <2>4, <2>5, <2>6, <2>7, <2>8 DEF D, s, HasLearned
<1> QED
  BY <1>5, <1>6

\* The calls and the flags after a return, whatever became of the stack.
LEMMA ReturnFits ==
  ASSUME PassInv, ReturnVisit, UNCHANGED automaton, stack' \in Seq(automaton.states),
         OnStack' \subseteq OnStack,
         \A i, j \in DOMAIN stack' : i < j => infos[stack'[j]].index < infos[stack'[i]].index
  PROVE  InfosFit' /\ StackFits' /\ VisitsFit'
<1>1. /\ infos' \in [DOMAIN infos -> Info] /\ DOMAIN infos' = DOMAIN infos
      /\ \A x \in DOMAIN infos : infos'[x].index = infos[x].index /\ (infos'[x].onStack <=> x \in OnStack')
  BY ReturnedNumbers
<1>2. /\ visits' \in Seq(VisitsOf(automaton))
      /\ \A i \in DOMAIN visits' : i + 1 \in DOMAIN visits /\ visits'[i] = visits[i + 1] /\ i \in Nat
  BY ReturnedIs
<1>3. OnStack \subseteq DOMAIN infos /\ AtWork \subseteq DOMAIN infos
  BY DEF PassInv, Searched, NumbersFit
<1>4. InfosFit'
  BY <1>1 DEF InfosFit
<1>5. StackFits'
  <2>1. \A i \in DOMAIN stack' : stack'[i] \in OnStack'
    BY DEF OnStack
  <2>2. \A i \in DOMAIN stack' : infos'[stack'[i]].index = infos[stack'[i]].index
    BY <1>1, <1>3, <2>1
  <2> QED
    BY <2>2 DEF StackFits
<1>6. VisitsFit'
  <2>1. \A i \in DOMAIN visits : visits[i].state \in DOMAIN infos
    BY <1>3 DEF AtWork
  <2>2. ASSUME NEW i \in DOMAIN visits', NEW j \in DOMAIN visits', i < j
        PROVE  infos'[visits'[j].state].index < infos'[visits'[i].state].index
    <3>1. i + 1 < j + 1
      BY <1>2, <2>2
    <3>2. infos[visits[j + 1].state].index < infos[visits[i + 1].state].index
      BY <1>2, <3>1 DEF PassInv, VisitsFit
    <3> QED
      BY <1>1, <1>2, <2>1, <3>2
  <2>3. \A i \in DOMAIN visits' : \A e \in visits'[i].todo : e.source = visits'[i].state
    BY <1>2 DEF PassInv, VisitsFit
  <2> QED
    BY <1>2, <2>2, <2>3 DEF VisitsFit
<1> QED
  BY <1>4, <1>5, <1>6

\* A call returns and leaves its state on the stack.
LEMMA LeaveOpenPassInv ==
  ASSUME PassInv, ReturnVisit, LeaveOpen(TopVisit.state)
  PROVE  PassInv'
<1> DEFINE s == visits[1].state
<1>1. TopVisit.state = s
  BY ReturnedIs
<1>2. infos[s].lowLink # infos[s].index /\ UNCHANGED <<automaton, components, stack>>
  BY <1>1 DEF LeaveOpen, ReturnVisit
<1>3. OnStack' = OnStack
  BY <1>2 DEF OnStack
<1>4. InfosFit' /\ StackFits' /\ VisitsFit'
  BY <1>2, <1>3, ReturnFits DEF PassInv, StackFits
<1>5. DOMAIN infos' = DOMAIN infos
  BY ReturnedNumbers
<1>6. Searched(automaton, infos', OnStack, AtWork \ {s}, ToVisit)
  <2>1. /\ IsTop(infos, AtWork, s) /\ \A e \in ToVisit : e.source # s
        /\ IsGraph(automaton) /\ Searched(automaton, infos, OnStack, AtWork, ToVisit)
    BY ReturnedIs DEF PassInv
  <2>2. HasLearned(infos, AtWork, s, infos')
    BY ReturnedNumbers
  <2> HIDE DEF s
  <2> QED
    BY <1>2, <1>5, <2>1, <2>2, LeaveFits DEF LeadsBack
<1>7. AtWork' = AtWork \ {s} /\ ToVisit' = ToVisit
  BY ReturnedIs
<1>8. ComponentsFit'
  BY <1>2, <1>3, <1>5 DEF PassInv, ComponentsFit
<1> QED
  BY <1>2, <1>3, <1>4, <1>5, <1>6, <1>7, <1>8 DEF PassInv

\* The component that is closed is one, and leads to none that is not closed.
LEMMA CloseComponentPassInv ==
  ASSUME PassInv, ReturnVisit, CloseComponent(TopVisit.state)
  PROVE  PassInv'
<1> DEFINE s == visits[1].state
           C == From(s)
           n == Len(components)
<1>1. TopVisit.state = s /\ IsTop(infos, AtWork, s)
  BY ReturnedIs
<1>2. s \in OnStack /\ OnStack \subseteq DOMAIN infos
  BY <1>1 DEF IsTop, PassInv, Searched, NumbersFit
<1> HIDE DEF s
<1>3. /\ infos[s].lowLink = infos[s].index /\ UNCHANGED automaton
      /\ components' = Append(components, C) /\ stack' = Below(s)
  BY <1>1, <1>2, PoppedIs DEF CloseComponent, ReturnVisit, Below
<1>4. OnStack' = OnStack \ C
  <2>1. \A x : x \in OnStack \ C <=> \E i \in DOMAIN stack' : x = stack'[i]
    BY <1>2, <1>3, PoppedIs
  <2>2. \A x : x \in OnStack' <=> \E i \in DOMAIN stack' : x = stack'[i]
    BY DEF OnStack
  <2> HIDE DEF C
  <2> QED
    BY <2>1, <2>2
<1>5. InfosFit' /\ StackFits' /\ VisitsFit'
  <2>1. /\ stack' \in Seq(automaton.states)
        /\ \A i, j \in DOMAIN stack' : i < j => infos[stack'[j]].index < infos[stack'[i]].index
    BY <1>2, <1>3, PoppedIs
  <2>2. OnStack' \subseteq OnStack
    BY <1>4
  <2> QED
    BY <1>3, <2>1, <2>2, ReturnFits
<1>6. DOMAIN infos' = DOMAIN infos
  BY ReturnedNumbers
<1>7. AtWork' = AtWork \ {s} /\ ToVisit' = ToVisit
  BY ReturnedIs DEF s
<1>8. /\ C = Component(automaton, s) /\ s \in C
      /\ \A e \in automaton.edges : e.source \in C => e.target \in C \cup (DOMAIN infos \ OnStack)
      /\ Searched(automaton, infos', OnStack \ C, AtWork \ {s}, ToVisit)
  <2>1. /\ \A e \in ToVisit : e.source # s
        /\ IsGraph(automaton) /\ Searched(automaton, infos, OnStack, AtWork, ToVisit)
    BY ReturnedIs DEF PassInv, s
  <2>2. HasLearned(infos, AtWork, s, infos')
    BY ReturnedNumbers DEF s
  <2> DEFINE K == Above(infos, OnStack, s)
  <2> HIDE DEF C
  <2>3. /\ K = Component(automaton, s) /\ s \in K
        /\ \A e \in automaton.edges : e.source \in K => e.target \in K \cup (DOMAIN infos \ OnStack)
        /\ Searched(automaton, infos', OnStack \ K, AtWork \ {s}, ToVisit)
    <3>1. LeadsBack(infos, s) /\ IsTop(infos, AtWork, s)
      BY <1>1, <1>3 DEF LeadsBack
    <3>2. IsWhole(automaton, infos, OnStack, s) /\ Searched(automaton, infos', OnStack \ K, AtWork \ {s}, ToVisit)
      BY <2>1, <2>2, <3>1, CloseFits
    <3> QED
      BY <3>2 DEF IsWhole
  <2>4. C = K
    BY DEF C, From
  <2> QED
    BY <2>3, <2>4
<1>9. ComponentsFit'
  <2>1. /\ components \in Seq(SUBSET automaton.states) /\ C \in SUBSET automaton.states /\ C \subseteq OnStack
        /\ s \in ReachFrom(automaton, automaton.initial)
    <3>1. IsGraph(automaton) /\ NumbersFit(automaton, infos, OnStack, AtWork, ToVisit)
      BY DEF PassInv, Searched
    <3>2. OnStack \subseteq automaton.states
      BY <3>1, MetIsFinite
    <3>3. C \subseteq OnStack
      BY DEF From, Above
    <3>4. s \in ReachFrom(automaton, automaton.initial)
      BY <1>2, <3>1 DEF NumbersFit
    <3> HIDE DEF C
    <3> QED
      BY <3>2, <3>3, <3>4 DEF PassInv, ComponentsFit
  <2> HIDE DEF C
  <2>2. /\ components' \in Seq(SUBSET automaton.states) /\ n \in Nat
        /\ DOMAIN components = 1 .. n /\ DOMAIN components' = 1 .. (n + 1)
        /\ \A i \in 1 .. n : components'[i] = components[i]
        /\ components'[n + 1] = C
    BY <1>3, <2>1
  <2> HIDE DEF n
  <2>3. /\ \A x : x \in DOMAIN infos \ OnStack <=> \E i \in DOMAIN components : x \in components[i]
        /\ \A i \in DOMAIN components : \E x \in components[i] : /\ x \in ReachFrom(automaton, automaton.initial)
                                                             /\ components[i] = Component(automaton, x)
        /\ \A i, j \in DOMAIN components : \A x \in components[i] : x \in components[j] => i = j
        /\ \A i \in DOMAIN components : \A e \in automaton.edges :
             e.source \in components[i] => \E k \in 1 .. i : e.target \in components[k]
    BY DEF PassInv, ComponentsFit
  <2>4. \A i \in DOMAIN components' : i \in Nat /\ (i \in 1 .. n \/ i = n + 1) /\ 1 .. n \subseteq DOMAIN components'
    BY <2>2
  <2>5. n + 1 \in DOMAIN components' /\ n + 1 \notin 1 .. n
    BY <2>2
  <2>6. \A x : x \in DOMAIN infos' \ OnStack' <=> \E i \in DOMAIN components' : x \in components'[i]
    <3>1. \A x : x \in DOMAIN infos' \ OnStack' <=> x \in DOMAIN infos \ OnStack \/ x \in C
      BY <1>2, <1>4, <1>6, <2>1
    <3>2. \A x : (\E i \in DOMAIN components' : x \in components'[i]) <=>
                   (\E i \in DOMAIN components : x \in components[i]) \/ x \in C
      BY <2>2, <2>4, <2>5
    <3> QED
      BY <2>3, <3>1, <3>2
  <2>7. \A i \in DOMAIN components' : \E x \in components'[i] : /\ x \in ReachFrom(automaton, automaton.initial)
                                                            /\ components'[i] = Component(automaton, x)
    BY <1>8, <2>1, <2>2, <2>3, <2>4
  <2>8. \A i \in 1 .. n : \A x \in components[i] : x \notin C
    BY <2>1, <2>2, <2>3
  <2>9. \A i, j \in DOMAIN components' : \A x \in components'[i] : x \in components'[j] => i = j
    BY <2>2, <2>3, <2>4, <2>8
  <2>10. ASSUME NEW i \in DOMAIN components', NEW e \in automaton.edges, e.source \in components'[i]
         PROVE  \E k \in 1 .. i : e.target \in components'[k]
    <3>1. CASE i \in 1 .. n
      <4>1. PICK k \in 1 .. i : e.target \in components[k]
        BY <2>2, <2>3, <2>10, <3>1
      <4>2. k \in 1 .. n
        BY <2>2, <3>1, <4>1
      <4> QED
        BY <2>2, <4>1, <4>2
    <3>2. CASE i = n + 1
      <4>1. e.target \in C \/ e.target \in DOMAIN infos \ OnStack
        BY <1>8, <2>2, <2>10, <3>2
      <4>2. CASE e.target \in C
        BY <2>2, <3>2, <4>2
      <4>3. CASE e.target \in DOMAIN infos \ OnStack
        <5>1. PICK k \in 1 .. n : e.target \in components[k]
          BY <2>2, <2>3, <4>3
        <5>2. k \in 1 .. i
          BY <2>2, <3>2, <5>1
        <5> QED
          BY <2>2, <5>1, <5>2
      <4> QED
        BY <4>1, <4>2, <4>3
    <3> QED
      BY <2>4, <3>1, <3>2
  <2> QED
    BY <1>3, <2>2, <2>6, <2>7, <2>9, <2>10 DEF ComponentsFit
<1>10. automaton' \in Automata /\ IsGraph(automaton')
       /\ (DOMAIN infos' # {} => automaton'.initial \subseteq DOMAIN infos')
  BY <1>3, <1>6 DEF PassInv
<1>11. Searched(automaton', infos', OnStack', AtWork', ToVisit')
  BY <1>3, <1>4, <1>7, <1>8
<1> QED
  BY <1>5, <1>9, <1>10, <1>11 DEF PassInv

\* Nothing happens.
LEMMA OtherPassInv == PassInv /\ UNCHANGED passVars => PassInv'
BY DEF PassInv, passVars, InfosFit, StackFits, VisitsFit, ComponentsFit, OnStack, AtWork, ToVisit

\* A call returns.
LEMMA ReturnPassInv == PassInv /\ ReturnVisit => PassInv'
<1> SUFFICES ASSUME PassInv, ReturnVisit PROVE PassInv'
  OBVIOUS
<1>1. CloseComponent(TopVisit.state) \/ LeaveOpen(TopVisit.state)
  BY DEF ReturnVisit
<1> QED
  BY <1>1, LeaveOpenPassInv, CloseComponentPassInv

\* The invariant of the pass, which the theorems below rest on.
THEOREM PassInvHolds == PassSpec => []PassInv
<1>1. PassInv /\ [PassNext]_passVars => PassInv'
  <2> SUFFICES ASSUME PassInv, [PassNext]_passVars PROVE PassInv'
    OBVIOUS
  <2>1. CASE StartPass
    BY <2>1, StartPassInv
  <2>2. CASE VisitEdge
    <3>1. PICK e \in TopVisit.todo : VisitNew(e) \/ VisitKnown(e)
      BY <2>2 DEF VisitEdge
    <3>2. visits # <<>>
      BY <2>2 DEF VisitEdge
    <3> QED
      BY <3>1, <3>2, VisitNewPassInv, VisitKnownPassInv
  <2>3. CASE ReturnVisit
    BY <2>3, ReturnPassInv
  <2>4. CASE UNCHANGED passVars
    BY <2>4, OtherPassInv
  <2> QED
    BY <2>1, <2>2, <2>3, <2>4 DEF PassNext
<1> QED
  BY <1>1, InitPassInv, PTL DEF PassSpec

(***************************************************************************)
(* ComputeComponents closes a component after all those it leads to.       *)
(***************************************************************************)
THEOREM SuccessorsAreClosedFirst == PassSpec => []SuccessorsFirst
<1>1. PassInv => SuccessorsFirst
  <2>1. \A s : \A e \in Out(automaton, s) : e \in automaton.edges /\ e.source = s
    BY DEF Out
  <2> QED
    BY <2>1 DEF PassInv, ComponentsFit, SuccessorsFirst
<1> QED
  BY <1>1, PassInvHolds, PTL

\* When all calls have returned, what was met is what the initial state leads to.
LEMMA AllIsMet ==
  ASSUME PassInv, PassDone
  PROVE  OnStack = {} /\ DOMAIN infos = ReachFrom(automaton, automaton.initial)
<1>1. visits = <<>> /\ DOMAIN infos # {}
  BY DEF PassDone
<1>2. AtWork = {} /\ ToVisit = {}
  BY <1>1 DEF AtWork, ToVisit
<1>3. /\ Searched(automaton, infos, OnStack, {}, {}) /\ IsGraph(automaton)
      /\ automaton.initial \subseteq DOMAIN infos
  BY <1>1, <1>2 DEF PassInv
<1>4. OnStack = {}
  BY <1>3 DEF Searched, StackLeadsDown
<1>5. \A e \in automaton.edges : e.source \in DOMAIN infos => e.target \in DOMAIN infos
  BY <1>3 DEF Searched, AllMet
<1>6. automaton.initial \subseteq automaton.states
  BY <1>3 DEF IsGraph
<1>7. ReachFrom(automaton, automaton.initial) \subseteq DOMAIN infos
  <2>1. Successors(automaton, DOMAIN infos) \subseteq DOMAIN infos
    BY <1>5 DEF Successors
  <2> QED
    BY <1>3, <1>6, <2>1, ReachIsLeast
<1>8. DOMAIN infos \subseteq ReachFrom(automaton, automaton.initial)
  BY <1>3 DEF Searched, NumbersFit
<1> QED
  BY <1>4, <1>7, <1>8

(***************************************************************************)
(* When ComputeComponents is done, it has found the components of the part *)
(* of the automaton that its initial state leads to, each of them once.    *)
(***************************************************************************)
THEOREM ComponentsAreComponents == PassSpec => []ResultIsComponents
<1>1. PassInv => ResultIsComponents
  <2> SUFFICES ASSUME PassInv, PassDone
               PROVE  /\ {components[i] : i \in DOMAIN components} = Components(automaton)
                      /\ Len(components) = Cardinality(Components(automaton))
    BY DEF ResultIsComponents
  <2> DEFINE K == Components(automaton)
             n == Len(components)
  <2>1. OnStack = {} /\ DOMAIN infos = ReachFrom(automaton, automaton.initial)
    BY AllIsMet
  <2>2. IsGraph(automaton) /\ components \in Seq(SUBSET automaton.states)
    BY DEF PassInv, ComponentsFit
  <2>3. n \in Nat /\ DOMAIN components = 1 .. n
    BY <2>2
  <2>4. \A i \in 1 .. n : components[i] \in K /\ components[i] # {}
    <3>1. \A i \in 1 .. n : \E x \in components[i] : /\ x \in ReachFrom(automaton, automaton.initial)
                                                     /\ components[i] = Component(automaton, x)
      BY <2>3 DEF PassInv, ComponentsFit
    <3> QED
      BY <3>1 DEF Components
  <2>5. \A i, j \in 1 .. n : components[i] = components[j] => i = j
    BY <2>3, <2>4 DEF PassInv, ComponentsFit
  <2>6. ASSUME NEW C \in K PROVE \E i \in 1 .. n : components[i] = C
    <3>1. PICK s \in ReachFrom(automaton, automaton.initial) : C = Component(automaton, s)
      BY DEF Components
    <3>2. PICK i \in 1 .. n : s \in components[i]
      BY <2>1, <2>3, <3>1 DEF PassInv, ComponentsFit
    <3>3. s \in C
      <4>1. s \in automaton.states
        BY <2>2, ReachIsLeast DEF IsGraph
      <4> QED
        BY <2>2, <3>1, <4>1, ReachIsLeast DEF Component
    <3> HIDE DEF K
    <3>4. components[i] \in Components(automaton) /\ C \in Components(automaton)
      BY <2>4 DEF K
    <3> QED
      BY <2>2, <3>2, <3>3, <3>4, ComponentsApart
  <2> HIDE DEF K, n
  <2>7. {components[i] : i \in DOMAIN components} = K
    BY <2>3, <2>4, <2>6
  <2>8. Cardinality(K) = n
    <3> DEFINE f == [i \in 1 .. n |-> components[i]]
    <3>1. f \in Bijection(1 .. n, K)
      <4>1. f \in [1 .. n -> K]
        BY <2>4
      <4>2. \A i, j \in 1 .. n : f[i] = f[j] => i = j
        BY <2>5
      <4>3. \A C \in K : \E i \in 1 .. n : f[i] = C
        BY <2>6
      <4> HIDE DEF f
      <4> QED
        BY <4>1, <4>2, <4>3 DEF Bijection, Injection, Surjection, IsInjective
    <3>2. ExistsBijection(1 .. n, K)
      BY <3>1 DEF ExistsBijection
    <3>3. IsFiniteSet(1 .. n) /\ Cardinality(1 .. n) = n
      BY <2>3, FS_Interval
    <3> QED
      BY <3>2, <3>3, FS_Bijection
  <2> QED
    BY <2>7, <2>8 DEF K, n
<1> QED
  BY <1>1, PassInvHolds, PTL
================================================================================
