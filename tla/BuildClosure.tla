----------------------------- MODULE BuildClosure -----------------------------
(***************************************************************************)
(* FiringRule::buildClosure: everything that can be reached from a set of  *)
(* net states by firing transitions with one of the given labels, without  *)
(* letting time pass (src/src/IntervalNetFiringRule.cpp).  The search is a *)
(* recursion per seed state, modelled with its call stack: each call       *)
(* builds a closure of its own and the caller merges it.  No call knows    *)
(* what another has visited.  Merging raises the loop flag when the two    *)
(* closures share a state, and the search stops at a bound violation.      *)
(* The code takes seeds and transitions in list order, the model in any.   *)
(***************************************************************************)
EXTENDS Closure

CONSTANT SeedSets      \* the sets of net states buildClosure is called with

ASSUME SeedAssumption == \A S \in SeedSets : S \subseteq NetStates /\ IsFiniteSet(S)

VARIABLES seeds,       \* the argument
          pending,     \* the seeds still to be searched from
          calls,       \* the calls of buildClosureRecurse, innermost first
          closure,     \* the closure buildClosure returns
          done
buildVars == <<seeds, pending, calls, closure, done>>

\* A call of buildClosureRecurse: its closure and the transitions it has yet to fire.
Call(s) ==
  [state   |-> s,
   closure |-> Single(s),
   left    |-> IF IsBounded(s) THEN FireableTransitions(s) \cap Silent ELSE {}]

BuildInit == /\ seeds \in SeedSets
             /\ pending = seeds
             /\ calls = <<>>
             /\ closure = EmptyClosure
             /\ done = FALSE

NextSeed == /\ calls = <<>> /\ ~ closure.violation
            /\ \E s \in pending : /\ pending' = pending \ {s}
                                  /\ calls' = <<Call(s)>>
            /\ UNCHANGED <<seeds, closure, done>>

Finish == /\ calls = <<>> /\ ~ done
          /\ pending = {} \/ closure.violation
          /\ done' = TRUE
          /\ UNCHANGED <<seeds, pending, calls, closure>>

\* Variant: the transition stays among those to be fired.
DescendAgain == /\ calls # <<>> /\ Len(calls) < MaxDepth
                /\ ~ Head(calls).closure.violation
                /\ \E t \in Head(calls).left :
                      calls' = <<Call(FireTransition(t, Head(calls).state))>> \o calls
                /\ UNCHANGED <<seeds, pending, closure, done>>

Descend == /\ calls # <<>> /\ Len(calls) < MaxDepth
           /\ ~ Head(calls).closure.violation
           /\ \E t \in Head(calls).left :
                 calls' = <<Call(FireTransition(t, Head(calls).state)),
                            [Head(calls) EXCEPT !.left = @ \ {t}]>> \o Tail(calls)
           /\ UNCHANGED <<seeds, pending, closure, done>>

\* Variant: the closure of the last seed replaces the others.
ReturnLast == /\ calls # <<>>
              /\ Head(calls).left = {} \/ Head(calls).closure.violation
              /\ LET returned == Head(calls).closure
                     callers  == Tail(calls)
                 IN  IF callers = <<>>
                     THEN closure' = returned /\ calls' = <<>>
                     ELSE /\ calls' = <<[Head(callers) EXCEPT !.closure = Merge(@, returned)]>>
                                         \o Tail(callers)
                          /\ UNCHANGED closure
              /\ UNCHANGED <<seeds, pending, done>>

ReturnClosure == /\ calls # <<>>
                 /\ Head(calls).left = {} \/ Head(calls).closure.violation
                 /\ LET returned == Head(calls).closure
                        callers  == Tail(calls)
                    IN  IF callers = <<>>
                        THEN /\ closure' = Merge(closure, returned)
                             /\ calls' = <<>>
                        ELSE /\ calls' = <<[Head(callers) EXCEPT !.closure = Merge(@, returned)]>>
                                            \o Tail(callers)
                             /\ UNCHANGED closure
                 /\ UNCHANGED <<seeds, pending, done>>

BuildNext == NextSeed \/ Finish \/ Descend \/ ReturnClosure

BuildSpec == BuildInit /\ [][BuildNext]_buildVars /\ WF_buildVars(BuildNext)

-----------------------------------------------------------------------------
SilentFirings(S) == {x \in S \X Silent : IsBounded(x[1]) /\ IsFireable(x[2], x[1])}

(***************************************************************************)
(* The result is exact, although the search gives up everywhere at the     *)
(* first bound violation it meets: the violation is reported if and only   *)
(* if some silently reachable state breaks a bound; without one the        *)
(* closure is the whole silently reachable set, and with one it holds      *)
(* nothing else.                                                           *)
(***************************************************************************)
ClosureIsExact ==
  done => LET reach == SilentReach(seeds)
          IN  /\ closure.violation <=> \E s \in reach : ~ IsBounded(s)
              /\ closure.states \subseteq reach
              /\ closure.violation \/ closure.states = reach

(***************************************************************************)
(* Without a bound violation the order of seeds and transitions leaves no  *)
(* trace: the search in list order returns the same closure and flag.      *)
(***************************************************************************)
OrderIrrelevant ==
  done => LET inOrder == CloseOver(seeds)
          IN  IF closure.violation THEN inOrder.violation ELSE closure = inOrder

(***************************************************************************)
(* What the loop flag really says: some state of the closure is met twice, *)
(* as a seed or by a firing.  A cycle is one way to meet a state again,    *)
(* two independent firings in either order are another.                    *)
(***************************************************************************)
LoopMeansMetTwice ==
  done /\ ~ closure.violation =>
    (closure.loop <=>
       Cardinality(SilentFirings(closure.states)) + Cardinality(seeds)
          > Cardinality(closure.states))

(***************************************************************************)
(* The recursion ends, for nets in which no state silently reaches itself: *)
(* the calls that repeat each other's work do not repeat it for ever.      *)
(***************************************************************************)
BuildEnds == <>done
=============================================================================
