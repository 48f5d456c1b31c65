-------------------------------- MODULE Closure --------------------------------
(***************************************************************************)
(* FiringRule::Closure and the result of FiringRule::buildClosure          *)
(* (src/src/IntervalNetFiringRule.cpp): a set of net states with two       *)
(* flags.  The flags take no part in comparing closures.                   *)
(***************************************************************************)
EXTENDS FiringRule, Sequences

CONSTANTS Label,            \* Transition::getLabel, <<>> for the empty label
          PlaceList,        \* the order of Net::getPlaces
          TransitionList,   \* the order of Net::getTransitions
          MaxDepth          \* bound on the depth of the recursion

ASSUME DepthAssumption == MaxDepth \in Nat

\* The lists have what the net has, and each transition once.
ASSUME ListAssumption == /\ PlaceList \in Seq(Places)
                         /\ Places = {PlaceList[i] : i \in DOMAIN PlaceList}
                         /\ TransitionList \in Seq(Transitions)
                         /\ Transitions = {TransitionList[i] : i \in DOMAIN TransitionList}
                         /\ \A i, j \in DOMAIN TransitionList :
                              TransitionList[i] = TransitionList[j] => i = j

Silent == {t \in Transitions : Label[t] = <<>>}

EmptyClosure == [states |-> {}, loop |-> FALSE, violation |-> FALSE]

Single(s) == [states |-> {s}, loop |-> FALSE, violation |-> ~ IsBounded(s)]

\* Variants: the flags of the inner closure get lost.
MergeNoViolation(c, d) ==
  [states |-> c.states \cup d.states, violation |-> c.violation,
   loop   |-> c.loop \/ d.loop \/ c.states \cap d.states # {}]
MergeNoLoop(c, d) ==
  [states |-> c.states \cup d.states, violation |-> c.violation \/ d.violation,
   loop   |-> c.loop \/ c.states \cap d.states # {}]

\* addStates reports whether all states were new; merge takes a known one for a loop.
Merge(c, d) ==
  [states    |-> c.states \cup d.states,
   loop      |-> c.loop \/ d.loop \/ c.states \cap d.states # {},
   violation |-> c.violation \/ d.violation]

-----------------------------------------------------------------------------
(***************************************************************************)
(* Markings and net states are compared entry by entry, in index order;    *)
(* the place marking decides before the time marking.                      *)
(***************************************************************************)
Before(f, g, list) ==
  \E i \in DOMAIN list : /\ f[list[i]] < g[list[i]]
                         /\ \A k \in 1 .. (i - 1) : f[list[k]] = g[list[k]]

MarkingLess(m, n) == Before(m, n, PlaceList)

StateLess(s, r) == \/ MarkingLess(s.place, r.place)
                   \/ s.place = r.place /\ Before(s.time, r.time, TransitionList)

\* The elements of a set in ascending order.
InOrder(S, Less(_, _)) ==
  [i \in 1 .. Cardinality(S) |->
     CHOOSE s \in S : Cardinality({r \in S : Less(r, s)}) = i - 1]

(***************************************************************************)
(* buildClosure: seeds in order, and from each the recursion over silent   *)
(* transitions in list order, giving up at the first bound violation.      *)
(***************************************************************************)
Joined(c, d) == IF c.violation THEN c ELSE Merge(c, d)

\* (The sets of one make TLC work each closure out once.)
MergeAll(c, inner, n) ==
  LET M[i \in 0 .. n] ==
        IF i = 0 THEN c
        ELSE CHOOSE m \in {Joined(x, d) : x \in {M[i - 1]}, d \in {inner[i]}} : TRUE
  IN  M[n]

\* What the calls of one activation return; a transition that does not fire adds nothing.
Inner(s, deeper) ==
  [i \in DOMAIN TransitionList |->
     IF TransitionList[i] \in Silent /\ IsFireable(TransitionList[i], s)
     THEN deeper[FireTransition(TransitionList[i], s)] ELSE EmptyClosure]

CloseOver(S) ==
  LET Recurse[d \in 0 .. MaxDepth] ==
        [s \in NetStates |->
           IF d = 0 THEN Single(s)
           ELSE MergeAll(Single(s), Inner(s, Recurse[d - 1]), Len(TransitionList))]
      seeds == InOrder(S, StateLess)
  IN  MergeAll(EmptyClosure, [i \in DOMAIN seeds |-> Recurse[MaxDepth][seeds[i]]],
               Cardinality(S))

-----------------------------------------------------------------------------
\* For comparison, the net states one silent firing away from a bounded state of S ...
SilentSuccessors(S) ==
  {FireTransition(st[2], st[1]) :
     st \in {x \in S \X Silent : IsBounded(x[1]) /\ IsFireable(x[2], x[1])}}

\* ... and everything silently reachable from S, by MaxDepth rounds.
SilentReach(S) ==
  LET R[n \in 0 .. MaxDepth] ==
        IF n = 0 THEN S ELSE LET P == R[n - 1] IN P \cup SilentSuccessors(P)
  IN  R[MaxDepth]
=============================================================================
