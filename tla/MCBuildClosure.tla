---------------------------- MODULE MCBuildClosure ----------------------------
(***************************************************************************)
(* BuildClosure on the net of MCNet, from every reachable net state and    *)
(* from the pairs of states that one time step or firing leads to.         *)
(***************************************************************************)
EXTENDS BuildClosure, MCNet

StepsFrom(S) ==
  LET B == {s \in S : IsBounded(s)}
  IN  {FireTransition(x[2], x[1]) : x \in {y \in B \X Transitions : IsFireable(y[2], y[1])}}
        \cup {MakeTimeStep(s) : s \in {s \in B : CanMakeTimeStep(s)}}

ReachableStates ==
  LET R[n \in 0 .. 20] ==
        IF n = 0 THEN {InitialState} ELSE LET P == R[n - 1] IN P \cup StepsFrom(P)
  IN  R[20]

NetSeedSets ==
  {{s} : s \in ReachableStates} \cup {StepsFrom({s}) : s \in ReachableStates}
=============================================================================
