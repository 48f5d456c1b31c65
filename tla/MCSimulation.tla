------------------------------ MODULE MCSimulation ------------------------------
(***************************************************************************)
(* Simulation between small automata: simulators with three states and at  *)
(* most three edges, over two labels and the empty one, against simulatees *)
(* with two states and at most three edges over one label and the empty    *)
(* one, without edges that cannot be reached; and simulatees without       *)
(* initial state.                                                          *)
(***************************************************************************)
EXTENDS Simulation

Successors(E, S) == S \cup {e.target : e \in {f \in E : f.source \in S}}
IsConnected(E)   == \A e \in E : e.source \in Successors(E, Successors(E, {"1"}))

EdgeSets(S, L) ==
  LET all == [source : S, label : L, target : S]
  IN  {{}} \cup {E \in {{e, f, g} : e, f, g \in all} : IsConnected(E)}

AutomataOver(S, L) == {[states |-> S, initial |-> {"1"}, edges |-> E] : E \in EdgeSets(S, L)}

SmallPairs ==
  LET simulators == AutomataOver({"1", "2", "3"}, {"a", "b", Unobservable})
      simulatees == AutomataOver({"1", "2"}, {"a", Unobservable})
  IN  (simulators \X simulatees)
        \cup {<<a, [a EXCEPT !.initial = {}]>> : a \in simulatees}
=============================================================================
