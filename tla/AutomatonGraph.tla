----------------------------- MODULE AutomatonGraph -----------------------------
(***************************************************************************)
(* What Automaton promises the constructions and filters that use it: a    *)
(* set of states, a set of labelled edges between them, an initial state   *)
(* and final states, each operation one step.                              *)
(***************************************************************************)
CONSTANTS Names,       \* the keys of states
          Labels

VARIABLES nodes,       \* the states
          triples,     \* the edges, as source, label, target
          initial,     \* a set of one state or none
          final
graphVars == <<nodes, triples, initial, final>>

GraphInit == nodes = {} /\ triples = {} /\ initial = {} /\ final = {}

Create(s) == /\ s \notin nodes
             /\ nodes' = nodes \cup {s}
             /\ UNCHANGED <<triples, initial, final>>

Join(s, l, t) == /\ {s, t} \subseteq nodes
                 /\ triples' = triples \cup {<<s, l, t>>}
                 /\ UNCHANGED <<nodes, initial, final>>

SetInitial(s) == /\ s \in nodes
                 /\ initial' = {s}
                 /\ UNCHANGED <<nodes, triples, final>>

AddFinal(s) == /\ s \in nodes
               /\ final' = final \cup {s}
               /\ UNCHANGED <<nodes, triples, initial>>

Delete(s) == /\ s \in nodes
             /\ nodes'   = nodes \ {s}
             /\ triples' = {e \in triples : s \notin {e[1], e[3]}}
             /\ initial' = initial \ {s}
             /\ final'   = final \ {s}

\* A state gives its place, with all that refers to it, to a new one.
Renaming(old, new, s) == IF s = old THEN new ELSE s
RenameAll(old, new, S) == {Renaming(old, new, s) : s \in S}

Replace(old, new) ==
  /\ old \in nodes /\ new \notin nodes
  /\ nodes'   = RenameAll(old, new, nodes)
  /\ triples' = {<<Renaming(old, new, e[1]), e[2], Renaming(old, new, e[3])>> : e \in triples}
  /\ initial' = RenameAll(old, new, initial)
  /\ final'   = RenameAll(old, new, final)

\* The automaton is thrown away, by a parser that has to give up.
Discard == nodes' = {} /\ triples' = {} /\ initial' = {} /\ final' = {}

GraphNext ==
  \/ \E s \in Names : Create(s) \/ SetInitial(s) \/ AddFinal(s) \/ Delete(s)
  \/ \E s, t \in Names : Replace(s, t) \/ \E l \in Labels : Join(s, l, t)
  \/ Discard

GraphSpec == GraphInit /\ [][GraphNext]_graphVars
=============================================================================
