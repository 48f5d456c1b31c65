--------------------------- MODULE MCRegionAutomaton ---------------------------
(***************************************************************************)
(* Regions of every closure automaton with three states and the empty one, *)
(* at most four edges: time, an input of the partner, and a second input   *)
(* in the initial state; all states entered from the initial one, as the   *)
(* construction leaves them.                                               *)
(***************************************************************************)
EXTENDS ConstructRegionAutomaton

Edges(sources, label, type) ==
  {[source |-> s, label |-> label, type |-> type, target |-> t] :
     s \in sources, t \in {"s1", "s2", "s3", "empty"}}

Arcs == Edges({"s1", "s2", "s3"}, "1", "Time") \cup Edges({"s1", "s2", "s3"}, "p", "InputSend")
          \cup Edges({"s1"}, "q", "InputSend")

Entered(F) == {"s1"} \cup {e.target : e \in F}
Grown(Fs)  == Fs \cup UNION {{F \cup {e} : e \in {d \in Arcs : d.source \in Entered(F)}} : F \in Fs}

SmallAutomata ==
  LET G[n \in 0 .. 4] == IF n = 0 THEN {{}} ELSE UNION {Grown(Fs) : Fs \in {G[n - 1]}}
  IN  {[states |-> Entered(F), initial |-> {"s1"}, final |-> {}, loop |-> {},
        violation |-> {}, edges |-> F] : F \in G[4]}
=============================================================================
