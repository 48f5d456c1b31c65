-------------------------- MODULE MCComputeComponents --------------------------
(***************************************************************************)
(* The search for components over every graph of four states with at most  *)
(* six edges.  Labels, flags and marks make no difference to it.           *)
(***************************************************************************)
EXTENDS ComputeComponents

States == {"s1", "s2", "s3", "s4"}
Arcs   == [source : States, target : States]

\* Arcs that are added where the arcs before have led: nothing is out of reach.
Sources(F) == {"s1"} \cup {e.target : e \in F}
Grown(Fs)  == Fs \cup UNION {{F \cup {e} : e \in {d \in Arcs : d.source \in Sources(F)}} : F \in Fs}

SmallGraphs ==
  LET G[n \in 0 .. 6] == IF n = 0 THEN {{}} ELSE UNION {Grown(Fs) : Fs \in {G[n - 1]}}
  IN  {[states |-> States, initial |-> {"s1"}, final |-> {}, loop |-> {}, violation |-> {},
        edges |-> F] : F \in G[6]}
=============================================================================
