---------------------------- MODULE MCAutomatonStore ----------------------------
(***************************************************************************)
(* Three states at a time, two labels and three edges: a loop edge, two    *)
(* edges that differ in their label only, and an edge between others fit.  *)
(***************************************************************************)
EXTENDS SimpleAutomatonParser, TLC

Symmetry == Permutations(Names) \cup Permutations(Addresses)
=============================================================================
