------------------------------ MODULE MCNetLoading ------------------------------
(***************************************************************************)
(* Two places and two transitions, one of which has the name of a partner. *)
(***************************************************************************)
EXTENDS NetLoading

NamesOfPartners == [p \in PlaceNames |-> IF p = "a" THEN "ta" ELSE "tb"]

\* Nothing behind TIME, and an interval the wrong way round.
SomeIntervals == {<<0, MaxSize>>, <<2, 1>>}
=============================================================================
