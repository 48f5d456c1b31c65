------------------------- MODULE SimpleAutomatonParser -------------------------
(***************************************************************************)
(* The two ways an automaton comes about: a construction or a filter       *)
(* builds and changes one as it likes, and SimpleAutomatonParser::parse    *)
(* (src/src/SimpleAutomatonParser.cpp) builds one from a text for chksim.  *)
(* The parser is modelled at the level of its productions: sections come   *)
(* in any order and any number, and a production is carried out, or the    *)
(* automaton is deleted and an exception thrown.                           *)
(***************************************************************************)
EXTENDS AutomatonStore

VARIABLE phase  \* "built" for the constructions; "start", "text", "parsed", "null",
                \* "refused" and "undefined" for the parser
vars == <<states, edge, edges, outgoing, incoming, initial, final, call, phase>>

Init == StoreInit /\ phase \in {"built", "start"}

\* A text without a token makes no automaton; chksim follows the null pointer.
NoText == /\ phase = "start" /\ phase' = "null"
          /\ UNCHANGED storeVars

Begin == /\ phase = "start" /\ phase' = "text"
         /\ UNCHANGED storeVars

Accept(Operation) == Operation /\ UNCHANGED phase

\* The destructor deletes states and edges.
Refuse ==
  /\ phase' = "refused"
  /\ states' = {} /\ edge' = <<>> /\ edges' = {}
  /\ outgoing' = NoEdges /\ incoming' = NoEdges
  /\ initial' = {} /\ final' = {}
  /\ UNCHANGED call

\* What is used after undefined behaviour cannot be said.
Undefined == phase' = "undefined" /\ UNCHANGED storeVars

\* A token out of place, in any section.
Malformed == Refuse

ParseState(s) == IF s \in states THEN Refuse ELSE Accept(CreateState(s))

HasEdge(s, l, t) == \E a \in edges : edge[a] = [source |-> s, label |-> l, target |-> t]

\* The test of the target asks whether the source is NULL: a target that is not
\* found goes to connect as it is.
ParseTransition(s, l, t) ==
  CASE s \notin states -> Refuse
    [] s \in states /\ t \notin states -> Undefined
    [] {s, t} \subseteq states /\ HasEdge(s, l, t) -> UNCHANGED <<storeVars, phase>>
    [] OTHER -> Accept(Connect(s, l, t))

ParseInitialState(s) == IF s \in states THEN Accept(SetInitialState(s)) ELSE Refuse

\* A final state is not named twice.
ParseFinalState(s) == IF s \in states \ final THEN Accept(AddFinalState(s)) ELSE Refuse

EndOfText == phase' = "parsed" /\ UNCHANGED storeVars

Parse ==
  \/ NoText \/ Begin
  \/ /\ phase = "text"
     /\ \/ Malformed \/ EndOfText
        \/ \E s \in Names : \/ ParseState(s) \/ ParseInitialState(s) \/ ParseFinalState(s)
                            \/ \E l \in Labels, t \in Names : ParseTransition(s, l, t)

Construct == phase = "built" /\ StoreNext /\ UNCHANGED phase

Next == Parse \/ Construct

Spec == Init /\ [][Next]_vars

-----------------------------------------------------------------------------
(***************************************************************************)
(* "Unknown state": what the parser says it does about a transition to a   *)
(* state that was not declared.  No text leads into undefined behaviour.   *)
(***************************************************************************)
UnknownIsRefused == phase # "undefined"
=============================================================================
